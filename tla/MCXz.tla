-------------------------------- MODULE MCXz --------------------------------
(* The xz program for TLC: each setup is a command line, a few files, and  *)
(* what may go wrong.                                                      *)
EXTENDS Xz, TLC

(* --- options ---                                                         *)
O(o) == [o |-> o, n |-> 0, s |-> "", l |-> <<>>]
N(o, n) == [O(o) EXCEPT !.n = n]
S(o, s) == [O(o) EXCEPT !.s = s]
L(o, l) == [O(o) EXCEPT !.l = l]

NoOpt ==
  [progname |-> "xz", env |-> <<>>, argv |-> <<>>, fatal |-> FALSE, mode |-> "compress", format |-> "auto",
   stdout |-> FALSE, force |-> FALSE, keep |-> FALSE, sparse |-> TRUE, single |-> FALSE, ignore_check |-> FALSE,
   no_warn |-> FALSE, robot |-> FALSE, verbosity |-> 2, block_size |-> 0, block_list |-> <<>>,
   flush_timeout |-> FALSE, suffix |-> "", files_name |-> "", files |-> <<>>, mt |-> FALSE, threads |-> 1,
   automatic |-> FALSE, mt_one |-> FALSE, mt_threads |-> 1, limit_compress |-> 0, limit_decompress |-> 0,
   limit_mtdec |-> 0, filters |-> <<>>, preset |-> 6, extreme |-> FALSE, shown |-> NotShown, text |-> <<>>, check |-> "", adjust |-> TRUE,
   listed |-> NoPath,
   faults |-> {}, signals |-> FALSE, pipe_ignored |-> FALSE, stays_open |-> FALSE, stalls |-> FALSE,
   hangs_up |-> FALSE, moved |-> {}, other |-> 9, stdin |-> 3, stdout_ino |-> 4, tty_in |-> FALSE, tty_out |-> FALSE,
   cpus |-> 2, ram |-> 64, appends |-> FALSE, given |-> <<>>, names0 |-> <<>>, whole |-> <<>>, out0 |-> 0]

(* --- files ---                                                           *)
P(stem, suf) == [stem |-> stem, suf |-> suf]
A == P("a", <<>>)
Axz == P("a", <<".xz">>)
B == P("b", <<>>)
Bxz == P("b", <<".xz">>)
Paths == {A, Axz, B, Bxz, P("a", <<".tar">>), P("a", <<".txz">>), P("a", <<".foo">>), P("a", <<".lzma">>)}

Free == [kind |-> "free", data |-> <<>>, more |-> <<>>, open |-> FALSE, taken |-> 0, setid |-> FALSE,
         sticky |-> FALSE, links |-> FALSE, attrs |-> "source", to |-> NoPath]
Reg(data) == [Free EXCEPT !.kind = "reg", !.data = data]
Fifo(data, more) == [Free EXCEPT !.kind = "fifo", !.data = data, !.more = more, !.open = TRUE]
Dir == [Free EXCEPT !.kind = "dir"]
Link(to) == [Free EXCEPT !.kind = "link", !.to = to]
SetId(data) == [Reg(data) EXCEPT !.setid = TRUE]

(* Inodes 1 and 2 are for the files of the setup, 3 and 4 are standard     *)
(* input and output, 9 is somebody else's, the others are free for targets.*)
Setup(given, there, disk, over) ==
  LET names0 == [p \in Paths |-> IF p \in DOMAIN there THEN there[p] ELSE None]
      inodes0 == [i \in 1 .. 9 |-> IF i \in DOMAIN disk THEN disk[i] ELSE CASE i \in {3, 4} -> Reg(<<>>) [] i = 9 -> Reg(<<7, 7>>) [] OTHER -> Free]
  IN [names |-> names0, inodes |-> inodes0,
      argv |-> given,
      opt |-> over @@ [names0 |-> names0, whole |-> [i \in 1 .. 9 |-> inodes0[i].data \o inodes0[i].more],
                       given |-> [k \in DOMAIN given |-> IF given[k] = Dash THEN Stdin ELSE given[k]]]
                   @@ NoOpt]
Alone(over) == Setup(<<A>>, A :> 1, 1 :> Reg(<<1, 0, 2>>), over)
Coded(units, over) == Setup(<<Axz>>, Axz :> 1, 1 :> Reg(units), over)
Piped(in, out, over) == Setup(<<Dash>>, A :> 1, (1 :> Reg(<<1>>)) @@ (3 :> in) @@ (4 :> out), over)

Xz3 == <<XzHead, 21, 20, 22, BlockEnd, XzFoot>>
XzHoles == <<XzHead, 20, 20, 21, 20, 20, 20, BlockEnd, XzFoot>>
XzTail == <<XzHead, 20, 20, 21, 20, 20, BlockEnd, XzFoot>>
Anything == {"open", "poll", "read", "write", "create", "chown", "close", "mem", "seek"}
Decompress == O("decompress")

Compressing ==
  << Alone([signals |-> TRUE]),
     Alone([faults |-> Anything]),
     Alone([faults |-> {"unlink", "close"}, argv |-> <<O("keep"), S("format", "alone")>>]),
     Setup(<<A, B>>, (A :> 1) @@ (B :> 2) @@ (Axz :> 6), (1 :> Reg(<<1, 2>>)) @@ (2 :> Reg(<<>>)) @@ (6 :> Reg(<<5>>)),
           [signals |-> TRUE, argv |-> <<N("block-size", 1)>>]),
     Setup(<<A, B>>, (A :> 1) @@ (B :> 2) @@ (Axz :> 6), (1 :> Reg(<<1, 2>>)) @@ (2 :> Reg(<<3>>)) @@ (6 :> Reg(<<5>>)),
           [signals |-> TRUE, faults |-> {"write"}, argv |-> <<O("force")>>]),
     Alone([argv |-> <<L("block-list", <<1, -1, 0>>), N("block-size", 1)>>]),
     Alone([argv |-> <<L("block-list", <<2>>), N("block-size", 1), N("threads", 2)>>]),
     Alone([faults |-> {"fstat", "write"}]),
     Setup(<<A>>, (A :> 1) @@ (Axz :> 6), (1 :> Reg(<<1>>)) @@ (6 :> Reg(<<5>>)),
           [faults |-> {"unlink", "create"}, argv |-> <<O("force")>>]),
     Alone([moved |-> {A}]), Alone([moved |-> {Axz}, faults |-> {"write"}]),
     Alone([argv |-> <<S("format", "raw"), S("suffix", ".foo")>>]) >>
Decompressing ==
  << Coded(Xz3, [signals |-> TRUE, argv |-> <<Decompress>>]),
     Coded(XzHoles, [faults |-> Anything, argv |-> <<Decompress>>]),
     Coded(XzTail, [signals |-> TRUE, argv |-> <<Decompress>>]),
     Coded(XzHoles \o <<0, 0>> \o Xz3, [argv |-> <<Decompress, O("no-sparse")>>]),
     Coded(Xz3 \o <<5>>, [argv |-> <<Decompress, O("single-stream")>>]),
     Coded(Xz3 \o <<5>>, [argv |-> <<Decompress>>]),
     Coded(<<LzipHead, 21, LzmaFoot, 5>>, [argv |-> <<Decompress>>]),
     Coded(<<LzmaHead, 21, LzmaFoot>>, [argv |-> <<Decompress>>]),
     Coded(<<LzmaHead, 21, LzmaFoot, 5>>, [argv |-> <<Decompress>>]),
     Coded(<<LzmaHead, 21, 22, LzmaFoot>>, [argv |-> <<Decompress>>, faults |-> {"read"}]),
     Coded(<<LzmaHead, 21, 22, LzmaFoot, 5>>, [argv |-> <<Decompress>>]),
     Coded(<<Uncheckable, 21, BlockEnd, XzFoot>>, [argv |-> <<Decompress>>]),
     Coded(<<Uncheckable, XzFoot, Uncheckable, XzFoot, XzHead, 21, BlockEnd, XzFoot>>, [argv |-> <<Decompress, O("no-warn")>>]),
     Coded(<<Uncheckable, 21, BlockEnd, XzFoot>>, [argv |-> <<Decompress, O("ignore-check")>>]),
     Coded(<<Uncheckable, 21, BlockEnd, XzFoot>>, [argv |-> <<Decompress, O("no-warn")>>]),
     Coded(<<TooBig, 21, BlockEnd, XzFoot>>, [argv |-> <<Decompress>>]),
     Coded(SubSeq(Xz3, 1, 3), [argv |-> <<Decompress>>]),
     Coded(<<1, 2, 3>>, [progname |-> "xzcat", signals |-> TRUE, argv |-> <<O("force")>>]),
     Coded(<<1, 2, 3>>, [argv |-> <<Decompress, O("force"), O("stdout")>>, faults |-> {"read", "write"}]),
     Coded(<<1, 2, 3>>, [argv |-> <<O("test")>>]),
     Setup(<<Axz, Bxz>>, (Axz :> 1) @@ (Bxz :> 2), (1 :> Reg(Xz3)) @@ (2 :> Reg(<<XzHead, 21, BadHeader>>)),
           [argv |-> <<O("test")>>, faults |-> {"read"}]) >>
Pipes ==
  << Piped(Fifo(<<1>>, <<2, 3>>), Fifo(<<>>, <<>>), [argv |-> <<N("flush-timeout", 1), N("threads", 0)>>, stays_open |-> TRUE]),
     Piped(Fifo(<<1>>, <<2, 3>>), Fifo(<<>>, <<>>), [argv |-> <<N("flush-timeout", 1)>>, signals |-> TRUE,
                                                     faults |-> {"poll", "read", "write"}]),
     Piped(Fifo(<<1>>, <<2>>), Fifo(<<>>, <<>>), [signals |-> TRUE, stalls |-> TRUE, stays_open |-> TRUE]),
     Piped(Fifo(Xz3, <<>>), Fifo(<<>>, <<>>), [argv |-> <<Decompress>>, hangs_up |-> TRUE]),
     Piped(Fifo(Xz3, <<>>), Fifo(<<>>, <<>>), [argv |-> <<Decompress>>, hangs_up |-> TRUE, pipe_ignored |-> TRUE]),
     Piped(Reg(XzHoles), Reg(<<8>>), [argv |-> <<Decompress>>, appends |-> TRUE, out0 |-> 1, faults |-> {"fcntl", "seek"}]),
     Piped(Reg(XzHoles), Reg(<<8>>), [argv |-> <<Decompress>>, appends |-> TRUE, out0 |-> 1, signals |-> TRUE]),
     Piped(Reg(XzTail), Reg(<<>>), [argv |-> <<Decompress>>, signals |-> TRUE, faults |-> {"fcntl"}]),
     Piped(Reg(XzHoles), Reg(<<>>), [argv |-> <<Decompress>>, signals |-> TRUE, faults |-> {"write"}]) >>
OddFiles ==
  << Setup(<<A, B>>, (A :> 1) @@ (B :> 2), (1 :> SetId(<<1>>)) @@ (2 :> Dir), [tty_out |-> TRUE]),
     Setup(<<A, B>>, (A :> 1) @@ (B :> 2), (1 :> Link(B)) @@ (2 :> Reg(<<1>>)), [faults |-> {"open"}]),
     Setup(<<A>>, (A :> 1) @@ (B :> 2), (1 :> Link(B)) @@ (2 :> Reg(<<1>>)), [argv |-> <<O("force")>>]),
     Setup(<<A>>, A :> 1, 1 :> Fifo(<<>>, <<1>>), [argv |-> <<O("stdout")>>, signals |-> TRUE, faults |-> {"poll"}]),
     Setup(<<A>>, A :> 1, 1 :> Fifo(<<>>, <<1>>), [argv |-> <<>>, signals |-> TRUE]),
     Setup(<<Axz, A>>, Axz :> 1, 1 :> Reg(<<1>>), [argv |-> <<>>]),
     Setup(<<P("a", <<".txz">>), B>>, (P("a", <<".txz">>) :> 1) @@ (B :> 2), (1 :> Reg(Xz3)) @@ (2 :> Reg(Xz3)),
           [progname |-> "unxz"]),
     Setup(<<Dash, A>>, A :> 1, 1 :> Reg(<<1>>), [tty_out |-> TRUE]),
     Setup(<<>>, A :> 1, (1 :> Reg(<<1>>)) @@ (2 :> Reg(<<2>>)),
           [argv |-> <<[S("files", "list") EXCEPT !.l = <<[path |-> A, nul |-> FALSE, ended |-> TRUE],
                                 [path |-> EmptyName, nul |-> FALSE, ended |-> TRUE],
                                 [path |-> B, nul |-> FALSE, ended |-> FALSE]>>]>>, signals |-> TRUE, given |-> <<A, B>>]),
     Setup(<<Dash>>, A :> 1, 1 :> Reg(<<1>>), [argv |-> <<S("files", "stdin")>>]) >>
Lists ==
  << Setup(<<Bxz, Axz>>, (Axz :> 1) @@ (Bxz :> 2), (1 :> Reg(XzHoles \o <<0, XzHead, 22, BlockEnd, XzFoot>>)) @@ (2 :> Reg(<<XzHead, 23, BlockEnd, BlockEnd, XzFoot>>)),
           [argv |-> <<O("list"), O("verbose"), O("verbose")>>, signals |-> TRUE, faults |-> {"read", "seek"}]),
     Setup(<<Axz, Bxz>>, (Axz :> 1) @@ (Bxz :> 2), (1 :> Reg(<<XzHead, BadHeader, BlockEnd, XzFoot>>)) @@ (2 :> Reg(Xz3)),
           [argv |-> <<O("list"), O("verbose"), O("verbose"), O("robot")>>]),
     Setup(<<Dash, Axz, Bxz, A>>, (Axz :> 1) @@ (Bxz :> 2), (1 :> Reg(<<1>>)) @@ (2 :> Reg(<<1, 2, 3>>)), [argv |-> <<O("list")>>]),
     Coded(Xz3 \o <<5>>, [argv |-> <<O("list")>>]),
     Coded(Xz3, [argv |-> <<O("list")>>, faults |-> {"mem", "open"}]),
     Coded(Xz3, [argv |-> <<O("list"), S("format", "lzma")>>]) >>

(* --- texts ---                                                           *)
W(s) == Mark(s)
Is(name, value) == <<W(name), W("=")>> \o value
Sized(n, unit) == <<Digits(n), W(unit)>>
And(s, t) == s \o <<W(",")>> \o t
F(o, text) == [O(o) EXCEPT !.l = text]
Debug == <<O("verbose"), O("verbose")>>

LzmaTexts ==
  << Is("dict", Sized(5, "MiB")), And(Is("preset", <<Digits(3), W("e")>>), Is("dict", Sized(1, "GiB"))),
     And(<<>>, And(Is("pb", <<Digits(0)>>), Is("lc", <<Digits(0)>>))), And(Is("lc", <<Digits(4)>>), Is("lp", <<Digits(1)>>)),
     And(Is("dict", Sized(17, "k")), Is("mode", <<W("fast")>>)), And(Is("mf", <<W("hc3")>>), Is("nice", <<Digits(2)>>)),
     And(Is("depth", <<W("max")>>), Is("preset", <<Digits(0)>>)), Is("depth", <<W("max")>>),
     Is("depth", <<W(" "), Digits(9)>>), Is("depth", Sized(1, "KiB")), Is("dict", <<Digits(4 * KiB + 1)>>),
     Is("dict", <<Digits(U32Max + 1)>>), Is("dict", <<Digits(KiB)>>), Is("dict", Sized(4, "e")), Is("dict", <<>>), <<W("dict")>>,
     Is("start", <<Digits(1)>>), Is("mode", <<W("normal"), W("fast")>>), Is("mf", <<W("bt9")>>),
     Is("preset", <<W("e")>>), Is("preset", <<Digits(6), W("e"), W("e")>>), Is("preset", <<Digits(10)>>), <<W("="), Digits(1)>> >>
BranchTexts == << <<>>, Is("start", Sized(2, "KiB")), Is("start", Sized(2, "GiB")), Is("start", <<W("max")>>) >>
DeltaTexts == << <<>>, Is("dist", <<Digits(256)>>), Is("dist", <<Digits(257)>>) >>

Dashes == W("--")
Sp == W(" ")
L2 == <<W("lzma2")>>
Of(name, text) == <<W(name), W(":")>> \o text
ChainTexts ==
  << <<Digits(6)>>, <<Sp, W("-"), Digits(9), W("e"), Sp>>, <<Digits(6), Sp, W("lzma2")>>, <<Digits(6), Dashes>>, <<Dashes, Digits(6)>>,
     <<W("-"), Sp, Digits(6)>>, <<Sp>>, L2, <<Dashes>> \o L2, L2 \o <<Dashes>>, <<W("x86"), Sp, Sp>> \o L2 \o <<Sp>>,
     Of("arm64", Is("start", Sized(4, "MiB"))) \o <<Dashes>> \o Of("lzma2", LzmaTexts[2]),
     Of("delta", Is("dist", <<Digits(2)>>)) \o <<Sp, Dashes>> \o Of("lzma2", LzmaTexts[3]),
     <<Dashes, W("x86"), W("="), W(","), Sp, Dashes>> \o L2, <<W("x86")>>, L2 \o <<Sp>> \o L2, <<W("lzma1")>>, <<Dashes, Sp>> \o L2,
     <<W("x86"), Sp, W("arm"), Sp, W("sparc"), Sp, W("delta"), Sp>> \o L2,
     <<W("ia64"), Sp, W("powerpc"), Sp, W("armthumb"), Sp>> \o L2, <<W(":")>>, Of("lzma2", Is("depth", <<Digits(U32Max)>>)) >>

Options ==
  [k \in DOMAIN LzmaTexts |-> Alone([argv |-> Debug \o <<F("lzma2", LzmaTexts[k])>>, text |-> ChainTexts[1 + (k % Len(ChainTexts))]])]
  \o [k \in DOMAIN BranchTexts |-> Alone([argv |-> Debug \o <<F("x86", BranchTexts[k]), F("lzma2", LzmaTexts[k])>>])]
  \o [k \in DOMAIN DeltaTexts |-> Alone([argv |-> Debug \o <<F("delta", DeltaTexts[k]), F("lzma1", <<>>), S("format", "raw"), O("stdout")>>])]

Settings ==
  << Alone([argv |-> <<N("threads", 0), N("memlimit", 80), O("verbose"), O("verbose"), N("preset", 9), O("extreme")>>]),
     Alone([argv |-> <<N("threads", 4), N("memlimit-compress", 10), O("quiet")>>]),
     Alone([argv |-> <<N("threads", 4), N("memlimit-compress", 10), O("no-adjust")>>]),
     Alone([argv |-> <<N("threads", 0)>>, ram |-> 8]),
     Alone([env |-> <<N("threads", 2), O("robot")>>]),
     Alone([argv |-> <<F("lzma2", Is("preset", <<Digits(9)>>)), [N("memlimit-decompress", 50) EXCEPT !.s = "%"], S("check", "none")>>]),
     Alone([argv |-> <<O("x86"), O("lzma2"), N("flush-timeout", 1)>>]),
     Alone([argv |-> <<O("delta"), O("lzma2"), [N("threads", 1) EXCEPT !.s = "+"], N("memlimit-mt-decompress", 9)>>]),
     Alone([argv |-> <<O("lzma1")>>]), Alone([argv |-> <<S("format", "lzip")>>]),
     Alone([argv |-> <<S("format", "raw")>>]), Alone([argv |-> <<L("block-list", <<0, 1>>)>>]) >>

TestSetups == Compressing \o Decompressing \o Pipes \o OddFiles \o Lists \o Settings \o Options
=============================================================================
