------------------------------ MODULE Stepwise ------------------------------
(***************************************************************************)
(* Loops as operators. Like FoldLeft of SequencesExt, but what one round   *)
(* yields is computed once, however often the next round refers to it.     *)
(***************************************************************************)
EXTENDS Integers, Sequences

(* f of the value of x.                                                    *)
With(x, f(_)) == CHOOSE y \in {f(v) : v \in {x}} : TRUE

Fold(f(_, _), base, seq) ==
  LET round[n \in 0 .. Len(seq)] ==
        IF n = 0 THEN base ELSE With(round[n - 1], LAMBDA v : f(v, seq[n]))
  IN round[Len(seq)]

(* f applied k times to x.                                                 *)
Times(k, f(_), x) ==
  LET round[n \in 0 .. k] == IF n = 0 THEN x ELSE With(round[n - 1], f)
  IN round[k]

(* A loop of at most 81 rounds, over when x.done; without deep recursion.  *)
(* One that takes longer has no value.                                     *)
Thrice(f(_), x) == Times(3, LAMBDA y : IF y.done THEN y ELSE f(y), x)
NineTimes(f(_), x) == Thrice(LAMBDA y : Thrice(f, y), x)
Loop(step(_), x) == CHOOSE z \in {NineTimes(LAMBDA y : NineTimes(step, y), x)} : z.done

Total(seq, f(_)) ==
  LET sum[n \in 0 .. Len(seq)] == IF n = 0 THEN 0 ELSE sum[n - 1] + f(seq[n])
  IN sum[Len(seq)]
=============================================================================
