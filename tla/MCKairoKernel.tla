---------------------------- MODULE MCKairoKernel ----------------------------
(***************************************************************************)
(* Instances of KairoKernel for TLC.                                       *)
(***************************************************************************)
EXTENDS KairoKernel, TLC

CONSTANTS a, b, f1, f2

OneField == {f1}
TwoFields == {f1, f2}
OneValue == {a}
TwoValues == {a, b}

\* One value in one of two chunks, in both, in none.
Documents1 == {<<{a}>>, <<{}>>}
Documents2 == {<<{a}, {}>>, <<{}, {a}>>, <<{a}, {a, b}>>, <<{}, {}>>}

Out(value, span, conf, at) ==
  [value |-> value, span |-> span, conf |-> conf, at |-> at]

\* A sure value with and without a chunk, a doubtful one, one quoted from a
\* span that reads otherwise, and another value, which most documents lack.
Outputs == {Out(a, NoText, 100, 1), Out(a, NoText, 100, 0),
            Out(a, NoText, 40, 1), Out(b, a, 100, 1),
            Out(b, NoText, 100, 1)}
SureOutput == {Out(a, NoText, 100, 1)}
=============================================================================
