----------------------------- MODULE Resampler -----------------------------
(***************************************************************************)
(* The streaming resamplers of the bridge (src/audio/resampler.ts).  One   *)
(* is a record of what it keeps between calls of process().                *)
(*                                                                         *)
(* What a filter does to a signal is decided by which tap it puts on which *)
(* input sample, so a sample that comes out is its place in the output and *)
(* its terms, the taps with the input samples they are put on; the taps'   *)
(* values, the sum and the clamp to 16 bits are left out.  Input samples   *)
(* are positive numbers and Silence is a zero sample.                      *)
(*                                                                         *)
(* A ratio is the pair of rates in lowest terms: up samples come out for   *)
(* every down that go in.                                                  *)
(***************************************************************************)
EXTENDS Integers, SequencesExt

CONSTANT Lag   \* tapsPerPhase - 1: how far back a filter looks

ASSUME ResamplerAssumption == Lag \in Nat

Silence == 0

Ratio(up, down) == [up |-> up, down |-> down]

\* A ratio a history can follow: the next window is never beyond its end.
Followed(ratio) ==
    /\ ratio.up \in Nat \ {0} /\ ratio.down \in Nat \ {0}
    /\ ratio.down <= ratio.up * (Lag + 1)

\* The identity resampler has no filter to prime.
Identity(ratio) == ratio.up = ratio.down

\* The constructor and reset: Lag silent samples before the first one.
FreshResampler(ratio) ==
    [ratio    |-> ratio,
     history  |-> [i \in 1..Lag |-> Silence],
     inBase   |-> -Lag,
     outIndex |-> 0]

-----------------------------------------------------------------------------
(* One output sample. *)

\* Where output n is at the interpolated rate, and the newest input it needs.
At(ratio, n) == n * ratio.down

InputIndex(ratio, n) == At(ratio, n) \div ratio.up

\* The phase of the filter: its taps are phase, phase + up, ...
Phase(ratio, n) == (ratio.up - (At(ratio, n) % ratio.up)) % ratio.up

\* Output n of a filter that has the samples x at the absolute indices.
Filtered(ratio, n, x(_)) ==
    [n     |-> n,
     terms |-> {<<Phase(ratio, n) + k * ratio.up, x(InputIndex(ratio, n) - k)>> :
                    k \in 0..Lag}]

-----------------------------------------------------------------------------
(* process. *)

LastAbsolute(r) == r.inBase + Len(r.history) - 1

HasWindow(r, n) ==
    /\ InputIndex(r.ratio, n) <= LastAbsolute(r)
    /\ InputIndex(r.ratio, n) - Lag >= r.inBase

\* How many outputs, from outIndex on, have their whole window.
Renderable(r) ==
    LET most == (LastAbsolute(r) + 1) * r.ratio.up
    IN  Cardinality({n \in r.outIndex..most :
                         \A m \in r.outIndex..n : HasWindow(r, m)})

\* Mutant: what was read is kept.
RetainedAll(r) == r

\* Only the samples a later output may need are kept.
Retained(r) ==
    LET nextInput == InputIndex(r.ratio, r.outIndex)
        keepFrom  == nextInput - Lag
        drop      == keepFrom - r.inBase
    IN  IF drop > 0
          THEN [r EXCEPT !.history = SubSeq(@, drop + 1, Len(@)),
                         !.inBase = keepFrom]
          ELSE r

\* render: what comes out, and the resampler as it is left.
Render(r) ==
    LET count == Renderable(r)
        x(i)  == r.history[i - r.inBase + 1]
    IN  [out  |-> [i \in 1..count |->
                      Filtered(r.ratio, r.outIndex + i - 1, x)],
         left |-> Retained([r EXCEPT !.outIndex = @ + count])]

\* The identity hands its input on.
PassThrough(r, samples) ==
    [out  |-> [i \in 1..Len(samples) |->
                  [n |-> r.outIndex + i - 1, terms |-> {<<0, samples[i]>>}]],
     left |-> [r EXCEPT !.outIndex = @ + Len(samples)]]

Process(r, samples) ==
    IF Identity(r.ratio) THEN PassThrough(r, samples)
                         ELSE Render([r EXCEPT !.history = @ \o samples])

-----------------------------------------------------------------------------
(* What resampling is, without chunks or buffers. *)

\* The whole signal resampled at once: what a stream of chunks has to add up to.
Resampled(ratio, signal) ==
    LET x(i) == IF i < 0 THEN Silence ELSE signal[i + 1]
        all  == {n \in 0..(Len(signal) * ratio.up) :
                     InputIndex(ratio, n) < Len(signal)}
    IN  [i \in 1..Cardinality(all) |->
            IF Identity(ratio)
              THEN [n |-> i - 1, terms |-> {<<0, signal[i]>>}]
              ELSE Filtered(ratio, i - 1, x)]

\* The textbook: up - 1 zeros are put after every input sample and the filter,
\* of (Lag + 1) * up taps, is run over the result; every down-th output stays.
\* A term per tap that meets an input sample and not one of the zeros.
ZeroStuffed(ratio, n, signal) ==
    LET t    == At(ratio, n)
        x(i) == IF i < 0 THEN Silence ELSE signal[i + 1]
        taps == {j \in 0..((Lag + 1) * ratio.up - 1) : (t - j) % ratio.up = 0}
    IN  [n |-> n, terms |-> {<<j, x((t - j) \div ratio.up)>> : j \in taps}]

\* What a resampler may hold when it waits for input.
HistoryBounded(r) ==
    /\ Len(r.history) <= Lag
    /\ ~Identity(r.ratio) => r.inBase = InputIndex(r.ratio, r.outIndex) - Lag
=============================================================================
