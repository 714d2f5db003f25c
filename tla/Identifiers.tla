----------------------------- MODULE Identifiers -----------------------------
(***************************************************************************)
(* The ids of rows in the Go backend (common/id.go NewID): the millisecond *)
(* of the clock, then the last bits of a counter of the process.  A call   *)
(* reads the clock first and takes its number after that; any number of    *)
(* goroutines may be between the two.                                      *)
(*                                                                         *)
(* Abstracted: the shift by 12 bits packs the two numbers into one without *)
(* losing any of them, so an id is the pair.                               *)
(***************************************************************************)
EXTENDS Integers

CONSTANTS
    Callers,        \* the goroutines that may be in NewID at one time
    SequenceSize,   \* 2^12: how many numbers the mask 0x0fff leaves
    MaxMillis,      \* bound of the clock
    NotCalling      \* no reading

ASSUME SequenceAssumption == SequenceSize \in Nat \ {0}
ASSUME MillisAssumption == MaxMillis \in Nat
ASSUME CallingAssumption == NotCalling \notin 0 .. MaxMillis

VARIABLES
    now,        \* the clock of the machine, in milliseconds
    sequence,   \* idSequence, as far as the mask lets it through
    reading,    \* what each call has read from the clock
    issued,     \* the ids given so far
    repeated,   \* the ids given more than once
    taken,      \* how many numbers were taken in this millisecond, up to a burst
    mishaps     \* the milliseconds that something happened to which makes their ids unsafe

generator == <<now, sequence, reading, issued, repeated, taken, mishaps>>

Ids == (0 .. MaxMillis) \X (0 .. SequenceSize - 1)

\* More numbers in one millisecond than there are.
Burst == SequenceSize + 1

GeneratorTypeOK ==
    /\ now \in 0 .. MaxMillis
    /\ sequence \in 0 .. SequenceSize - 1
    /\ reading \in [Callers -> 0 .. MaxMillis \cup {NotCalling}]
    /\ issued \subseteq Ids
    /\ repeated \subseteq issued
    /\ taken \in 0 .. Burst
    /\ mishaps \subseteq 0 .. MaxMillis

GeneratorInit ==
    /\ now = 0
    /\ sequence = 0
    /\ reading = [c \in Callers |-> NotCalling]
    /\ issued = {}
    /\ repeated = {}
    /\ taken = 0
    /\ mishaps = {}

-----------------------------------------------------------------------------
(* A call of NewID. *)

ReadClock(c) ==
    /\ reading[c] = NotCalling
    /\ reading' = [reading EXCEPT ![c] = now]
    /\ UNCHANGED <<now, sequence, issued, repeated, taken, mishaps>>

\* Mutant: no mask.
followingBug == sequence + 1

\* The counter after an increment, as far as the mask lets it through.
following == IF sequence = SequenceSize - 1 THEN 0 ELSE sequence + 1

\* Mutant: the mask keeps a bit less of the counter.
newIDBug(c) == <<reading[c], IF following = SequenceSize - 1 THEN 0 ELSE following>>

newID(c) == <<reading[c], following>>

TakeNumber(c) ==
    /\ reading[c] # NotCalling
    /\ reading' = [reading EXCEPT ![c] = NotCalling]
    /\ sequence' = following
    /\ issued' = issued \cup {newID(c)}
    /\ repeated' = repeated \cup ({newID(c)} \cap issued)
    /\ taken' = IF taken = Burst THEN Burst ELSE taken + 1
    /\ mishaps' = mishaps \cup (IF taken' = Burst THEN {now} ELSE {})
                          \cup (IF reading[c] # now THEN {reading[c]} ELSE {})
    /\ UNCHANGED now

-----------------------------------------------------------------------------
(* The machine. *)

Pass ==
    /\ now < MaxMillis
    /\ now' = now + 1
    /\ taken' = 0
    /\ UNCHANGED <<sequence, reading, issued, repeated, mishaps>>

\* The clock is corrected to an earlier time, and comes by the same milliseconds again.
SetClockBack ==
    /\ now' \in 0 .. now - 1
    /\ taken' = 0
    /\ mishaps' = mishaps \cup (now' .. now)
    /\ UNCHANGED <<sequence, reading, issued, repeated>>

\* The counter of a new process starts at zero.
RestartGenerator ==
    /\ sequence' = 0
    /\ reading' = [c \in Callers |-> NotCalling]
    /\ taken' = 0
    /\ mishaps' = mishaps \cup {now}
    /\ UNCHANGED <<now, issued, repeated>>

-----------------------------------------------------------------------------
(* What must hold. *)

\* NewID gives an id twice only if something happened to the very millisecond of the id:
\* more numbers were taken within it than the mask tells apart, a call that had read
\* it took its number in another one, the process was restarted in it or the clock
\* was set back to it or past it.  What happened to other milliseconds does no harm.
IdsRepeatOnlyByMishap == \A i \in repeated : i[1] \in mishaps

=============================================================================
