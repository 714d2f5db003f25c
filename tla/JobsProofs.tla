----------------------------- MODULE JobsProofs -----------------------------
(***************************************************************************)
(* Proofs about Jobs and the ids of Identifiers, for any number of jobs,   *)
(* runs and callers of NewID, any clock and any size of the sequence.      *)
(***************************************************************************)
EXTENDS Jobs, TLAPS

USE SequenceAssumption, MillisAssumption, CallingAssumption

-----------------------------------------------------------------------------
(* Type correctness. *)

LEMMA GeneratorInitType == GeneratorInit => GeneratorTypeOK
<1> SUFFICES ASSUME GeneratorInit
             PROVE  GeneratorTypeOK
  OBVIOUS
<1>1. QED
  BY DEF GeneratorInit, GeneratorTypeOK, Burst

LEMMA IssuedIsId ==
    ASSUME GeneratorTypeOK, NEW c \in Callers, reading[c] # NotCalling
    PROVE  following \in 0 .. SequenceSize - 1 /\ newID(c) \in Ids
BY DEF GeneratorTypeOK, Ids, newID, following

LEMMA ReadType ==
    ASSUME GeneratorTypeOK, NEW c \in Callers, ReadClock(c)
    PROVE  GeneratorTypeOK'
BY DEF GeneratorTypeOK, ReadClock, Burst

LEMMA TakeType ==
    ASSUME GeneratorTypeOK, NEW c \in Callers, TakeNumber(c)
    PROVE  GeneratorTypeOK'
<1>1. following \in 0 .. SequenceSize - 1 /\ newID(c) \in Ids
  BY IssuedIsId DEF TakeNumber
<1>2. now' \in 0 .. MaxMillis /\ sequence' \in 0 .. SequenceSize - 1
  BY <1>1 DEF GeneratorTypeOK, TakeNumber
<1>3. reading' \in [Callers -> 0 .. MaxMillis \cup {NotCalling}]
  BY DEF GeneratorTypeOK, TakeNumber
<1>4. issued' \subseteq Ids /\ repeated' \subseteq issued'
  BY <1>1 DEF GeneratorTypeOK, TakeNumber
<1>5. Burst \in Nat /\ taken' \in 0 .. Burst
  BY DEF GeneratorTypeOK, TakeNumber, Burst
<1>6. mishaps' \subseteq 0 .. MaxMillis
  BY DEF GeneratorTypeOK, TakeNumber
<1>7. Ids' = Ids
  BY DEF Ids
<1>8. QED
  BY <1>2, <1>3, <1>4, <1>5, <1>6, <1>7 DEF GeneratorTypeOK

LEMMA ClockType ==
    ASSUME GeneratorTypeOK, Pass \/ SetClockBack
    PROVE  GeneratorTypeOK'
<1>1. mishaps' \subseteq 0 .. MaxMillis
  <2>1. CASE Pass
    BY <2>1 DEF Pass, GeneratorTypeOK
  <2>2. CASE SetClockBack
    <3>1. now \in 0 .. MaxMillis /\ now' \in 0 .. now - 1
      BY <2>2 DEF SetClockBack, GeneratorTypeOK
    <3>2. now' .. now \subseteq 0 .. MaxMillis
      BY <3>1
    <3>3. QED
      BY <2>2, <3>2 DEF SetClockBack, GeneratorTypeOK
  <2>3. QED
    BY <2>1, <2>2
<1>2. now' \in 0 .. MaxMillis /\ taken' \in 0 .. Burst
  BY DEF Pass, SetClockBack, GeneratorTypeOK, Burst
<1>3. QED
  BY <1>1, <1>2 DEF GeneratorTypeOK, Pass, SetClockBack

LEMMA RestartType ==
    ASSUME GeneratorTypeOK, RestartGenerator
    PROVE  GeneratorTypeOK'
<1>1. mishaps' \subseteq 0 .. MaxMillis
  BY DEF RestartGenerator, GeneratorTypeOK
<1>2. QED
  BY <1>1 DEF GeneratorTypeOK, RestartGenerator, Burst

LEMMA TypeInit == Init => TypeOK
<1> SUFFICES ASSUME Init
             PROVE  TypeOK
  OBVIOUS
<1>1. GeneratorTypeOK
  BY GeneratorInitType DEF Init
<1>2. QED
  BY <1>1, MaxCallsAssumption DEF Init, TypeOK

LEMMA StepType ==
    ASSUME TypeOK, NEW g \in Runs, Step(g)
    PROVE  TypeOK'
<1> USE CallersAssumption, NoIdAssumption DEF TypeOK
<1>0. GeneratorTypeOK /\ g \in Callers
  OBVIOUS
<1>g. UNCHANGED generator => GeneratorTypeOK'
  BY <1>0 DEF GeneratorTypeOK, generator, Burst
<1>1. CASE Clock(g)
  <2>1. GeneratorTypeOK'
    BY <1>0, <1>1, ReadType DEF Clock
  <2>2. QED
    BY <1>1, <2>1 DEF Clock, goto
<1>2. CASE Number(g)
  <2>1. GeneratorTypeOK' /\ newID(g) \in Ids
    BY <1>0, <1>2, TakeType, IssuedIsId DEF Number, TakeNumber
  <2>2. QED
    BY <1>2, <2>1 DEF Number, goto
<1>3. CASE Create(g)
  BY <1>3, <1>g DEF Create, goto
<1>4. CASE ScriptEnds(g)
  BY <1>4, <1>g DEF ScriptEnds, goto
<1>5. CASE Timeout(g)
  BY <1>5, <1>g DEF Timeout, goto, Final
<1>6. CASE Complete(g)
  <2>1. runLog' \in [Ids -> Final \cup {"none", "RUNNING"}]
    BY <1>6 DEF Complete, Final
  <2>2. QED
    BY <1>6, <1>g, <2>1 DEF Complete, finish
<1>7. CASE CompleteFails(g)
  BY <1>7, <1>g DEF CompleteFails, finish
<1>8. QED
  BY <1>1, <1>2, <1>3, <1>4, <1>5, <1>6, <1>7 DEF Step

LEMMA TypeNext == TypeOK /\ [Next]_vars => TypeOK'
<1> SUFFICES ASSUME TypeOK, [Next]_vars
             PROVE  TypeOK'
  OBVIOUS
<1> USE CallersAssumption, NoIdAssumption, MaxCallsAssumption
<1>g. GeneratorTypeOK /\ (UNCHANGED generator => GeneratorTypeOK')
  BY DEF TypeOK, GeneratorTypeOK, generator, Burst
<1>1. ASSUME NEW j \in JobIds, CreateJob(j) \/ DeleteJob(j)
      PROVE  TypeOK'
  BY <1>1, <1>g DEF CreateJob, DeleteJob, TypeOK, runs
<1>2. ASSUME NEW g \in Runs, NEW j \in JobIds, RunJob(g, j)
      PROVE  TypeOK'
  BY <1>2, <1>g DEF RunJob, TypeOK
<1>3. ASSUME NEW g \in Runs, Step(g)
      PROVE  TypeOK'
  BY <1>3, StepType
<1>4. ASSUME NEW o \in Others, OtherID(o)
      PROVE  TypeOK'
  <2>1. GeneratorTypeOK'
    BY <1>4, <1>g, ReadType, TakeType DEF OtherID
  <2>2. QED
    BY <1>4, <2>1 DEF OtherID, TypeOK, runs
<1>5. CASE TimePasses
  <2>1. GeneratorTypeOK'
    BY <1>5, <1>g, ClockType DEF TimePasses
  <2>2. QED
    BY <1>5, <2>1 DEF TimePasses, TypeOK, runs
<1>6. CASE Restart
  <2>1. GeneratorTypeOK'
    BY <1>6, <1>g, RestartType DEF Restart
  <2>2. orphans' \subseteq Ids
    BY <1>6 DEF Restart, TypeOK
  <2>3. QED
    BY <1>6, <2>1, <2>2 DEF Restart, TypeOK
<1>7. CASE UNCHANGED vars
  BY <1>7, <1>g DEF vars, TypeOK, runs
<1>8. QED
  BY <1>1, <1>2, <1>3, <1>4, <1>5, <1>6, <1>7 DEF Next

\* The generator, the runs and the run log keep their types, and a run has an
\* id exactly from its second step on, in every reachable state.
THEOREM TypeCorrect == Spec => []TypeOK
<1>1. QED
  BY TypeInit, TypeNext, PTL DEF Spec

-----------------------------------------------------------------------------
(* A row is not left RUNNING without a reason. *)

LEMMA RunningStep ==
    ASSUME TypeOK, RunningHasRun, NEW g \in Runs, Step(g)
    PROVE  RunningHasRun'
<1> USE DEF RunningHasRun, TypeOK
<1>1. CASE Clock(g)
  BY <1>1 DEF Clock, goto
<1>2. CASE Number(g)
  BY <1>2 DEF Number, goto
<1>3. CASE Create(g)
  BY <1>3 DEF Create, goto
<1>4. CASE ScriptEnds(g)
  BY <1>4 DEF ScriptEnds, goto
<1>5. CASE Timeout(g)
  BY <1>5 DEF Timeout, goto
<1>6. CASE Complete(g)
  <2>1. outcome[g] # "RUNNING"
    BY DEF Final
  <2>2. QED
    BY <1>6, <2>1 DEF Complete, finish
<1>7. CASE CompleteFails(g)
  BY <1>7 DEF CompleteFails, finish
<1>8. QED
  BY <1>1, <1>2, <1>3, <1>4, <1>5, <1>6, <1>7 DEF Step

LEMMA RunningNext == TypeOK /\ RunningHasRun /\ [Next]_vars => RunningHasRun'
<1> SUFFICES ASSUME TypeOK, RunningHasRun, [Next]_vars
             PROVE  RunningHasRun'
  OBVIOUS
<1>1. ASSUME NEW g \in Runs, Step(g)
      PROVE  RunningHasRun'
  BY <1>1, RunningStep
<1>2. ASSUME NEW g \in Runs, NEW j \in JobIds, RunJob(g, j)
      PROVE  RunningHasRun'
  BY <1>2 DEF RunJob, RunningHasRun, TypeOK
<1>3. CASE Restart
  <2>1. \A i \in Ids : \A g \in Runs : logId[g] = i => i \in orphans'
    BY <1>3, NoIdAssumption DEF Restart
  <2>2. QED
    BY <1>3, <2>1 DEF Restart, RunningHasRun
<1>4. CASE UNCHANGED <<runs, runLog, orphans>>
  BY <1>4 DEF runs, RunningHasRun
<1>5. QED
  BY <1>1, <1>2, <1>3, <1>4
     DEF Next, CreateJob, DeleteJob, OtherID, TimePasses, vars

\* A row of the run log says RUNNING only while a run is going to complete it, or
\* after its run was stopped with the server or its last write failed.
THEOREM RunningRowsHaveRuns == Spec => []RunningHasRun
<1>1. Init => RunningHasRun
  BY DEF Init, RunningHasRun
<1>2. QED
  BY <1>1, TypeInit, TypeNext, RunningNext, PTL DEF Spec

-----------------------------------------------------------------------------
(* A completed row changes only when an id was given twice. *)

\* The ids that runs and rows have were given, an id two runs have was given
\* twice, and so was that of a row that is there before its run creates it.
OwnedInv ==
    /\ \A g \in Runs : logId[g] # NoId => logId[g] \in issued
    /\ \A i \in Ids : runLog[i] # "none" => i \in issued
    /\ \A g, h \in Runs : g # h /\ logId[g] = logId[h] /\ logId[g] # NoId
          => logId[g] \in repeated
    /\ \A g \in Runs : logId[g] # NoId /\ runLog[logId[g]] \in Final
          => logId[g] \in repeated
    /\ \A g \in Runs : at[g] = "create" /\ runLog[logId[g]] # "none"
          => logId[g] \in repeated

LEMMA OwnedStep ==
    ASSUME TypeOK, OwnedInv, NEW g \in Runs, Step(g)
    PROVE  OwnedInv'
<1> USE NoIdAssumption DEF OwnedInv, TypeOK
<1>1. CASE Clock(g)
  BY <1>1 DEF Clock, goto, ReadClock
<1>2. CASE Number(g)
  <2>1. newID(g) \in Ids
    BY <1>2, IssuedIsId, CallersAssumption DEF Number, TakeNumber
  <2>2. issued' = issued \cup {newID(g)} /\ repeated' = repeated \cup ({newID(g)} \cap issued)
    BY <1>2 DEF Number, TakeNumber
  <2>3. logId' = [logId EXCEPT ![g] = newID(g)] /\ at' = [at EXCEPT ![g] = "create"]
        /\ UNCHANGED runLog
    BY <1>2 DEF Number, goto
  <2>4. \A h \in Runs : h # g => logId'[h] = logId[h]
    BY <2>3
  <2>5. logId'[g] = newID(g) /\ newID(g) \in issued'
    BY <2>2, <2>3
  <2>6. \A h \in Runs : logId'[h] # NoId => logId'[h] \in issued'
    BY <2>2, <2>4, <2>5
  <2>7. \A h \in Runs : h # g /\ logId[h] = newID(g) => newID(g) \in repeated'
    BY <2>1, <2>2
  <2>8. runLog[newID(g)] # "none" => newID(g) \in repeated'
    BY <2>1, <2>2
  <2>9. QED
    BY <2>1, <2>2, <2>3, <2>4, <2>5, <2>6, <2>7, <2>8 DEF Final
<1>3. CASE Create(g)
  <2>1. UNCHANGED <<issued, repeated, logId>> /\ at' = [at EXCEPT ![g] = "script"]
    BY <1>3 DEF Create, goto, generator
  <2>2. logId[g] \in Ids /\ "RUNNING" \notin Final
    BY <1>3 DEF Create, Final
  <2>3. CASE runLog' = [runLog EXCEPT ![logId[g]] = "RUNNING"] /\ runLog[logId[g]] = "none"
    BY <2>1, <2>2, <2>3
  <2>4. CASE UNCHANGED runLog
    BY <2>1, <2>4
  <2>5. QED
    BY <1>3, <2>3, <2>4 DEF Create
<1>4. CASE ScriptEnds(g) \/ Timeout(g)
  BY <1>4 DEF ScriptEnds, Timeout, goto, generator
<1>5. CASE Complete(g)
  <2>1. UNCHANGED <<issued, repeated>> /\ logId' = [logId EXCEPT ![g] = NoId]
        /\ at' = [at EXCEPT ![g] = "idle"]
    BY <1>5 DEF Complete, finish, generator
  <2>2. logId[g] \in Ids
    BY <1>5 DEF Complete
  <2>3. \A i \in Ids : i # logId[g] => runLog'[i] = runLog[i]
    BY <1>5 DEF Complete
  <2>4. runLog[logId[g]] = "none" => runLog'[logId[g]] = "none"
    BY <1>5, <2>2 DEF Complete
  <2>5. QED
    BY <2>1, <2>2, <2>3, <2>4
<1>6. CASE CompleteFails(g)
  BY <1>6 DEF CompleteFails, finish, generator
<1>7. QED
  BY <1>1, <1>2, <1>3, <1>4, <1>5, <1>6 DEF Step

LEMMA OwnedNext == TypeOK /\ OwnedInv /\ [Next]_vars => OwnedInv'
<1> SUFFICES ASSUME TypeOK, OwnedInv, [Next]_vars
             PROVE  OwnedInv'
  OBVIOUS
<1>1. ASSUME NEW g \in Runs, Step(g)
      PROVE  OwnedInv'
  BY <1>1, OwnedStep
<1>2. ASSUME NEW g \in Runs, NEW j \in JobIds, RunJob(g, j)
      PROVE  OwnedInv'
  BY <1>2 DEF RunJob, OwnedInv, TypeOK, generator
<1>3. CASE Restart
  BY <1>3 DEF Restart, RestartGenerator, OwnedInv
<1>4. ASSUME NEW o \in Others, OtherID(o)
      PROVE  OwnedInv'
  <2>1. issued \subseteq issued' /\ repeated \subseteq repeated' /\ UNCHANGED <<runs, runLog>>
    BY <1>4 DEF OtherID, ReadClock, TakeNumber
  <2>2. QED
    BY <2>1 DEF OwnedInv, runs
<1>5. CASE UNCHANGED <<issued, repeated, runs, runLog>>
  BY <1>5 DEF OwnedInv, runs
<1>6. QED
  BY <1>1, <1>2, <1>3, <1>4, <1>5
     DEF Next, CreateJob, DeleteJob, TimePasses, Pass, SetClockBack, generator, vars

LEMMA FinalKept ==
    TypeOK /\ OwnedInv /\ [Next]_vars =>
      \A i \in Ids : runLog[i] \in Final /\ i \notin repeated' => runLog'[i] = runLog[i]
<1> SUFFICES ASSUME TypeOK, OwnedInv, [Next]_vars,
                    NEW i \in Ids, runLog[i] \in Final, i \notin repeated'
             PROVE  runLog'[i] = runLog[i]
  OBVIOUS
<1>1. ASSUME NEW g \in Runs, Create(g)
      PROVE  runLog'[i] = runLog[i]
  BY <1>1 DEF Create, TypeOK, Final
<1>2. ASSUME NEW g \in Runs, Complete(g)
      PROVE  runLog'[i] = runLog[i]
  <2>1. repeated' = repeated /\ logId[g] \in Ids /\ logId[g] # NoId
    BY <1>2, NoIdAssumption DEF Complete, generator, TypeOK
  <2>2. logId[g] # i
    BY <2>1 DEF OwnedInv
  <2>3. QED
    BY <1>2, <2>1, <2>2 DEF Complete, TypeOK
<1>3. CASE UNCHANGED runLog
  BY <1>3
<1>4. QED
  BY <1>1, <1>2, <1>3
     DEF Next, Step, Clock, Number, ScriptEnds, Timeout, CompleteFails, RunJob,
         CreateJob, DeleteJob, OtherID, TimePasses, Restart, vars

\* A completed row of the run log never changes again, as long as NewID does not
\* give its id to another run or row: no late UPDATE of another run, no
\* restart and no deletion of the job touches it.
THEOREM FinalRowsStayFinal == Spec => FinalStaysFinal
<1>1. Init => OwnedInv
  BY DEF Init, OwnedInv, Final
<1>2. QED
  BY <1>1, TypeInit, TypeNext, OwnedNext, FinalKept, PTL DEF Spec, FinalStaysFinal

-----------------------------------------------------------------------------
(* Where repeated ids come from. *)

\* How many numbers were taken since n was, counting round the sequence.
distance(n) == IF n <= sequence THEN sequence - n ELSE sequence + SequenceSize - n

\* A millisecond without a mishap has no repeated id and is not to come, and if it is
\* this one its ids have the last numbers taken.
FreshInv ==
    /\ IdsRepeatOnlyByMishap
    /\ now \notin mishaps => taken <= SequenceSize
    /\ \A i \in issued : i[1] \notin mishaps =>
          /\ i[1] <= now
          /\ i[1] = now => distance(i[2]) < taken

LEMMA TakeFresh ==
    ASSUME GeneratorTypeOK, FreshInv, NEW c \in Callers, TakeNumber(c)
    PROVE  FreshInv'
<1> DEFINE new == newID(c)
<1>1. /\ mishaps \subseteq mishaps' /\ now' = now /\ now \in Nat
      /\ reading[c] # now => reading[c] \in mishaps'
      /\ taken' = Burst => now \in mishaps'
  BY DEF TakeNumber, GeneratorTypeOK
<1>2. new = <<reading[c], following>> /\ new \in Ids
  BY IssuedIsId DEF newID, TakeNumber
<1>3. sequence' = following /\ issued' = issued \cup {new}
      /\ repeated' = repeated \cup ({new} \cap issued)
  BY DEF TakeNumber
<1>4. ASSUME now \notin mishaps'
      PROVE  taken \in Nat /\ taken' = taken + 1 /\ taken' <= SequenceSize
  BY <1>1, <1>4 DEF TakeNumber, GeneratorTypeOK, Burst
<1>5. ASSUME NEW i \in issued, i[1] = now, now \notin mishaps'
      PROVE  i[2] # following /\ distance(i[2])' = distance(i[2]) + 1
  <2>1. i[2] \in 0 .. SequenceSize - 1 /\ sequence \in 0 .. SequenceSize - 1
    BY DEF GeneratorTypeOK, Ids
  <2>2. distance(i[2]) < taken
    BY <1>1, <1>5 DEF FreshInv
  <2>3. distance(i[2]) < SequenceSize - 1
    BY <1>4, <1>5, <2>1, <2>2 DEF distance
  <2>4. QED
    BY <1>3, <2>1, <2>3 DEF distance, following
<1>6. new \in issued => new[1] \in mishaps'
  <2> SUFFICES ASSUME new \in issued, reading[c] \notin mishaps'  PROVE FALSE
    BY <1>2
  <2>1. reading[c] = now  BY <1>1
  <2>2. QED
    BY <1>2, <1>5, <2>1
<1>7. IdsRepeatOnlyByMishap'
  BY <1>1, <1>3, <1>6 DEF FreshInv, IdsRepeatOnlyByMishap
<1>8. ASSUME NEW i \in issued', i[1] \notin mishaps'
      PROVE  i[1] <= now' /\ (i[1] = now' => distance(i[2])' < taken')
  <2>1. CASE i = new
    <3>1. i[1] = now /\ i[2] = following
      BY <1>1, <1>2, <1>8, <2>1
    <3>2. distance(i[2])' = 0
      BY <1>3, <3>1 DEF distance, following, GeneratorTypeOK
    <3>3. QED
      BY <1>1, <1>4, <1>8, <3>1, <3>2
  <2>2. CASE i \in issued
    <3>1. i[1] <= now /\ i[1] \notin mishaps
      BY <1>1, <1>8, <2>2 DEF FreshInv
    <3>2. ASSUME i[1] = now
          PROVE  distance(i[2])' < taken'
      <4>1. i[2] \in 0 .. SequenceSize - 1 /\ sequence \in 0 .. SequenceSize - 1
        BY <2>2 DEF GeneratorTypeOK, Ids
      <4>2. distance(i[2]) < taken /\ distance(i[2]) \in Int
        BY <2>2, <3>1, <3>2, <4>1 DEF FreshInv, distance
      <4>3. QED
        BY <1>4, <1>5, <1>8, <2>2, <3>2, <4>2
    <3>3. QED
      BY <1>1, <3>1, <3>2
  <2>3. QED
    BY <1>3, <2>1, <2>2
<1>9. QED
  BY <1>1, <1>4, <1>7, <1>8 DEF FreshInv

LEMMA FreshNext == TypeOK /\ FreshInv /\ [Next]_vars => FreshInv'
<1> SUFFICES ASSUME TypeOK, FreshInv, [Next]_vars
             PROVE  FreshInv'
  OBVIOUS
<1>t. GeneratorTypeOK
  BY DEF TypeOK
<1>1. ASSUME NEW c \in Callers, TakeNumber(c)
      PROVE  FreshInv'
  BY <1>1, <1>t, TakeFresh
<1>2. ASSUME NEW c \in Callers, ReadClock(c)
      PROVE  FreshInv'
  BY <1>2 DEF ReadClock, FreshInv, IdsRepeatOnlyByMishap, distance
<1>i. \A i \in issued : i[1] \in Nat /\ now \in Nat
  BY <1>t DEF GeneratorTypeOK, Ids
<1>3. CASE Pass
  <2>1. now' = now + 1 /\ taken' = 0 /\ UNCHANGED <<issued, repeated, mishaps>>
    BY <1>3 DEF Pass
  <2>2. IdsRepeatOnlyByMishap'
    BY <2>1 DEF FreshInv, IdsRepeatOnlyByMishap
  <2>3. QED
    BY <1>i, <2>1, <2>2 DEF FreshInv
<1>4. CASE SetClockBack
  <2>1. now' \in 0 .. now - 1 /\ taken' = 0 /\ UNCHANGED <<issued, repeated>>
        /\ mishaps' = mishaps \cup (now' .. now)
    BY <1>4 DEF SetClockBack
  <2>2. IdsRepeatOnlyByMishap'
    BY <2>1 DEF FreshInv, IdsRepeatOnlyByMishap
  <2>3. now' \in mishaps' /\ \A i \in issued : i[1] \notin mishaps' => i[1] < now'
    BY <1>i, <1>t, <2>1 DEF FreshInv, GeneratorTypeOK
  <2>4. QED
    BY <1>i, <2>1, <2>2, <2>3 DEF FreshInv
<1>5. CASE Restart
  <2>1. mishaps' = mishaps \cup {now} /\ UNCHANGED <<now, issued, repeated>>
    BY <1>5 DEF Restart, RestartGenerator
  <2>2. IdsRepeatOnlyByMishap'
    BY <2>1 DEF FreshInv, IdsRepeatOnlyByMishap
  <2>3. QED
    BY <2>1, <2>2 DEF FreshInv
<1>6. CASE UNCHANGED generator
  BY <1>6 DEF generator, FreshInv, IdsRepeatOnlyByMishap, distance
<1>7. QED
  BY <1>1, <1>2, <1>3, <1>4, <1>5, <1>6, CallersAssumption
     DEF Next, Step, Clock, Number, Create, ScriptEnds, Timeout, Complete, CompleteFails,
         RunJob, CreateJob, DeleteJob, OtherID, TimePasses, vars

\* NewID repeats an id only if, in the very millisecond of the id, more numbers were
\* taken than the mask tells apart or the process was restarted, or a call that had
\* read it took its number in another one, or the clock was set back to it or past it.
THEOREM RepeatsNeedMishap == Spec => []IdsRepeatOnlyByMishap
<1>1. Init => FreshInv
  BY DEF Init, GeneratorInit, FreshInv, IdsRepeatOnlyByMishap
<1>2. FreshInv => IdsRepeatOnlyByMishap
  BY DEF FreshInv
<1>3. QED
  BY <1>1, <1>2, TypeInit, TypeNext, FreshNext, PTL DEF Spec

=============================================================================
