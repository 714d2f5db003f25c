------------------------------ MODULE ApiProofs ------------------------------
(***************************************************************************)
(* Proofs about Api: what no request can do on any of the routes.          *)
(*                                                                         *)
(* The argument has four steps: the kinds of handlers there are, and how   *)
(* a handler is made up of its stages; the kind of each handler; that each *)
(* route fits what the operation log and the document have for it; and an  *)
(* inductive invariant about what is left of the handler under way.        *)
(***************************************************************************)
EXTENDS Api, SequenceTheorems, TLAPS

-----------------------------------------------------------------------------
(***************************************************************************)
(* Handlers as sequences of stages, and what their order has to respect.   *)
(***************************************************************************)

Stages(codes) == [refuses : SUBSET codes, needs : BOOLEAN,
                  effect : {"none", "sure", "row", "maybe", "penalty"}]

\* Nothing is refused behind a stage that may have changed something.
Safe(h) ==
    \A i \in 1 .. Len(h) :
        /\ h[i].effect # "penalty"
        /\ h[i].refuses = {} \/ \A j \in 1 .. i - 1 : h[j].effect = "none"

\* Whoever gets to the end has changed something: something for sure, or a row that
\* is known to be there, be it from a stage before or from the one that changes it.
Writes(h) ==
    \E i \in 1 .. Len(h) :
        \/ h[i].effect = "sure"
        \/ h[i].effect = "row" /\ \E j \in 1 .. i : h[j].needs

\* The codes of every handler but a few.
Plain == Nat \ {401000, 403000, 409000}

\* Handlers, by what they do with the codes they may refuse with: those that only
\* look, those that look and find the row, those that refuse in time, and those that
\* on top of it write.
Looks(codes) == Seq({s \in Stages(codes) : s.effect = "none"})
Finds(codes) == {h \in Looks(codes) : \E i \in 1 .. Len(h) : h[i].needs}
Refusers(codes) == {h \in Seq(Stages(codes)) : Safe(h)}
Writers(codes) == {h \in Refusers(codes) : Writes(h)}

\* What membership of the kinds of handlers comes to.
LEMMA Kinds ==
    ASSUME NEW codes, NEW h
    PROVE  /\ h \in Refusers(codes) <=> h \in Seq(Stages(codes)) /\ Safe(h)
           /\ h \in Writers(codes) <=> h \in Refusers(codes) /\ Writes(h)
BY Zenon DEF Refusers, Writers

\* A stage is a handler of one stage.
LEMMA StageAlone ==
    ASSUME NEW codes, NEW s \in Stages(codes)
    PROVE  <<s>> \in Seq(Stages(codes)) /\ Len(<<s>>) = 1 /\ <<s>>[1] = s
OBVIOUS

\* To look twice is to look.
LEMMA LookOn ==
    ASSUME NEW codes, NEW p \in Looks(codes), NEW q \in Looks(codes)
    PROVE  p \o q \in Looks(codes)
BY DEF Looks

\* To look before or behind one has found the row is to have found it.
LEMMA FindOn ==
    ASSUME NEW codes, NEW p \in Looks(codes), NEW q \in Looks(codes),
           p \in Finds(codes) \/ q \in Finds(codes)
    PROVE  p \o q \in Finds(codes)
<1> DEFINE S == {s \in Stages(codes) : s.effect = "none"}
           r == p \o q
<1>1. p \in Seq(S) /\ q \in Seq(S)  BY DEF Looks
<1> HIDE DEF S
<1>2. /\ r \in Seq(S) /\ Len(p) \in Nat /\ Len(q) \in Nat
      /\ Len(r) = Len(p) + Len(q)
      /\ \A i \in 1 .. Len(p) + Len(q) : r[i] = IF i <= Len(p) THEN p[i] ELSE q[i - Len(p)]
  BY <1>1, ConcatProperties, LenProperties
<1> HIDE DEF r
<1>3. ASSUME NEW i \in 1 .. Len(p), p[i].needs  PROVE \E j \in 1 .. Len(r) : r[j].needs
  <2>1. i \in 1 .. Len(r) /\ r[i] = p[i]  BY <1>2
  <2> QED  BY <1>3, <2>1
<1>4. ASSUME NEW i \in 1 .. Len(q), q[i].needs  PROVE \E j \in 1 .. Len(r) : r[j].needs
  <2>1. Len(p) + i \in 1 .. Len(r)  BY <1>2
  <2>2. r[Len(p) + i] = q[(Len(p) + i) - Len(p)] /\ (Len(p) + i) - Len(p) = i
    BY <1>2, <2>1
  <2> QED  BY <1>4, <2>1, <2>2
<1>5. r \in Looks(codes)  BY <1>2 DEF Looks, S
<1> QED  BY <1>3, <1>4, <1>5 DEF Finds, r

\* Looking first spoils nothing.
LEMMA LookFirst ==
    ASSUME NEW codes, NEW p \in Looks(codes), NEW q \in Refusers(codes)
    PROVE  p \o q \in Refusers(codes)
<1> DEFINE r == p \o q
<1>1. p \in Seq(Stages(codes)) /\ \A i \in 1 .. Len(p) : p[i].effect = "none"
  <2> DEFINE S == {s \in Stages(codes) : s.effect = "none"}
  <2>1. p \in Seq(S) /\ S \subseteq Stages(codes)  BY DEF Looks
  <2>2. \A s \in S : s.effect = "none"  OBVIOUS
  <2> HIDE DEF S
  <2> QED  BY <2>1, <2>2, SeqMonotonic, ElementOfSeq
<1>2. /\ r \in Seq(Stages(codes)) /\ Len(p) \in Nat /\ Len(q) \in Nat
      /\ Len(r) = Len(p) + Len(q)
      /\ \A i \in 1 .. Len(p) + Len(q) : r[i] = IF i <= Len(p) THEN p[i] ELSE q[i - Len(p)]
  BY <1>1, ConcatProperties, LenProperties, Kinds
<1> HIDE DEF r
<1>3. ASSUME NEW i \in 1 .. Len(r)
      PROVE  /\ r[i].effect # "penalty"
             /\ r[i].refuses = {} \/ \A j \in 1 .. i - 1 : r[j].effect = "none"
  <2>1. CASE i <= Len(p)
    <3>1. \A j \in 1 .. i : j \in 1 .. Len(p) /\ r[j] = p[j]  BY <1>2, <2>1
    <3>2. \A j \in 1 .. i : r[j].effect = "none"  BY <1>1, <3>1
    <3>3. i \in 1 .. i /\ \A j \in 1 .. i - 1 : j \in 1 .. i  BY <1>2
    <3> QED  BY <3>2, <3>3
  <2>2. CASE i > Len(p)
    <3> DEFINE k == i - Len(p)
    <3>1. k \in 1 .. Len(q) /\ r[i] = q[k]  BY <1>2, <2>2
    <3>2. ASSUME NEW j \in 1 .. i - 1, \A l \in 1 .. k - 1 : q[l].effect = "none"
          PROVE  r[j].effect = "none"
      <4>1. CASE j <= Len(p)
        <5>1. j \in 1 .. Len(p) /\ r[j] = p[j]  BY <1>2, <4>1
        <5> QED  BY <1>1, <5>1
      <4>2. CASE j > Len(p)
        <5>1. j - Len(p) \in 1 .. k - 1 /\ r[j] = q[j - Len(p)]  BY <1>2, <2>2, <4>2
        <5> QED  BY <3>2, <5>1
      <4> QED  BY <1>2, <4>1, <4>2
    <3>3. /\ q[k].effect # "penalty"
          /\ q[k].refuses = {} \/ \A l \in 1 .. k - 1 : q[l].effect = "none"
      BY <3>1, Kinds DEF Safe
    <3> QED  BY <3>1, <3>2, <3>3
  <2> QED  BY <1>2, <2>1, <2>2, SMTT(30)
<1> QED  BY <1>2, <1>3, Kinds DEF r, Safe

\* A handler that writes in one of its parts writes.
LEMMA WriteOn ==
    ASSUME NEW codes, NEW p \in Seq(Stages(codes)), NEW q \in Seq(Stages(codes)),
           Writes(p) \/ Writes(q)
    PROVE  p \o q \in Seq(Stages(codes)) /\ Writes(p \o q)
<1> DEFINE r == p \o q
<1>1. /\ r \in Seq(Stages(codes)) /\ Len(p) \in Nat /\ Len(q) \in Nat
      /\ Len(r) = Len(p) + Len(q)
      /\ \A i \in 1 .. Len(p) + Len(q) : r[i] = IF i <= Len(p) THEN p[i] ELSE q[i - Len(p)]
  BY ConcatProperties, LenProperties
<1> HIDE DEF r
<1>3. ASSUME NEW i \in 1 .. Len(p),
             p[i].effect = "sure" \/ (p[i].effect = "row" /\ \E j \in 1 .. i : p[j].needs)
      PROVE  Writes(r)
  <2>1. \A j \in 1 .. i : j \in 1 .. Len(p) /\ r[j] = p[j]  BY <1>1
  <2>2. i \in 1 .. i /\ i \in 1 .. Len(r)  BY <1>1
  <2> QED  BY <1>3, <2>1, <2>2 DEF Writes
<1>4. ASSUME NEW i \in 1 .. Len(q),
             q[i].effect = "sure" \/ (q[i].effect = "row" /\ \E j \in 1 .. i : q[j].needs)
      PROVE  Writes(r)
  <2>1. \A j \in 1 .. Len(q) : Len(p) + j \in 1 .. Len(r) /\ r[Len(p) + j] = q[j]
    <3> TAKE j \in 1 .. Len(q)
    <3>1. Len(p) + j \in 1 .. Len(r) /\ ~ (Len(p) + j <= Len(p)) /\ (Len(p) + j) - Len(p) = j
      BY <1>1
    <3> QED  BY <1>1, <3>1
  <2>2. Len(p) + i \in 1 .. Len(r) /\ r[Len(p) + i] = q[i]  BY <2>1
  <2>3. ASSUME NEW j \in 1 .. i, q[j].needs  PROVE \E l \in 1 .. Len(p) + i : r[l].needs
    <3>1. j \in 1 .. Len(q) /\ Len(p) + j \in 1 .. Len(p) + i  BY <1>1
    <3> QED  BY <2>1, <2>3, <3>1
  <2> DEFINE l == Len(p) + i
  <2>4. /\ l \in 1 .. Len(r)
        /\ \/ r[l].effect = "sure"
           \/ r[l].effect = "row" /\ \E j \in 1 .. l : r[j].needs
    BY <1>4, <2>2, <2>3
  <2> HIDE DEF l
  <2> QED  BY <2>4 DEF Writes
<1> QED  BY <1>1, <1>3, <1>4 DEF r, Writes

\* So does one that finds the row and goes on to change it.
LEMMA FindAndChange ==
    ASSUME NEW codes, Plain \subseteq codes, NEW p \in Finds(codes)
    PROVE  p \o change \in Writers(codes)
<1> DEFINE r == p \o change
<1>1. /\ change \in Seq(Stages(codes)) /\ Len(change) = 1
      /\ change[1].effect = "row"
  <2> DEFINE s == [refuses |-> {500000}, needs |-> FALSE, effect |-> "row"]
  <2>1. s.effect = "row"  OBVIOUS
  <2>2. s \in Stages(codes) /\ change = <<s>>  BY SMTT(30) DEF Plain, Stages, change, stage
  <2> HIDE DEF s
  <2> QED  BY <2>1, <2>2, StageAlone
<1>2. change \in Refusers(codes)  BY <1>1, Kinds DEF Safe
<1>3. r \in Refusers(codes)  BY <1>2, LookFirst DEF Finds
<1>4. p \in Seq({s \in Stages(codes) : s.effect = "none"})  BY DEF Finds, Looks
<1>5. p \in Seq(Stages(codes))
  <2> DEFINE S == {s \in Stages(codes) : s.effect = "none"}
  <2>1. S \subseteq Stages(codes)  OBVIOUS
  <2> HIDE DEF S
  <2> QED  BY <1>4, <2>1, SeqMonotonic DEF S
<1>6. /\ Len(p) \in Nat /\ Len(r) = Len(p) + 1
      /\ \A i \in 1 .. Len(p) + 1 : r[i] = IF i <= Len(p) THEN p[i] ELSE change[i - Len(p)]
  <2>1. /\ r \in Seq(Stages(codes)) /\ Len(p) \in Nat /\ Len(r) = Len(p) + Len(change)
        /\ \A i \in 1 .. Len(p) + Len(change) :
              r[i] = IF i <= Len(p) THEN p[i] ELSE change[i - Len(p)]
    BY <1>1, <1>5, ConcatProperties, LenProperties
  <2> HIDE DEF r
  <2> QED  BY <1>1, <2>1
<1>7. PICK j \in 1 .. Len(p) : p[j].needs  BY DEF Finds
<1> DEFINE l == Len(p) + 1
<1>8. /\ l \in 1 .. Len(r) /\ r[l].effect = "row"
      /\ j \in 1 .. l /\ r[j].needs
  <2>1. l \in 1 .. Len(p) + 1 /\ ~ (l <= Len(p)) /\ l - Len(p) = 1  BY <1>6
  <2>2. j \in 1 .. Len(p) + 1 /\ j <= Len(p) /\ j \in 1 .. l  BY <1>6
  <2> HIDE DEF l, r
  <2> QED  BY <1>1, <1>6, <1>7, <2>1, <2>2
<1>9. Writes(r)
  <2>1. \E k \in 1 .. l : r[k].needs  BY <1>8
  <2> HIDE DEF l, r
  <2> QED  BY <1>8, <2>1 DEF Writes
<1> QED  BY <1>3, <1>9, Kinds

\* What is only tried refuses nobody.
LEMMA TryLast ==
    ASSUME NEW codes, NEW q \in Writers(codes)
    PROVE  q \o attempt \in Writers(codes)
<1> DEFINE r == q \o attempt
<1>1. /\ attempt \in Seq(Stages(codes)) /\ Len(attempt) = 1
      /\ attempt[1].effect = "maybe" /\ attempt[1].refuses = {}
  <2> DEFINE s == [refuses |-> {}, needs |-> FALSE, effect |-> "maybe"]
  <2>1. s.effect = "maybe" /\ s.refuses = {}  OBVIOUS
  <2>2. s \in Stages(codes) /\ attempt = <<s>>  BY SMTT(30) DEF Plain, Stages, attempt, stage
  <2> HIDE DEF s
  <2> QED  BY <2>1, <2>2, StageAlone
<1>2. q \in Seq(Stages(codes)) /\ Safe(q) /\ Writes(q)  BY Kinds
<1>3. /\ r \in Seq(Stages(codes)) /\ Len(q) \in Nat /\ Len(r) = Len(q) + 1
      /\ \A i \in 1 .. Len(q) + 1 : r[i] = IF i <= Len(q) THEN q[i] ELSE attempt[i - Len(q)]
  <2>0. attempt \in Seq(Stages(codes)) /\ q \in Seq(Stages(codes))  BY <1>1, <1>2
  <2>1. /\ r \in Seq(Stages(codes)) /\ Len(q) \in Nat /\ Len(r) = Len(q) + Len(attempt)
        /\ \A i \in 1 .. Len(q) + Len(attempt) :
              r[i] = IF i <= Len(q) THEN q[i] ELSE attempt[i - Len(q)]
    BY <2>0, ConcatProperties, LenProperties
  <2> HIDE DEF r
  <2> QED  BY <1>1, <2>1
<1>4. ASSUME NEW i \in 1 .. Len(r)
      PROVE  /\ r[i].effect # "penalty"
             /\ r[i].refuses = {} \/ \A j \in 1 .. i - 1 : r[j].effect = "none"
  <2> HIDE DEF r
  <2>1. CASE i <= Len(q)
    <3>1. i \in 1 .. Len(q) /\ r[i] = q[i] /\ \A j \in 1 .. i - 1 : r[j] = q[j]
      BY <1>3, <2>1
    <3>2. /\ q[i].effect # "penalty"
          /\ q[i].refuses = {} \/ \A j \in 1 .. i - 1 : q[j].effect = "none"
      BY <1>2, <3>1 DEF Safe
    <3> QED  BY <3>1, <3>2
  <2>2. CASE i = Len(q) + 1
    <3>1. r[i] = attempt[1]  BY <1>3, <2>2
    <3> QED  BY <1>1, <3>1
  <2> QED  BY <1>3, <2>1, <2>2
<1>5. Safe(r)  BY <1>4 DEF Safe
<1>6. Writes(r)  BY <1>1, <1>2, WriteOn
<1> QED  BY <1>3, <1>5, <1>6, Kinds

\* A stage on its own, as the last of a handler.
LEMMA StageLast ==
    ASSUME NEW codes, NEW s \in Stages(codes), s.effect # "penalty"
    PROVE  <<s>> \in Refusers(codes) /\ (s.effect = "sure" => <<s>> \in Writers(codes))
<1> DEFINE h == <<s>>
<1>1. h \in Seq(Stages(codes)) /\ Len(h) = 1 /\ h[1] = s  BY StageAlone
<1> HIDE DEF h
<1>2. h \in Refusers(codes)  BY <1>1, Kinds DEF Safe
<1>3. s.effect = "sure" => Writes(h)  BY <1>1 DEF Writes
<1> QED  BY <1>2, <1>3, Kinds DEF h

\* The stages a handler ends with.
LEMMA LastStages ==
    ASSUME NEW codes, Plain \subseteq codes
    PROVE  /\ write \in Writers(codes) /\ start \in Writers(codes)
           /\ change \in Refusers(codes) /\ clear \in Refusers(codes)
           /\ attempt \in Refusers(codes)
<1>1. write \in Writers(codes)
  <2> DEFINE s == [refuses |-> {500000}, needs |-> FALSE, effect |-> "sure"]
  <2>1. s.effect = "sure"  OBVIOUS
  <2>2. s \in Stages(codes) /\ write = <<s>>  BY SMTT(30) DEF Plain, Stages, write, stage
  <2> HIDE DEF s
  <2> QED  BY <2>1, <2>2, StageLast
<1>2. start \in Writers(codes)
  <2> DEFINE s == [refuses |-> {}, needs |-> FALSE, effect |-> "sure"]
  <2>1. s.effect = "sure"  OBVIOUS
  <2>2. s \in Stages(codes) /\ start = <<s>>  BY SMTT(30) DEF Plain, Stages, start, stage
  <2> HIDE DEF s
  <2> QED  BY <2>1, <2>2, StageLast
<1>3. change \in Refusers(codes)
  <2> DEFINE s == [refuses |-> {500000}, needs |-> FALSE, effect |-> "row"]
  <2>1. s.effect = "row"  OBVIOUS
  <2>2. s \in Stages(codes) /\ change = <<s>>  BY SMTT(30) DEF Plain, Stages, change, stage
  <2> HIDE DEF s
  <2> QED  BY <2>1, <2>2, StageLast
<1>4. clear \in Refusers(codes)
  <2> DEFINE s == [refuses |-> {500000}, needs |-> FALSE, effect |-> "maybe"]
  <2>1. s.effect = "maybe"  OBVIOUS
  <2>2. s \in Stages(codes) /\ clear = <<s>>  BY SMTT(30) DEF Plain, Stages, clear, stage
  <2> HIDE DEF s
  <2> QED  BY <2>1, <2>2, StageLast
<1>5. attempt \in Refusers(codes)
  <2> DEFINE s == [refuses |-> {}, needs |-> FALSE, effect |-> "maybe"]
  <2>1. s.effect = "maybe"  OBVIOUS
  <2>2. s \in Stages(codes) /\ attempt = <<s>>  BY SMTT(30) DEF Plain, Stages, attempt, stage
  <2> HIDE DEF s
  <2> QED  BY <2>1, <2>2, StageLast
<1> QED  BY <1>1, <1>2, <1>3, <1>4, <1>5

\* Together: what the parts of a handler say of it.
LEMMA Parts ==
    ASSUME NEW codes, Plain \subseteq codes
    PROVE  /\ <<>> \in Looks(codes)
           /\ Looks(codes) \subseteq Refusers(codes)
           /\ Refusers(codes) \subseteq Seq(Stages(codes))
           /\ Writers(codes) \subseteq Refusers(codes)
           /\ Finds(codes) \subseteq Looks(codes)
           /\ \A p, q \in Looks(codes) : p \o q \in Looks(codes)
           /\ \A p, q \in Looks(codes) :
                 p \in Finds(codes) \/ q \in Finds(codes) => p \o q \in Finds(codes)
           /\ \A p \in Looks(codes), q \in Refusers(codes) : p \o q \in Refusers(codes)
           /\ \A p \in Looks(codes), q \in Writers(codes) : p \o q \in Writers(codes)
           /\ \A p \in Finds(codes) : p \o change \in Writers(codes)
           /\ \A q \in Writers(codes) : q \o attempt \in Writers(codes)
           /\ write \in Writers(codes) /\ start \in Writers(codes)
           /\ change \in Refusers(codes) /\ clear \in Refusers(codes)
           /\ attempt \in Refusers(codes)
<1>1. <<>> \in Looks(codes)  BY DEF Looks
<1>2. ASSUME NEW h \in Looks(codes)  PROVE h \in Refusers(codes)
  <2> DEFINE S == {s \in Stages(codes) : s.effect = "none"}
  <2>1. h \in Seq(S) /\ S \subseteq Stages(codes)  BY DEF Looks
  <2>2. \A s \in S : s.effect = "none"  OBVIOUS
  <2> HIDE DEF S
  <2>3. h \in Seq(Stages(codes)) /\ \A i \in 1 .. Len(h) : h[i].effect = "none"
    BY <2>1, <2>2, SeqMonotonic, ElementOfSeq
  <2>4. Len(h) \in Nat  BY <2>3, LenProperties
  <2>5. ASSUME NEW i \in 1 .. Len(h), NEW j \in 1 .. i - 1  PROVE j \in 1 .. Len(h)
    BY <2>4
  <2> QED  BY <2>3, <2>5, Kinds DEF Safe
<1>3. ASSUME NEW p \in Looks(codes), NEW q \in Writers(codes)
      PROVE  p \o q \in Writers(codes)
  <2>1. p \in Refusers(codes)  BY <1>2
  <2>2. p \o q \in Refusers(codes)  BY LookFirst, Kinds
  <2>3. Writes(p \o q)  BY <2>1, WriteOn, Kinds
  <2> QED  BY <2>2, <2>3, Kinds
<1>4. /\ write \in Writers(codes) /\ start \in Writers(codes)
      /\ change \in Refusers(codes) /\ clear \in Refusers(codes)
      /\ attempt \in Refusers(codes)
  BY LastStages
<1>5. /\ Finds(codes) \subseteq Looks(codes)
      /\ Refusers(codes) \subseteq Seq(Stages(codes))
      /\ Writers(codes) \subseteq Refusers(codes)
  BY Kinds DEF Finds
<1>6. \A p, q \in Looks(codes) :
          /\ p \o q \in Looks(codes)
          /\ p \in Finds(codes) \/ q \in Finds(codes) => p \o q \in Finds(codes)
  BY LookOn, FindOn
<1>7. /\ \A p \in Looks(codes), q \in Refusers(codes) : p \o q \in Refusers(codes)
      /\ \A p \in Finds(codes) : p \o change \in Writers(codes)
      /\ \A q \in Writers(codes) : q \o attempt \in Writers(codes)
  BY LookFirst, FindAndChange, TryLast
<1>8. Looks(codes) \subseteq Refusers(codes)  BY <1>2
<1>9. \A p \in Looks(codes), q \in Writers(codes) : p \o q \in Writers(codes)  BY <1>3
<1> QED  BY <1>1, <1>4, <1>5, <1>6, <1>7, <1>8, <1>9

\* The stages handlers begin with.
LEMMA StageFirst ==
    ASSUME NEW codes, NEW s \in Stages(codes), s.effect = "none"
    PROVE  <<s>> \in Looks(codes) /\ (s.needs => <<s>> \in Finds(codes))
<1> DEFINE h == <<s>>
<1>1. Len(h) = 1 /\ h[1] = s  BY StageAlone
<1>2. h \in Looks(codes)  BY DEF Looks
<1> HIDE DEF h
<1>3. s.needs => \E i \in 1 .. Len(h) : h[i].needs  BY <1>1
<1> QED  BY <1>2, <1>3 DEF h, Finds

\* A check only looks.
LEMMA CheckLooks ==
    ASSUME NEW codes, NEW refuses \in SUBSET codes
    PROVE  check(refuses) \in Looks(codes)
<1> DEFINE s == [refuses |-> refuses, needs |-> FALSE, effect |-> "none"]
<1>1. s.effect = "none"  OBVIOUS
<1>2. s \in Stages(codes) /\ check(refuses) = <<s>>  BY DEF Stages, check, stage
<1> HIDE DEF s
<1> QED  BY <1>1, <1>2, StageFirst

\* The stages that only look or find the row.
LEMMA FirstStages ==
    ASSUME NEW codes, Plain \subseteq codes
    PROVE  /\ \A c \in Plain : rule(c) \in Looks(codes) /\ present(c) \in Looks(codes)
           /\ page \in Looks(codes) /\ query \in Looks(codes) /\ id \in Looks(codes)
           /\ body \in Looks(codes) /\ text \in Looks(codes) /\ rows \in Looks(codes)
           /\ paged \in Looks(codes) /\ statusRequest \in Looks(codes)
           /\ find \in Finds(codes) /\ first \in Finds(codes)
<1>rules. {400000, 400301, 400401, 400501, 404000, 500000} \subseteq codes  BY SMTT(30) DEF Plain
<1>1. \A refuses \in SUBSET codes : check(refuses) \in Looks(codes)  BY CheckLooks
<1>2. \A c \in codes : rule(c) \in Looks(codes) /\ present(c) \in Looks(codes)
  BY ONLY <1>rules, <1>1, SMTT(30) DEF rule, present
<1>3. /\ page \in Looks(codes) /\ query \in Looks(codes) /\ id \in Looks(codes)
      /\ body \in Looks(codes) /\ text \in Looks(codes) /\ rows \in Looks(codes)
  BY ONLY <1>rules, <1>1, SMTT(30) DEF page, query, id, body, text, rows
<1>4. paged \in Looks(codes) /\ statusRequest \in Looks(codes)
  <2>1. rows \o rows \in Looks(codes) /\ body \o rule(400000) \in Looks(codes)
    BY <1>rules, <1>2, <1>3, LookOn, SMTT(30)
  <2> QED  BY ONLY <2>1, SMTT(30) DEF paged, statusRequest
<1>5. find \in Finds(codes)
  <2> DEFINE s == [refuses |-> {404000}, needs |-> TRUE, effect |-> "none"]
  <2>1. s.effect = "none" /\ s.needs  OBVIOUS
  <2>2. s \in Stages(codes) /\ find = <<s>>  BY <1>rules, SMTT(30) DEF Stages, find, stage
  <2> HIDE DEF s
  <2> QED  BY <2>1, <2>2, StageFirst
<1>6. first \in Finds(codes)
  <2> DEFINE s == [refuses |-> {404000, 500000}, needs |-> TRUE, effect |-> "none"]
  <2>1. s.effect = "none" /\ s.needs  OBVIOUS
  <2>2. s \in Stages(codes) /\ first = <<s>>  BY <1>rules, SMTT(30) DEF Stages, first, stage
  <2> HIDE DEF s
  <2> QED  BY <2>1, <2>2, StageFirst
<1> QED  BY <1>2, <1>3, <1>4, <1>5, <1>6, SMTT(30)

-----------------------------------------------------------------------------
(***************************************************************************)
(* The handlers.                                                           *)
(***************************************************************************)

\* The codes of every handler but a few, whatever those add.
Guarding == Plain \cup {403000}
Deleting == Plain \cup {409000}

\* The codes the handlers have in common are plain.
LEMMA Codes ==
    /\ \A more : Plain \subseteq Plain \cup more
    /\ {400000, 400301, 400401, 400501, 404000, 500000} \subseteq Plain
BY SMTT(30) DEF Plain

\* How the parts make up a handler, with L, F, R and W for the four kinds.
Rules(L, F, R, W) ==
    /\ F \subseteq L
    /\ L \subseteq R
    /\ W \subseteq R
    /\ \A c \in Plain : rule(c) \in L /\ present(c) \in L
    /\ page \in L /\ query \in L /\ id \in L /\ body \in L /\ text \in L /\ rows \in L
    /\ paged \in L /\ statusRequest \in L /\ <<>> \in L
    /\ find \in F /\ first \in F
    /\ write \in W /\ start \in W
    /\ change \in R /\ clear \in R /\ attempt \in R
    /\ \A p, q \in L : p \o q \in L
    /\ \A p \in F, q \in L : p \o q \in F
    /\ \A p \in L, q \in F : p \o q \in F
    /\ \A p \in L, q \in R : p \o q \in R
    /\ \A p \in L, q \in W : p \o q \in W
    /\ \A p \in F : p \o change \in W
    /\ \A q \in W : q \o attempt \in W

\* The kinds of handlers obey the rules.
LEMMA KnownRules ==
    ASSUME NEW codes, Plain \subseteq codes
    PROVE  Rules(Looks(codes), Finds(codes), Refusers(codes), Writers(codes))
<1>1. /\ \A p \in Finds(codes), q \in Looks(codes) : p \o q \in Finds(codes)
      /\ \A p \in Looks(codes), q \in Finds(codes) : p \o q \in Finds(codes)
  BY Parts
<1>2. \A c \in Plain : rule(c) \in Looks(codes) /\ present(c) \in Looks(codes)
  BY FirstStages, Zenon
<1> QED  BY <1>1, <1>2, Parts, FirstStages, Zenon DEF Rules

\* Those that only look.
LEMMA ReadersLook ==
    /\ Me \in Looks(Plain) /\ Users \in Looks(Plain) /\ User \in Looks(Plain)
    /\ Roles \in Looks(Plain) /\ RoleOptions \in Looks(Plain) /\ Role \in Looks(Plain)
    /\ RoleUsers \in Looks(Plain) /\ RolePermissions \in Looks(Plain)
    /\ Menus \in Looks(Plain) /\ Depts \in Looks(Plain) /\ Dept \in Looks(Plain)
    /\ PublicConfig \in Looks(Plain) /\ Configs \in Looks(Plain)
    /\ DictTypes \in Looks(Plain) /\ DictItems \in Looks(Plain)
    /\ OnlineUsers \in Looks(Plain) /\ OnlineUser \in Looks(Plain)
    /\ LoginLogs \in Looks(Plain) /\ LoginLog \in Looks(Plain)
    /\ OperationLogs \in Looks(Plain) /\ OperationLog \in Looks(Plain)
    /\ Jobs \in Looks(Plain) /\ JobScripts \in Looks(Plain) /\ Job \in Looks(Plain)
    /\ JobLogs \in Looks(Plain) /\ JobRunLogs \in Looks(Plain)
    /\ PrintTemplates \in Looks(Plain) /\ PrintTemplate \in Looks(Plain)
    /\ UploadFile \in Looks(Plain) /\ RefreshDictCache \in Looks(Plain)
<1> DEFINE L == Looks(Plain)
           F == Finds(Plain)
           R == Refusers(Plain)
           W == Writers(Plain)
<1>rules. Rules(L, F, R, W)  BY KnownRules, Codes
<1> HIDE DEF L, F, R, W
<1>1. Me \in L
  <2>1. find \o rows \in F  BY ONLY <1>rules, Codes, SMTT(30) DEF Rules
  <2>2. find \o rows \o rows \in F  BY ONLY <1>rules, Codes, <2>1, SMTT(30) DEF Rules
  <2> QED  BY ONLY <1>rules, Codes, <2>2, SMTT(30) DEF Rules, Me
<1>2. Users \in L
  <2>1. page \o query \in L  BY ONLY <1>rules, Codes, SMTT(30) DEF Rules
  <2>2. page \o query \o paged \in L  BY ONLY <1>rules, Codes, <2>1, SMTT(30) DEF Rules
  <2> QED  BY ONLY <1>rules, Codes, <2>2, SMTT(30) DEF Rules, Users
<1>3. User \in L  BY ONLY <1>rules, Codes, SMTT(30) DEF Rules, User
<1>4. Roles \in L  BY ONLY <1>rules, Codes, SMTT(30) DEF Rules, Roles
<1>5. RoleOptions \in L  BY ONLY <1>rules, Codes, SMTT(30) DEF Rules, RoleOptions
<1>6. Role \in L  BY ONLY <1>rules, Codes, SMTT(30) DEF Rules, Role
<1>7. RoleUsers \in L  BY ONLY <1>rules, Codes, SMTT(30) DEF Rules, RoleUsers
<1>8. RolePermissions \in L  BY ONLY <1>rules, Codes, SMTT(30) DEF Rules, RolePermissions
<1>9. Menus \in L  BY ONLY <1>rules, Codes, SMTT(30) DEF Rules, Menus
<1>10. Depts \in L  BY ONLY <1>rules, Codes, SMTT(30) DEF Rules, Depts
<1>11. Dept \in L  BY ONLY <1>rules, Codes, SMTT(30) DEF Rules, Dept
<1>12. PublicConfig \in L  BY ONLY <1>rules, Codes, SMTT(30) DEF Rules, PublicConfig
<1>13. Configs \in L  BY ONLY <1>rules, Codes, SMTT(30) DEF Rules, Configs
<1>14. DictTypes \in L  BY ONLY <1>rules, Codes, SMTT(30) DEF Rules, DictTypes
<1>15. DictItems \in L  BY ONLY <1>rules, Codes, SMTT(30) DEF Rules, DictItems
<1>16. OnlineUsers \in L  BY ONLY <1>rules, Codes, SMTT(30) DEF Rules, OnlineUsers
<1>17. OnlineUser \in L  BY ONLY <1>rules, Codes, SMTT(30) DEF Rules, OnlineUser
<1>18. LoginLogs \in L  BY ONLY <1>rules, Codes, SMTT(30) DEF Rules, LoginLogs
<1>19. LoginLog \in L  BY ONLY <1>rules, Codes, SMTT(30) DEF Rules, LoginLog
<1>20. OperationLogs \in L  BY ONLY <1>rules, Codes, SMTT(30) DEF Rules, OperationLogs
<1>21. OperationLog \in L  BY ONLY <1>rules, Codes, SMTT(30) DEF Rules, OperationLog
<1>22. Jobs \in L  BY ONLY <1>rules, Codes, SMTT(30) DEF Rules, Jobs
<1>23. JobScripts \in L  BY ONLY <1>rules, Codes, SMTT(30) DEF Rules, JobScripts
<1>24. Job \in L  BY ONLY <1>rules, Codes, SMTT(30) DEF Rules, Job
<1>25. JobLogs \in L  BY ONLY <1>rules, Codes, SMTT(30) DEF Rules, JobLogs, jobRunLogPage
<1>26. JobRunLogs \in L  BY ONLY <1>rules, Codes, SMTT(30) DEF Rules, JobRunLogs, jobRunLogPage
<1>27. PrintTemplates \in L  BY ONLY <1>rules, Codes, SMTT(30) DEF Rules, PrintTemplates
<1>28. PrintTemplate \in L  BY ONLY <1>rules, Codes, SMTT(30) DEF Rules, PrintTemplate
<1>29. UploadFile \in L  BY ONLY <1>rules, Codes, SMTT(30) DEF Rules, UploadFile
<1>30. RefreshDictCache \in L  BY ONLY <1>rules, Codes, SMTT(30) DEF Rules, RefreshDictCache
<1> QED
  BY <1>1, <1>2, <1>3, <1>4, <1>5, <1>6, <1>7, <1>8, <1>9, <1>10, <1>11, <1>12, <1>13,
     <1>14, <1>15, <1>16, <1>17, <1>18, <1>19, <1>20, <1>21, <1>22, <1>23, <1>24,
     <1>25, <1>26, <1>27, <1>28, <1>29, <1>30, Zenon DEF L

\* Those that write.
LEMMA WritersWrite ==
    /\ Password \in Writers(Plain) /\ Profile \in Writers(Plain)
    /\ CreateUser \in Writers(Plain) /\ UpdateUser \in Writers(Plain)
    /\ CreateRole \in Writers(Plain) /\ AssignRoleMenus \in Writers(Plain)
    /\ CreateMenu \in Writers(Plain)
    /\ CreateDept \in Writers(Plain) /\ CreateConfig \in Writers(Plain)
    /\ UpdateConfig \in Writers(Plain) /\ DeleteConfig \in Writers(Plain)
    /\ ConfigStatus \in Writers(Plain) /\ CreateDictType \in Writers(Plain)
    /\ DeleteDictType \in Writers(Plain) /\ DeleteDictItem \in Writers(Plain)
    /\ CreateJob \in Writers(Plain) /\ RunJob \in Writers(Plain)
    /\ CreatePrintTemplate \in Writers(Plain) /\ CopyPrintTemplate \in Writers(Plain)
<1> DEFINE L == Looks(Plain)
           F == Finds(Plain)
           R == Refusers(Plain)
           W == Writers(Plain)
<1>rules. Rules(L, F, R, W)  BY KnownRules, Codes
<1> HIDE DEF L, F, R, W
<1>1. Password \in W
  <2>1. body \o text \in L  BY ONLY <1>rules, Codes, SMTT(30) DEF Rules
  <2>2. body \o text \o find \in F  BY ONLY <1>rules, Codes, <2>1, SMTT(30) DEF Rules
  <2>3. body \o text \o find \o rule(400000) \in F
    BY ONLY <1>rules, Codes, <2>2, SMTT(30) DEF Rules
  <2> QED  BY ONLY <1>rules, Codes, <2>3, SMTT(30) DEF Rules, Password
<1>2. Profile \in W
  <2>1. body \o text \in L  BY ONLY <1>rules, Codes, SMTT(30) DEF Rules
  <2>2. body \o text \o write \in W  BY ONLY <1>rules, Codes, <2>1, SMTT(30) DEF Rules
  <2> QED  BY ONLY <1>rules, Codes, <2>2, SMTT(30) DEF Rules, Profile
<1>3. CreateUser \in W
  <2>1. saveUser \in L  BY ONLY <1>rules, Codes, SMTT(30) DEF Rules, saveUser
  <2>2. body \o saveUser \in L  BY ONLY <1>rules, Codes, <2>1, SMTT(30) DEF Rules
  <2> QED  BY ONLY <1>rules, Codes, <2>1, <2>2, SMTT(30) DEF Rules, CreateUser
<1>4. UpdateUser \in W
  <2>1. saveUser \in L  BY ONLY <1>rules, Codes, SMTT(30) DEF Rules, saveUser
  <2>2. id \o body \in L  BY ONLY <1>rules, Codes, <2>1, SMTT(30) DEF Rules
  <2>3. id \o body \o saveUser \in L  BY ONLY <1>rules, Codes, <2>1, <2>2, SMTT(30) DEF Rules
  <2>4. id \o body \o saveUser \o find \in F
    BY ONLY <1>rules, Codes, <2>1, <2>3, SMTT(30) DEF Rules
  <2> QED  BY ONLY <1>rules, Codes, <2>1, <2>4, SMTT(30) DEF Rules, UpdateUser
<1>5. CreateRole \in W  BY ONLY <1>rules, Codes, SMTT(30) DEF Rules, CreateRole, saveRole
<1>6. AssignRoleMenus \in W
  <2>1. assignRoleMenuIDs \in W  BY ONLY <1>rules, Codes, SMTT(30) DEF Rules, assignRoleMenuIDs
  <2>2. id \o body \in L  BY ONLY <1>rules, Codes, <2>1, SMTT(30) DEF Rules
  <2> QED  BY ONLY <1>rules, Codes, <2>1, <2>2, SMTT(30) DEF Rules, AssignRoleMenus
<1>7. CreateMenu \in W
  <2>1. saveMenu \in L  BY ONLY <1>rules, Codes, SMTT(30) DEF Rules, saveMenu
  <2>2. body \o saveMenu \in L  BY ONLY <1>rules, Codes, <2>1, SMTT(30) DEF Rules
  <2> QED  BY ONLY <1>rules, Codes, <2>1, <2>2, SMTT(30) DEF Rules, CreateMenu
<1>8. CreateDept \in W
  <2>1. saveDept \in L  BY ONLY <1>rules, Codes, SMTT(30) DEF Rules, saveDept
  <2>2. body \o text \in L  BY ONLY <1>rules, Codes, <2>1, SMTT(30) DEF Rules
  <2>3. body \o text \o saveDept \in L  BY ONLY <1>rules, Codes, <2>1, <2>2, SMTT(30) DEF Rules
  <2> QED  BY ONLY <1>rules, Codes, <2>1, <2>3, SMTT(30) DEF Rules, CreateDept
<1>9. CreateConfig \in W  BY ONLY <1>rules, Codes, SMTT(30) DEF Rules, CreateConfig, saveConfig
<1>10. UpdateConfig \in W
  <2>1. id \o body \in L  BY ONLY <1>rules, Codes, SMTT(30) DEF Rules
  <2>2. id \o body \o saveConfig \in L
    BY ONLY <1>rules, Codes, <2>1, SMTT(30) DEF Rules, saveConfig
  <2>3. id \o body \o saveConfig \o find \in F  BY ONLY <1>rules, Codes, <2>2, SMTT(30) DEF Rules
  <2> QED  BY ONLY <1>rules, Codes, <2>3, SMTT(30) DEF Rules, UpdateConfig
<1>11. DeleteConfig \in W
  <2>1. id \o find \in F  BY ONLY <1>rules, Codes, SMTT(30) DEF Rules
  <2>2. id \o find \o rule(400000) \in F  BY ONLY <1>rules, Codes, <2>1, SMTT(30) DEF Rules
  <2> QED  BY ONLY <1>rules, Codes, <2>2, SMTT(30) DEF Rules, DeleteConfig
<1>12. ConfigStatus \in W
  <2>1. id \o statusRequest \in L  BY ONLY <1>rules, Codes, SMTT(30) DEF Rules
  <2>2. id \o statusRequest \o find \in F  BY ONLY <1>rules, Codes, <2>1, SMTT(30) DEF Rules
  <2>3. id \o statusRequest \o find \o rule(400000) \in F
    BY ONLY <1>rules, Codes, <2>2, SMTT(30) DEF Rules
  <2> QED  BY ONLY <1>rules, Codes, <2>3, SMTT(30) DEF Rules, ConfigStatus
<1>13. CreateDictType \in W  BY ONLY <1>rules, Codes, SMTT(30) DEF Rules, CreateDictType
<1>14. DeleteDictType \in W
  <2>1. id \o find \in F  BY ONLY <1>rules, Codes, SMTT(30) DEF Rules
  <2>2. id \o find \o rule(400501) \in F  BY ONLY <1>rules, Codes, <2>1, SMTT(30) DEF Rules
  <2>3. id \o find \o rule(400501) \o present(400501) \in F
    BY ONLY <1>rules, Codes, <2>2, SMTT(30) DEF Rules
  <2> QED  BY ONLY <1>rules, Codes, <2>3, SMTT(30) DEF Rules, DeleteDictType
<1>15. DeleteDictItem \in W
  <2>1. id \o find \in F  BY ONLY <1>rules, Codes, SMTT(30) DEF Rules
  <2>2. id \o find \o rule(400501) \in F  BY ONLY <1>rules, Codes, <2>1, SMTT(30) DEF Rules
  <2> QED  BY ONLY <1>rules, Codes, <2>2, SMTT(30) DEF Rules, DeleteDictItem
<1>16. CreateJob \in W  BY ONLY <1>rules, Codes, SMTT(30) DEF Rules, CreateJob, saveJob
<1>17. RunJob \in W  BY ONLY <1>rules, Codes, SMTT(30) DEF Rules, RunJob
<1>18. CreatePrintTemplate \in W
  <2>1. savePrintTemplate \in L  BY ONLY <1>rules, Codes, SMTT(30) DEF Rules, savePrintTemplate
  <2>2. body \o savePrintTemplate \in L  BY ONLY <1>rules, Codes, <2>1, SMTT(30) DEF Rules
  <2> QED  BY ONLY <1>rules, Codes, <2>1, <2>2, SMTT(30) DEF Rules, CreatePrintTemplate
<1>19. CopyPrintTemplate \in W
  <2>1. id \o body \in L  BY ONLY <1>rules, Codes, SMTT(30) DEF Rules
  <2>2. id \o body \o present(400000) \in L  BY ONLY <1>rules, Codes, <2>1, SMTT(30) DEF Rules
  <2>3. id \o body \o present(400000) \o find \in F
    BY ONLY <1>rules, Codes, <2>2, SMTT(30) DEF Rules
  <2> QED  BY ONLY <1>rules, Codes, <2>3, SMTT(30) DEF Rules, CopyPrintTemplate
<1> QED
  BY <1>1, <1>2, <1>3, <1>4, <1>5, <1>6, <1>7, <1>8, <1>9, <1>10, <1>11, <1>12,
     <1>13, <1>14, <1>15, <1>16, <1>17, <1>18, <1>19, Zenon DEF W

\* Those that may meet no row.
LEMMA RefusersRefuse ==
    /\ Logout \in Refusers(Plain) /\ UpdateRole \in Refusers(Plain)
    /\ RoleStatus \in Refusers(Plain) /\ UpdateMenu \in Refusers(Plain)
    /\ DeleteMenu \in Refusers(Plain) /\ MenuStatus \in Refusers(Plain)
    /\ UpdateDept \in Refusers(Plain) /\ DeleteDept \in Refusers(Plain)
    /\ DeptStatus \in Refusers(Plain) /\ UpdateDictType \in Refusers(Plain)
    /\ DictItemStatus \in Refusers(Plain) /\ UpdateJob \in Refusers(Plain)
    /\ DeleteJob \in Refusers(Plain) /\ JobStatus \in Refusers(Plain)
    /\ KickoutOnlineUser \in Refusers(Plain) /\ UnlockUser \in Refusers(Plain)
    /\ UpdatePrintTemplate \in Refusers(Plain)
    /\ DeletePrintTemplate \in Refusers(Plain)
    /\ PrintTemplateStatus \in Refusers(Plain)
<1> DEFINE L == Looks(Plain)
           F == Finds(Plain)
           R == Refusers(Plain)
           W == Writers(Plain)
<1>rules. Rules(L, F, R, W)  BY KnownRules, Codes
<1> HIDE DEF L, F, R, W
<1>1. Logout \in R  BY ONLY <1>rules, Codes, SMTT(30) DEF Rules, Logout
<1>2. UpdateRole \in R
  <2>1. id \o body \in L  BY ONLY <1>rules, Codes, SMTT(30) DEF Rules
  <2>2. id \o body \o saveRole \in L  BY ONLY <1>rules, Codes, <2>1, SMTT(30) DEF Rules, saveRole
  <2> QED  BY ONLY <1>rules, Codes, <2>2, SMTT(30) DEF Rules, UpdateRole
<1>3. RoleStatus \in R  BY ONLY <1>rules, Codes, SMTT(30) DEF Rules, RoleStatus
<1>4. UpdateMenu \in R
  <2>1. saveMenu \in L  BY ONLY <1>rules, Codes, SMTT(30) DEF Rules, saveMenu
  <2>2. id \o body \in L  BY ONLY <1>rules, Codes, <2>1, SMTT(30) DEF Rules
  <2>3. id \o body \o saveMenu \in L  BY ONLY <1>rules, Codes, <2>1, <2>2, SMTT(30) DEF Rules
  <2>4. id \o body \o saveMenu \o rule(400000) \in L
    BY ONLY <1>rules, Codes, <2>1, <2>3, SMTT(30) DEF Rules
  <2> QED  BY ONLY <1>rules, Codes, <2>1, <2>4, SMTT(30) DEF Rules, UpdateMenu
<1>5. DeleteMenu \in R  BY ONLY <1>rules, Codes, SMTT(30) DEF Rules, DeleteMenu
<1>6. MenuStatus \in R  BY ONLY <1>rules, Codes, SMTT(30) DEF Rules, MenuStatus
<1>7. UpdateDept \in R
  <2>1. saveDept \in L  BY ONLY <1>rules, Codes, SMTT(30) DEF Rules, saveDept
  <2>2. id \o body \in L  BY ONLY <1>rules, Codes, <2>1, SMTT(30) DEF Rules
  <2>3. id \o body \o text \in L  BY ONLY <1>rules, Codes, <2>1, <2>2, SMTT(30) DEF Rules
  <2>4. id \o body \o text \o rule(400000) \in L
    BY ONLY <1>rules, Codes, <2>1, <2>3, SMTT(30) DEF Rules
  <2>5. id \o body \o text \o rule(400000) \o saveDept \in L
    BY ONLY <1>rules, Codes, <2>1, <2>4, SMTT(30) DEF Rules
  <2> QED  BY ONLY <1>rules, Codes, <2>1, <2>5, SMTT(30) DEF Rules, UpdateDept
<1>8. DeleteDept \in R
  <2>1. id \o present(400401) \in L  BY ONLY <1>rules, Codes, SMTT(30) DEF Rules
  <2>2. id \o present(400401) \o present(400401) \in L
    BY ONLY <1>rules, Codes, <2>1, SMTT(30) DEF Rules
  <2> QED  BY ONLY <1>rules, Codes, <2>2, SMTT(30) DEF Rules, DeleteDept
<1>9. DeptStatus \in R  BY ONLY <1>rules, Codes, SMTT(30) DEF Rules, DeptStatus
<1>10. UpdateDictType \in R  BY ONLY <1>rules, Codes, SMTT(30) DEF Rules, UpdateDictType
<1>11. DictItemStatus \in R  BY ONLY <1>rules, Codes, SMTT(30) DEF Rules, DictItemStatus
<1>12. UpdateJob \in R
  <2>1. id \o body \in L  BY ONLY <1>rules, Codes, SMTT(30) DEF Rules
  <2>2. id \o body \o saveJob \in L  BY ONLY <1>rules, Codes, <2>1, SMTT(30) DEF Rules, saveJob
  <2> QED  BY ONLY <1>rules, Codes, <2>2, SMTT(30) DEF Rules, UpdateJob
<1>13. DeleteJob \in R  BY ONLY <1>rules, Codes, SMTT(30) DEF Rules, DeleteJob
<1>14. JobStatus \in R  BY ONLY <1>rules, Codes, SMTT(30) DEF Rules, JobStatus
<1>15. KickoutOnlineUser \in R  BY ONLY <1>rules, Codes, SMTT(30) DEF Rules, KickoutOnlineUser
<1>16. UpdatePrintTemplate \in R
  <2>1. savePrintTemplate \in L  BY ONLY <1>rules, Codes, SMTT(30) DEF Rules, savePrintTemplate
  <2>2. id \o body \in L  BY ONLY <1>rules, Codes, <2>1, SMTT(30) DEF Rules
  <2>3. id \o body \o savePrintTemplate \in L
    BY ONLY <1>rules, Codes, <2>1, <2>2, SMTT(30) DEF Rules
  <2> QED  BY ONLY <1>rules, Codes, <2>1, <2>3, SMTT(30) DEF Rules, UpdatePrintTemplate
<1>17. DeletePrintTemplate \in R
  BY ONLY <1>rules, Codes, SMTT(30) DEF Rules, DeletePrintTemplate
<1>18. PrintTemplateStatus \in R
  BY ONLY <1>rules, Codes, SMTT(30) DEF Rules, PrintTemplateStatus
<1>19. UnlockUser \in R  BY ONLY <1>rules, Codes, SMTT(30) DEF Rules, UnlockUser
<1> QED
  BY <1>1, <1>2, <1>3, <1>4, <1>5, <1>6, <1>7, <1>8, <1>9, <1>10, <1>11, <1>12, <1>13,
     <1>14, <1>15, <1>16, <1>17, <1>18, <1>19, Zenon DEF R

\* Those that ask whose account it is.
LEMMA GuardedRefuse ==
    /\ UserStatus \in Refusers(Guarding) /\ ResetPassword \in Refusers(Guarding)
<1> DEFINE L == Looks(Guarding)
           F == Finds(Guarding)
           R == Refusers(Guarding)
           W == Writers(Guarding)
<1>rules. Rules(L, F, R, W)  BY KnownRules, Codes DEF Guarding
<1>more. guard \in L
  <2>1. {403000, 500000} \in SUBSET Guarding  BY SMTT(30) DEF Guarding, Plain
  <2> QED  BY <2>1, CheckLooks, SMTT(30) DEF guard
<1> HIDE DEF L, F, R, W
<1>1. UserStatus \in R
  <2>1. id \o statusRequest \in L  BY ONLY <1>rules, <1>more, Codes, SMTT(30) DEF Rules
  <2>2. id \o statusRequest \o rule(400000) \in L
    BY ONLY <1>rules, <1>more, Codes, <2>1, SMTT(30) DEF Rules
  <2>3. id \o statusRequest \o rule(400000) \o guard \in L
    BY ONLY <1>rules, <1>more, Codes, <2>2, SMTT(30) DEF Rules
  <2> QED  BY ONLY <1>rules, <1>more, Codes, <2>3, SMTT(30) DEF Rules, UserStatus
<1>2. ResetPassword \in R
  <2>1. id \o body \in L  BY ONLY <1>rules, <1>more, Codes, SMTT(30) DEF Rules
  <2>2. id \o body \o rule(400000) \in L
    BY ONLY <1>rules, <1>more, Codes, <2>1, SMTT(30) DEF Rules
  <2>3. id \o body \o rule(400000) \o guard \in L
    BY ONLY <1>rules, <1>more, Codes, <2>2, SMTT(30) DEF Rules
  <2> QED  BY ONLY <1>rules, <1>more, Codes, <2>3, SMTT(30) DEF Rules, ResetPassword
<1> QED  BY <1>1, <1>2, Zenon DEF R

\* Those that write, behind the guard of the super administrator.
LEMMA GuardedWrite ==
    /\ DeleteUser \in Writers(Guarding) /\ UserRoles \in Writers(Guarding)
<1> DEFINE L == Looks(Guarding)
           F == Finds(Guarding)
           R == Refusers(Guarding)
           W == Writers(Guarding)
<1>rules. Rules(L, F, R, W)  BY KnownRules, Codes DEF Guarding
<1>more. guard \in L
  <2>1. {403000, 500000} \in SUBSET Guarding  BY SMTT(30) DEF Guarding, Plain
  <2> QED  BY <2>1, CheckLooks, SMTT(30) DEF guard
<1> HIDE DEF L, F, R, W
<1>1. DeleteUser \in W
  <2>1. id \o rule(400000) \in L  BY ONLY <1>rules, <1>more, Codes, SMTT(30) DEF Rules
  <2>2. id \o rule(400000) \o guard \in L
    BY ONLY <1>rules, <1>more, Codes, <2>1, SMTT(30) DEF Rules
  <2>3. id \o rule(400000) \o guard \o find \in F
    BY ONLY <1>rules, <1>more, Codes, <2>2, SMTT(30) DEF Rules
  <2> QED  BY ONLY <1>rules, <1>more, Codes, <2>3, SMTT(30) DEF Rules, DeleteUser
<1>2. UserRoles \in W
  <2>1. assignUserRoles \in W
    BY ONLY <1>rules, <1>more, Codes, SMTT(30) DEF Rules, assignUserRoles
  <2>2. id \o body \in L  BY ONLY <1>rules, <1>more, Codes, <2>1, SMTT(30) DEF Rules
  <2>3. id \o body \o guard \in L
    BY ONLY <1>rules, <1>more, Codes, <2>1, <2>2, SMTT(30) DEF Rules
  <2> QED  BY ONLY <1>rules, <1>more, Codes, <2>1, <2>3, SMTT(30) DEF Rules, UserRoles
<1> QED  BY <1>1, <1>2, Zenon DEF W

\* The one that has conflicts.
LEMMA DeleteRoleWrites ==
    /\ DeleteRole \in Writers(Deleting)
<1> DEFINE L == Looks(Deleting)
           F == Finds(Deleting)
           R == Refusers(Deleting)
           W == Writers(Deleting)
<1>rules. Rules(L, F, R, W)  BY KnownRules, Codes DEF Deleting
<1>more. present(409000) \in L
  <2>1. {409000, 500000} \in SUBSET Deleting  BY SMTT(30) DEF Deleting, Plain
  <2> QED  BY <2>1, CheckLooks, SMTT(30) DEF present
<1> HIDE DEF L, F, R, W
<1>1. DeleteRole \in W
  <2>1. id \o find \in F  BY ONLY <1>rules, <1>more, Codes, SMTT(30) DEF Rules
  <2>2. id \o find \o rule(400000) \in F
    BY ONLY <1>rules, <1>more, Codes, <2>1, SMTT(30) DEF Rules
  <2>3. id \o find \o rule(400000) \o present(409000) \in F
    BY ONLY <1>rules, <1>more, Codes, <2>2, SMTT(30) DEF Rules
  <2> QED  BY ONLY <1>rules, <1>more, Codes, <2>3, SMTT(30) DEF Rules, DeleteRole
<1> QED  BY <1>1, Zenon DEF W

\* Those that refuse after they have changed something.
LEMMA OthersWrite ==
    /\ Login \in Seq(Stages(Nat)) /\ Writes(Login)
    /\ CreateDictItem \in Seq(Stages(Plain)) /\ Writes(CreateDictItem)
    /\ UpdateDictItem \in Seq(Stages(Plain))
<1>1. ASSUME NEW codes
      PROVE  /\ \A p, q \in Seq(Stages(codes)) : p \o q \in Seq(Stages(codes))
             /\ \A p, q \in Seq(Stages(codes)) : Writes(p) \/ Writes(q) => Writes(p \o q)
  BY WriteOn
<1>2. ASSUME NEW codes, Plain \subseteq codes
      PROVE  /\ body \in Seq(Stages(codes)) /\ text \in Seq(Stages(codes))
             /\ id \in Seq(Stages(codes))
             /\ write \in Seq(Stages(codes)) /\ Writes(write)
             /\ change \in Seq(Stages(codes)) /\ clear \in Seq(Stages(codes))
             /\ attempt \in Seq(Stages(codes))
  BY <1>2, KnownRules, Kinds, Parts DEF Rules
<1>3. ASSUME NEW codes, NEW refuses \in SUBSET codes
      PROVE  check(refuses) \in Seq(Stages(codes))
  <2> DEFINE s == [refuses |-> refuses, needs |-> FALSE, effect |-> "none"]
  <2>1. s \in Stages(codes) /\ check(refuses) = <<s>>  BY DEF Stages, check, stage
  <2> HIDE DEF s
  <2> QED  BY <2>1, StageAlone
<1>4. Login \in Seq(Stages(Nat)) /\ Writes(Login)
  <2> DEFINE S == Seq(Stages(Nat))
             penalty == stage({401000, 500000}, FALSE, "penalty")
  <2>1. Plain \subseteq Nat  BY DEF Plain
  <2>2. present(401000) \in S /\ rule(401000) \in S
    <3>1. {401000, 500000} \in SUBSET Nat /\ {401000} \in SUBSET Nat  BY SMTT(30)
    <3> QED  BY <1>3, <3>1, SMTT(30) DEF present, rule
  <2>3. penalty \in S
    <3> DEFINE s == [refuses |-> {401000, 500000}, needs |-> FALSE, effect |-> "penalty"]
    <3>1. s \in Stages(Nat) /\ penalty = <<s>>  BY SMTT(30) DEF Stages, stage
    <3> HIDE DEF s, penalty
    <3> QED  BY <3>1
  <2>4. /\ body \in S /\ text \in S /\ write \in S /\ attempt \in S /\ Writes(write)
    BY <1>2, <2>1
  <2> HIDE DEF S, penalty
  <2>5. \A p, q \in S : p \o q \in S /\ (Writes(p) \/ Writes(q) => Writes(p \o q))
    BY <1>1 DEF S
  <2>6. body \o text \o present(401000) \in S  BY ONLY <2>2, <2>4, <2>5, SMTT(30)
  <2>7. body \o text \o present(401000) \o rule(401000) \o present(401000) \in S
    BY ONLY <2>2, <2>5, <2>6, SMTT(30)
  <2>8. body \o text \o present(401000) \o rule(401000) \o present(401000) \o penalty \in S
    BY ONLY <2>3, <2>5, <2>7, SMTT(30)
  <2>9. body \o text \o present(401000) \o rule(401000) \o present(401000) \o penalty
            \o attempt \o attempt \in S
    <3> DEFINE p == body \o text \o present(401000) \o rule(401000) \o present(401000)
                    \o penalty
    <3>1. p \in S  BY <2>8
    <3> HIDE DEF p
    <3>2. p \o attempt \in S  BY ONLY <2>4, <2>5, <3>1, SMTT(30)
    <3>3. p \o attempt \o attempt \in S  BY ONLY <2>4, <2>5, <3>2, SMTT(30)
    <3> QED  BY <3>3 DEF p
  <2>10. ASSUME NEW p \in S  PROVE p \o write \in S /\ Writes(p \o write)
    BY <2>4, WriteOn DEF S
  <2>11. Login \in S /\ Writes(Login)
    <3> DEFINE p == body \o text \o present(401000) \o rule(401000) \o present(401000)
                    \o penalty
                    \o attempt \o attempt
    <3>1. p \in S  BY <2>9
    <3>2. Login = p \o write \o attempt  BY SMTT(30) DEF Login, penalty
    <3> HIDE DEF p
    <3>3. p \o write \in S /\ Writes(p \o write)  BY <2>10, <3>1
    <3>4. p \o write \o attempt \in S /\ Writes(p \o write \o attempt)
      BY ONLY <2>4, <2>5, <3>3, SMTT(30)
    <3> QED  BY <3>2, <3>4
  <2> QED  BY <2>11 DEF S
<1>5. /\ CreateDictItem \in Seq(Stages(Plain)) /\ Writes(CreateDictItem)
      /\ UpdateDictItem \in Seq(Stages(Plain))
  <2> DEFINE S == Seq(Stages(Plain))
  <2>1. present(404000) \in S
    <3>1. {404000, 500000} \in SUBSET Plain  BY SMTT(30) DEF Plain
    <3> QED  BY <1>3, <3>1, SMTT(30) DEF present
  <2>2. /\ body \in S /\ text \in S /\ id \in S /\ write \in S /\ change \in S
        /\ clear \in S /\ Writes(write)
    BY <1>2
  <2> HIDE DEF S
  <2>3. \A p, q \in S : p \o q \in S /\ (Writes(p) \/ Writes(q) => Writes(p \o q))
    BY <1>1 DEF S
  <2>4. saveDictItem \in S  BY ONLY <2>1, <2>2, <2>3, SMTT(30) DEF saveDictItem
  <2>5. body \o saveDictItem \in S /\ id \o body \o saveDictItem \in S
    BY ONLY <2>2, <2>3, <2>4, SMTT(30)
  <2>6. CreateDictItem \in S /\ Writes(CreateDictItem) /\ UpdateDictItem \in S
    BY ONLY <2>2, <2>3, <2>5, SMTT(30) DEF CreateDictItem, UpdateDictItem
  <2> QED  BY <2>6 DEF S
<1> QED  BY <1>4, <1>5

-----------------------------------------------------------------------------
(***************************************************************************)
(* The routes.  Each is one of a few kinds of handler; what Api and the    *)
(* document list for its operation has to fit the kind.                    *)
(***************************************************************************)

\* A refusal of the operation may have changed something.
RefusesLate(method, path) ==
    <<method, path>> \in {login, <<"post", "/system/dict/item">>,
                          <<"put", "/system/dict/item/:id">>}

\* The operation may answer 200 and have changed nothing.
MayMiss(method, path) == <<method, path>> \in Unchecked

\* The operation leaves a row of the operation log, or is known not to.
LogKnows(method, path) ==
    <<method, path>> \in {<<"put", "/system/password">>, <<"post", "/system/logout">>,
                          <<"post", "/system/dict/cache/refresh">>}
                         \cup operationLogDefinitions

Fits(chain, method, path, handler) ==
    /\ handler \in Seq(Stages(Nat))
    /\ RefusesLate(method, path) \/ Safe(handler)
    /\ method = "get" \/ MayMiss(method, path) \/ Writes(handler)
    /\ \/ chain = "open" \/ method = "get"
       \/ LogKnows(method, path)
    /\ \/ <<method, path>> = login
       \/ \A i \in 1 .. Len(handler) : \A code \in handler[i].refuses :
             HTTPStatus(code) \in {401, 403, 409} =>
                 HTTPStatus(code) \in Documented(method, path)
    /\ chain # "open" => 401 \in Documented(method, path)
    /\ chain = "guarded" => 403 \in Documented(method, path)

Sound(r) ==
    /\ Fits(r.chain, r.method, r.path, r.handler)
    /\ r.ok \in {200, 204, 302}
    /\ r.chain \in {"open", "own", "guarded"}

\* The statuses of codes.
LEMMA StatusOf ==
    /\ \A code \in Nat : HTTPStatus(code) \in {400, 401, 403, 404, 409, 500}
    /\ \A code \in Plain : HTTPStatus(code) \in {400, 404, 500}
    /\ \A code \in Guarding : HTTPStatus(code) \in {400, 403, 404, 500}
    /\ \A code \in Deleting : HTTPStatus(code) \in {400, 404, 409, 500}
<1>1. /\ 401000 \div 1000 = 401 /\ 403000 \div 1000 = 403
      /\ 404000 \div 1000 = 404 /\ 409000 \div 1000 = 409
  BY SMTT(30)
<1>2. ASSUME NEW code \in Nat
      PROVE  /\ code = 401000 => HTTPStatus(code) = 401
             /\ code = 403000 => HTTPStatus(code) = 403
             /\ code = 404000 => HTTPStatus(code) = 404
             /\ code = 409000 => HTTPStatus(code) = 409
             /\ code \notin {401000, 403000, 404000, 409000} => HTTPStatus(code) \in {400, 500}
  BY <1>1, SMTT(30) DEF HTTPStatus
<1> QED  BY <1>2, SMTT(30) DEF Plain, Guarding, Deleting

\* What the document answers to a method of a path.
LEMMA AnswersOfPath ==
    ASSUME NEW path, NEW answers, Path(path, answers) \subseteq Contract,
           NEW method \in DOMAIN answers
    PROVE  answers[method] \subseteq Documented(method, path)
<1> DEFINE o == [method |-> method, path |-> path, answers |-> answers[method]]
<1>1. o \in Contract /\ o.method = method /\ o.path = path /\ o.answers = answers[method]
  BY DEF Path
<1> HIDE DEF o
<1> QED  BY <1>1 DEF Documented

\* The document has every path.
LEMMA PathsOfContract ==
    /\ RootPath \subseteq Contract /\ FaviconIcoPath \subseteq Contract
    /\ HealthPath \subseteq Contract /\ SwaggerUiHtmlPath \subseteq Contract
    /\ ConfigPath \subseteq Contract /\ ConfigIdPath \subseteq Contract
    /\ ConfigIdStatusPath \subseteq Contract /\ DeptPath \subseteq Contract
    /\ DeptIdPath \subseteq Contract /\ DeptIdStatusPath \subseteq Contract
    /\ DictCacheRefreshPath \subseteq Contract /\ DictItemPath \subseteq Contract
    /\ DictItemIdPath \subseteq Contract /\ DictItemIdStatusPath \subseteq Contract
    /\ DictTypePath \subseteq Contract /\ DictTypeIdPath \subseteq Contract
    /\ DictTypeIdItemPath \subseteq Contract /\ FilesPath \subseteq Contract
    /\ JobPath \subseteq Contract /\ JobScriptsPath \subseteq Contract
    /\ JobIdPath \subseteq Contract /\ JobIdRunPath \subseteq Contract
    /\ JobIdRunLogPath \subseteq Contract /\ JobIdStatusPath \subseteq Contract
    /\ JobRunLogPath \subseteq Contract /\ LoginPath \subseteq Contract
    /\ LoginLogPath \subseteq Contract /\ LoginLogIdPath \subseteq Contract
    /\ LogoutPath \subseteq Contract /\ MePath \subseteq Contract
    /\ MenuPath \subseteq Contract /\ MenuIdPath \subseteq Contract
    /\ MenuIdStatusPath \subseteq Contract /\ OnlineUserPath \subseteq Contract
    /\ UserPath \subseteq Contract /\ OnlineUserTokenIdPath \subseteq Contract
    /\ OnlineUserTokenIdKickoutPath \subseteq Contract
    /\ OperationLogPath \subseteq Contract /\ OperationLogIdPath \subseteq Contract
    /\ PasswordPath \subseteq Contract /\ PrintTemplatePath \subseteq Contract
    /\ PrintTemplateIdPath \subseteq Contract
    /\ PrintTemplateIdCopyPath \subseteq Contract
    /\ PrintTemplateIdStatusPath \subseteq Contract /\ ProfilePath \subseteq Contract
    /\ PublicConfigPath \subseteq Contract /\ RolePath \subseteq Contract
    /\ RoleOptionPath \subseteq Contract /\ RoleIdPath \subseteq Contract
    /\ RoleIdPermissionPath \subseteq Contract /\ RoleIdStatusPath \subseteq Contract
    /\ RoleIdUserPath \subseteq Contract /\ UserIdPath \subseteq Contract
    /\ UserIdResetPasswordPath \subseteq Contract /\ UserIdRolePath \subseteq Contract
    /\ UserIdStatusPath \subseteq Contract /\ UserIdUnlockPath \subseteq Contract
    /\ V3ApiDocsPath \subseteq Contract
BY SMTT(30) DEF Contract

\* A handler that refuses in time, with codes the document knows, fits.
LEMMA HandlerFits ==
    ASSUME NEW codes \in SUBSET Nat, NEW chain, NEW method, NEW path,
           NEW handler \in Seq(Stages(codes)),
           RefusesLate(method, path) \/ Safe(handler),
           method = "get" \/ MayMiss(method, path) \/ Writes(handler),
           \/ chain = "open" \/ method = "get"
           \/ LogKnows(method, path),
           \A code \in codes : HTTPStatus(code) \in {401, 403, 409} =>
               HTTPStatus(code) \in Documented(method, path),
           chain # "open" => 401 \in Documented(method, path),
           chain = "guarded" => 403 \in Documented(method, path)
    PROVE  Fits(chain, method, path, handler)
<1>1. handler \in Seq(Stages(Nat))
  <2>1. Stages(codes) \subseteq Stages(Nat)  BY DEF Stages
  <2> QED  BY <2>1, SeqMonotonic
<1>2. \A i \in 1 .. Len(handler) : handler[i].refuses \in SUBSET codes
  <2> TAKE i \in 1 .. Len(handler)
  <2>1. handler[i] \in Stages(codes)  BY ElementOfSeq
  <2> QED  BY <2>1 DEF Stages
<1>3. \A i \in 1 .. Len(handler) : \A code \in handler[i].refuses :
          HTTPStatus(code) \in {401, 403, 409} => HTTPStatus(code) \in Documented(method, path)
  <2> TAKE i \in 1 .. Len(handler)
  <2> TAKE code \in handler[i].refuses
  <2>1. code \in codes  BY <1>2
  <2> QED  BY <2>1
<1> QED  BY <1>1, <1>3, Zenon DEF Fits

\* The three usual kinds of handlers.
LEMMA KindFits ==
    ASSUME NEW codes \in SUBSET Nat, Plain \subseteq codes, NEW chain, NEW path, NEW method,
           chain # "open" => 401 \in Documented(method, path),
           chain = "guarded" => 403 \in Documented(method, path),
           \A code \in codes : HTTPStatus(code) \in {401, 403, 409} =>
               HTTPStatus(code) \in Documented(method, path),
           NEW handler,
           \/ method = "get" /\ handler \in Looks(codes)
           \/ /\ LogKnows(method, path)
              /\ \/ handler \in Writers(codes)
                 \/ handler \in Refusers(codes) /\ MayMiss(method, path)
    PROVE  Fits(chain, method, path, handler)
<1>1. Looks(codes) \subseteq Refusers(codes)  BY Parts
<1>2. /\ handler \in Seq(Stages(codes)) /\ Safe(handler)
      /\ handler \in Writers(codes) => Writes(handler)
  BY <1>1, Kinds
<1> QED  BY <1>2, HandlerFits

\* The same for the codes of nearly all of them.
LEMMA PlainKindFits ==
    ASSUME NEW chain, NEW path, NEW method,
           chain # "open" => 401 \in Documented(method, path),
           chain = "guarded" => 403 \in Documented(method, path),
           NEW handler,
           \/ method = "get" /\ handler \in Looks(Plain)
           \/ /\ LogKnows(method, path)
              /\ \/ handler \in Writers(Plain)
                 \/ handler \in Refusers(Plain) /\ MayMiss(method, path)
    PROVE  Fits(chain, method, path, handler)
<1>1. Plain \in SUBSET Nat  BY DEF Plain
<1>2. \A code \in Plain : HTTPStatus(code) \notin {401, 403, 409}  BY StatusOf, SMTT(30)
<1> QED  BY <1>1, <1>2, KindFits

\* What holds of every handler of a path holds of its routes.
LEMMA RoutesOfPath ==
    ASSUME NEW chain \in {"open", "own", "guarded"}, NEW path, NEW handlers,
           NEW ok \in {200, 204, 302},
           \A method \in DOMAIN handlers : Fits(chain, method, path, handlers[method])
    PROVE  \A r \in routes(chain, path, handlers, ok) : Sound(r)
<1> TAKE r \in routes(chain, path, handlers, ok)
<1>1. PICK method \in DOMAIN handlers :
          r = [method |-> method, path |-> path, handler |-> handlers[method],
               chain |-> chain, ok |-> ok]
  BY DEF routes
<1>2. /\ r.method = method /\ r.path = path /\ r.handler = handlers[method]
      /\ r.chain = chain /\ r.ok = ok
  BY <1>1
<1> QED  BY <1>2 DEF Sound

\* The document lets every operation answer 401, and 403 where a permission is needed.
LEMMA AccessDocumented ==
    /\ {401, 403} \subseteq Read /\ {401, 403} \subseteq ReadRow
    /\ {401, 403} \subseteq Write /\ {401, 403} \subseteq WriteRow
    /\ {401, 403} \subseteq Free /\ 401 \in Own /\ 401 \in OwnWrite
BY DEF Read, ReadRow, Write, WriteRow, Free, Own, OwnWrite

\* The sets of codes: which may answer 401, 403 or 409.
LEMMA KnownCodes ==
    /\ Plain \in SUBSET Nat /\ Guarding \in SUBSET Nat /\ Deleting \in SUBSET Nat
    /\ Plain \subseteq Guarding /\ Plain \subseteq Deleting
    /\ \A code \in Plain : HTTPStatus(code) \notin {401, 403, 409}
BY StatusOf, SMTT(30) DEF Plain, Guarding, Deleting

\* Who only looks refuses in time.
LEMMA LooksRefuse == Looks(Plain) \subseteq Refusers(Plain)
BY Parts

\* The routes of a path, all of whose handlers are of the usual kinds.
LEMMA SystemPathSound ==
    ASSUME NEW path, NEW answers, NEW handlers, Path(path, answers) \subseteq Contract,
           DOMAIN handlers \subseteq DOMAIN answers,
           \A method \in DOMAIN handlers :
               /\ {401, 403} \subseteq answers[method]
               /\ \/ method = "get" /\ handlers[method] \in Looks(Plain)
                  \/ /\ LogKnows(method, path)
                     /\ \/ handlers[method] \in Writers(Plain)
                        \/ handlers[method] \in Refusers(Plain) /\ MayMiss(method, path)
    PROVE  \A r \in system(path, handlers) : Sound(r)
<1>1. ASSUME NEW method \in DOMAIN handlers
      PROVE  Fits("guarded", method, path, handlers[method])
  <2>1. {401, 403} \subseteq Documented(method, path)  BY AnswersOfPath
  <2> QED  BY <2>1, PlainKindFits
<1> QED  BY <1>1, RoutesOfPath DEF system

\* The same for the routes to one's own account.
LEMMA OwnPathSound ==
    ASSUME NEW path, NEW answers, NEW handlers, Path(path, answers) \subseteq Contract,
           DOMAIN handlers \subseteq DOMAIN answers,
           \A method \in DOMAIN handlers :
               /\ 401 \in answers[method]
               /\ \/ method = "get" /\ handlers[method] \in Looks(Plain)
                  \/ /\ LogKnows(method, path)
                     /\ \/ handlers[method] \in Writers(Plain)
                        \/ handlers[method] \in Refusers(Plain) /\ MayMiss(method, path)
    PROVE  \A r \in own(path, handlers) : Sound(r)
<1>1. ASSUME NEW method \in DOMAIN handlers
      PROVE  Fits("own", method, path, handlers[method])
  <2>1. 401 \in Documented(method, path)  BY AnswersOfPath
  <2> QED  BY <2>1, PlainKindFits
<1> QED  BY <1>1, RoutesOfPath DEF own

\* The routes without a session.
LEMMA PublicRoutesSound == \A r \in PublicRoutes : Sound(r)
<1>looks. <<>> \in Looks(Plain) /\ OpenAPIDocs \in Looks(Plain) /\ PublicConfig \in Looks(Plain)
  <2>1. Rules(Looks(Plain), Finds(Plain), Refusers(Plain), Writers(Plain))  BY KnownRules
  <2> QED  BY <2>1, ReadersLook, Codes, SMTT(30) DEF Rules, OpenAPIDocs
<1>1. \A r \in open("/", [get |-> <<>>], 302) : Sound(r)
  <2>1. Fits("open", "get", "/", <<>>)
    BY <1>looks, PlainKindFits, SMTT(30)
  <2> QED
    BY <2>1, RoutesOfPath, SMTT(30) DEF open
<1>2. \A r \in open("/favicon.ico", [get |-> <<>>], 204) : Sound(r)
  <2>1. Fits("open", "get", "/favicon.ico", <<>>)
    BY <1>looks, PlainKindFits, SMTT(30)
  <2> QED
    BY <2>1, RoutesOfPath, SMTT(30) DEF open
<1>3. \A r \in open("/health", [get |-> <<>>], 200) : Sound(r)
  <2>1. Fits("open", "get", "/health", <<>>)
    BY <1>looks, PlainKindFits, SMTT(30)
  <2> QED
    BY <2>1, RoutesOfPath, SMTT(30) DEF open
<1>4. \A r \in open("/v3/api-docs", [get |-> OpenAPIDocs], 200) : Sound(r)
  <2>1. Fits("open", "get", "/v3/api-docs", OpenAPIDocs)
    BY <1>looks, PlainKindFits, SMTT(30)
  <2> QED
    BY <2>1, RoutesOfPath, SMTT(30) DEF open
<1>5. \A r \in open("/swagger-ui.html", [get |-> <<>>], 302) : Sound(r)
  <2>1. Fits("open", "get", "/swagger-ui.html", <<>>)
    BY <1>looks, PlainKindFits, SMTT(30)
  <2> QED
    BY <2>1, RoutesOfPath, SMTT(30) DEF open
<1>6. \A r \in open("/system/publicConfig", [get |-> PublicConfig], 200) : Sound(r)
  <2>1. Fits("open", "get", "/system/publicConfig", PublicConfig)
    BY <1>looks, PlainKindFits, SMTT(30)
  <2> QED
    BY <2>1, RoutesOfPath, SMTT(30) DEF open
<1>7. \A r \in open("/system/login", [post |-> Login], 200) : Sound(r)
  <2>1. RefusesLate("post", "/system/login")
    BY SMTT(30) DEF RefusesLate, login
  <2>2. Fits("open", "post", "/system/login", Login)
    BY <2>1, OthersWrite, SMTT(30) DEF Fits, login
  <2> QED
    BY <2>2, RoutesOfPath, SMTT(30) DEF open
<1> QED
  BY <1>1, <1>2, <1>3, <1>4, <1>5, <1>6, <1>7, SMTT(30) DEF PublicRoutes

\* One's own account.
LEMMA OwnRoutesSound == \A r \in OwnRoutes : Sound(r)
<1>1. \A r \in own("/system/logout", [post |-> Logout]) : Sound(r)
  BY PathsOfContract, AccessDocumented, OwnPathSound, RefusersRefuse, SMTT(30) DEF
     LogoutPath, LogKnows, MayMiss, Unchecked
<1>2. \A r \in own("/system/me", [get |-> Me]) : Sound(r)
  BY PathsOfContract, AccessDocumented, OwnPathSound, ReadersLook, SMTT(30) DEF MePath
<1>3. \A r \in own("/system/password", [put |-> Password]) : Sound(r)
  BY PathsOfContract, AccessDocumented, OwnPathSound, WritersWrite, SMTT(30) DEF
     PasswordPath, LogKnows
<1>4. \A r \in own("/system/profile", [put |-> Profile]) : Sound(r)
  BY PathsOfContract, AccessDocumented, OwnPathSound, WritersWrite, SMTT(30) DEF ProfilePath,
     LogKnows, operationLogDefinitions
<1> QED
  BY <1>1, <1>2, <1>3, <1>4, Zenon DEF OwnRoutes

\* The users.
LEMMA UserRoutesSound == \A r \in UserRoutes : Sound(r)
<1>1. \A r \in system("/system/user", [get |-> Users, post |-> CreateUser]) : Sound(r)
  BY PathsOfContract, AccessDocumented, SystemPathSound, ReadersLook, WritersWrite, SMTT(30)
     DEF UserPath, LogKnows, operationLogDefinitions
<1>2. \A r \in system("/system/user/:id",
              [get |-> User, put |-> UpdateUser, delete |-> DeleteUser]) : Sound(r)
  <2>1. {401, 403} \subseteq Documented("get", "/system/user/:id")
    BY PathsOfContract, AnswersOfPath, AccessDocumented, SMTT(30) DEF UserIdPath
  <2>2. Fits("guarded", "get", "/system/user/:id", User)
    BY <2>1, ReadersLook, PlainKindFits, SMTT(30)
  <2>3. /\ {401, 403} \subseteq Documented("put", "/system/user/:id")
        /\ LogKnows("put", "/system/user/:id")
    BY PathsOfContract, AnswersOfPath, AccessDocumented, SMTT(30) DEF UserIdPath, LogKnows,
       operationLogDefinitions
  <2>4. Fits("guarded", "put", "/system/user/:id", UpdateUser)
    BY <2>3, WritersWrite, PlainKindFits, SMTT(30)
  <2>5. /\ {401, 403} \subseteq Documented("delete", "/system/user/:id")
        /\ LogKnows("delete", "/system/user/:id")
    BY PathsOfContract, AnswersOfPath, AccessDocumented, SMTT(30) DEF UserIdPath, LogKnows,
       operationLogDefinitions
  <2>6. \A code \in Guarding : HTTPStatus(code) \in {401, 403, 409} =>
            HTTPStatus(code) \in Documented("delete", "/system/user/:id")
    BY <2>5, StatusOf, SMTT(30)
  <2>7. Fits("guarded", "delete", "/system/user/:id", DeleteUser)
    BY <2>5, <2>6, GuardedWrite, KnownCodes, KindFits, SMTT(30)
  <2> QED
    BY <2>2, <2>4, <2>7, RoutesOfPath, SMTT(30) DEF system
<1>3. \A r \in system("/system/user/:id/status", [put |-> UserStatus]) : Sound(r)
  <2>1. /\ {401, 403} \subseteq Documented("put", "/system/user/:id/status")
        /\ LogKnows("put", "/system/user/:id/status")
        /\ MayMiss("put", "/system/user/:id/status")
    BY PathsOfContract, AnswersOfPath, AccessDocumented, SMTT(30) DEF UserIdStatusPath,
       LogKnows, operationLogDefinitions, MayMiss, Unchecked
  <2>2. \A code \in Guarding : HTTPStatus(code) \in {401, 403, 409} =>
            HTTPStatus(code) \in Documented("put", "/system/user/:id/status")
    BY <2>1, StatusOf, SMTT(30)
  <2>3. Fits("guarded", "put", "/system/user/:id/status", UserStatus)
    BY <2>1, <2>2, GuardedRefuse, KnownCodes, KindFits, SMTT(30)
  <2> QED
    BY <2>3, RoutesOfPath, SMTT(30) DEF system
<1>4. \A r \in system("/system/user/:id/unlock", [post |-> UnlockUser]) : Sound(r)
  BY PathsOfContract, AccessDocumented, SystemPathSound, RefusersRefuse, SMTT(30) DEF
     UserIdUnlockPath, LogKnows, operationLogDefinitions, MayMiss, Unchecked
<1>5. \A r \in system("/system/user/:id/role", [put |-> UserRoles]) : Sound(r)
  <2>1. /\ {401, 403} \subseteq Documented("put", "/system/user/:id/role")
        /\ LogKnows("put", "/system/user/:id/role")
    BY PathsOfContract, AnswersOfPath, AccessDocumented, SMTT(30) DEF UserIdRolePath,
       LogKnows, operationLogDefinitions
  <2>2. \A code \in Guarding : HTTPStatus(code) \in {401, 403, 409} =>
            HTTPStatus(code) \in Documented("put", "/system/user/:id/role")
    BY <2>1, StatusOf, SMTT(30)
  <2>3. Fits("guarded", "put", "/system/user/:id/role", UserRoles)
    BY <2>1, <2>2, GuardedWrite, KnownCodes, KindFits, SMTT(30)
  <2> QED
    BY <2>3, RoutesOfPath, SMTT(30) DEF system
<1>6. \A r \in system("/system/user/:id/resetPassword",
              [post |-> ResetPassword]) : Sound(r)
  <2>1. /\ {401, 403} \subseteq Documented("post", "/system/user/:id/resetPassword")
        /\ LogKnows("post", "/system/user/:id/resetPassword")
        /\ MayMiss("post", "/system/user/:id/resetPassword")
    BY PathsOfContract, AnswersOfPath, AccessDocumented, SMTT(30) DEF
       UserIdResetPasswordPath, LogKnows, operationLogDefinitions, MayMiss, Unchecked
  <2>2. \A code \in Guarding : HTTPStatus(code) \in {401, 403, 409} =>
            HTTPStatus(code) \in Documented("post", "/system/user/:id/resetPassword")
    BY <2>1, StatusOf, SMTT(30)
  <2>3. Fits("guarded", "post", "/system/user/:id/resetPassword", ResetPassword)
    BY <2>1, <2>2, GuardedRefuse, KnownCodes, KindFits, SMTT(30)
  <2> QED
    BY <2>3, RoutesOfPath, SMTT(30) DEF system
<1> QED
  BY <1>1, <1>2, <1>3, <1>4, <1>5, <1>6, Zenon DEF UserRoutes

\* The roles.
LEMMA RoleRoutesSound == \A r \in RoleRoutes : Sound(r)
<1>1. \A r \in system("/system/role", [get |-> Roles, post |-> CreateRole]) : Sound(r)
  BY PathsOfContract, AccessDocumented, SystemPathSound, ReadersLook, WritersWrite, SMTT(30)
     DEF RolePath, LogKnows, operationLogDefinitions
<1>2. \A r \in system("/system/role/option", [get |-> RoleOptions]) : Sound(r)
  BY PathsOfContract, AccessDocumented, SystemPathSound, ReadersLook, SMTT(30) DEF
     RoleOptionPath
<1>3. \A r \in system("/system/role/:id",
              [get |-> Role, put |-> UpdateRole, delete |-> DeleteRole]) : Sound(r)
  <2>1. {401, 403} \subseteq Documented("get", "/system/role/:id")
    BY PathsOfContract, AnswersOfPath, AccessDocumented, SMTT(30) DEF RoleIdPath
  <2>2. Fits("guarded", "get", "/system/role/:id", Role)
    BY <2>1, ReadersLook, PlainKindFits, SMTT(30)
  <2>3. /\ {401, 403} \subseteq Documented("put", "/system/role/:id")
        /\ LogKnows("put", "/system/role/:id")
        /\ MayMiss("put", "/system/role/:id")
    BY PathsOfContract, AnswersOfPath, AccessDocumented, SMTT(30) DEF RoleIdPath, LogKnows,
       operationLogDefinitions, MayMiss, Unchecked
  <2>4. Fits("guarded", "put", "/system/role/:id", UpdateRole)
    BY <2>3, RefusersRefuse, PlainKindFits, SMTT(30)
  <2>5. /\ {401, 403, 409} \subseteq Documented("delete", "/system/role/:id")
        /\ LogKnows("delete", "/system/role/:id")
    BY PathsOfContract, AnswersOfPath, AccessDocumented, SMTT(30) DEF RoleIdPath, LogKnows,
       operationLogDefinitions
  <2>6. \A code \in Deleting : HTTPStatus(code) \in {401, 403, 409} =>
            HTTPStatus(code) \in Documented("delete", "/system/role/:id")
    BY <2>5, StatusOf, SMTT(30)
  <2>7. Fits("guarded", "delete", "/system/role/:id", DeleteRole)
    BY <2>5, <2>6, DeleteRoleWrites, KnownCodes, KindFits, SMTT(30)
  <2> QED
    BY <2>2, <2>4, <2>7, RoutesOfPath, SMTT(30) DEF system
<1>4. \A r \in system("/system/role/:id/user", [get |-> RoleUsers]) : Sound(r)
  BY PathsOfContract, AccessDocumented, SystemPathSound, ReadersLook, SMTT(30) DEF
     RoleIdUserPath
<1>5. \A r \in system("/system/role/:id/permission",
              [get |-> RolePermissions, put |-> AssignRoleMenus]) : Sound(r)
  BY PathsOfContract, AccessDocumented, SystemPathSound, ReadersLook, WritersWrite, SMTT(30)
     DEF RoleIdPermissionPath, LogKnows, operationLogDefinitions
<1>6. \A r \in system("/system/role/:id/status", [put |-> RoleStatus]) : Sound(r)
  BY PathsOfContract, AccessDocumented, SystemPathSound, RefusersRefuse, SMTT(30) DEF
     RoleIdStatusPath, LogKnows, operationLogDefinitions, MayMiss, Unchecked
<1> QED
  BY <1>1, <1>2, <1>3, <1>4, <1>5, <1>6, Zenon DEF RoleRoutes

\* The menus.
LEMMA MenuRoutesSound == \A r \in MenuRoutes : Sound(r)
<1>1. \A r \in system("/system/menu", [get |-> Menus, post |-> CreateMenu]) : Sound(r)
  BY PathsOfContract, AccessDocumented, SystemPathSound, ReadersLook, WritersWrite, SMTT(30)
     DEF MenuPath, LogKnows, operationLogDefinitions
<1>2. \A r \in system("/system/menu/:id",
              [put |-> UpdateMenu, delete |-> DeleteMenu]) : Sound(r)
  BY PathsOfContract, AccessDocumented, SystemPathSound, RefusersRefuse, SMTT(30) DEF
     MenuIdPath, LogKnows, operationLogDefinitions, MayMiss, Unchecked
<1>3. \A r \in system("/system/menu/:id/status", [put |-> MenuStatus]) : Sound(r)
  BY PathsOfContract, AccessDocumented, SystemPathSound, RefusersRefuse, SMTT(30) DEF
     MenuIdStatusPath, LogKnows, operationLogDefinitions, MayMiss, Unchecked
<1> QED
  BY <1>1, <1>2, <1>3, Zenon DEF MenuRoutes

\* The departments.
LEMMA DeptRoutesSound == \A r \in DeptRoutes : Sound(r)
<1>1. \A r \in system("/system/dept", [get |-> Depts, post |-> CreateDept]) : Sound(r)
  BY PathsOfContract, AccessDocumented, SystemPathSound, ReadersLook, WritersWrite, SMTT(30)
     DEF DeptPath, LogKnows, operationLogDefinitions
<1>2. \A r \in system("/system/dept/:id",
              [get |-> Dept, put |-> UpdateDept, delete |-> DeleteDept]) : Sound(r)
  BY PathsOfContract, AccessDocumented, SystemPathSound, ReadersLook, RefusersRefuse,
     SMTT(30) DEF DeptIdPath, LogKnows, operationLogDefinitions, MayMiss, Unchecked
<1>3. \A r \in system("/system/dept/:id/status", [put |-> DeptStatus]) : Sound(r)
  BY PathsOfContract, AccessDocumented, SystemPathSound, RefusersRefuse, SMTT(30) DEF
     DeptIdStatusPath, LogKnows, operationLogDefinitions, MayMiss, Unchecked
<1> QED
  BY <1>1, <1>2, <1>3, Zenon DEF DeptRoutes

\* The configuration.
LEMMA ConfigRoutesSound == \A r \in ConfigRoutes : Sound(r)
<1>1. \A r \in system("/system/config",
              [get |-> Configs, post |-> CreateConfig]) : Sound(r)
  BY PathsOfContract, AccessDocumented, SystemPathSound, ReadersLook, WritersWrite, SMTT(30)
     DEF ConfigPath, LogKnows, operationLogDefinitions
<1>2. \A r \in system("/system/config/:id",
              [put |-> UpdateConfig, delete |-> DeleteConfig]) : Sound(r)
  BY PathsOfContract, AccessDocumented, SystemPathSound, WritersWrite, SMTT(30) DEF
     ConfigIdPath, LogKnows, operationLogDefinitions
<1>3. \A r \in system("/system/config/:id/status", [put |-> ConfigStatus]) : Sound(r)
  BY PathsOfContract, AccessDocumented, SystemPathSound, WritersWrite, SMTT(30) DEF
     ConfigIdStatusPath, LogKnows, operationLogDefinitions
<1> QED
  BY <1>1, <1>2, <1>3, Zenon DEF ConfigRoutes

\* The dictionary.
LEMMA DictRoutesSound == \A r \in DictRoutes : Sound(r)
<1>1. \A r \in system("/system/dict/type",
              [get |-> DictTypes, post |-> CreateDictType]) : Sound(r)
  BY PathsOfContract, AccessDocumented, SystemPathSound, ReadersLook, WritersWrite, SMTT(30)
     DEF DictTypePath, LogKnows, operationLogDefinitions
<1>2. \A r \in system("/system/dict/type/:id",
              [put |-> UpdateDictType, delete |-> DeleteDictType]) : Sound(r)
  BY PathsOfContract, AccessDocumented, SystemPathSound, RefusersRefuse, WritersWrite,
     SMTT(30) DEF DictTypeIdPath, LogKnows, operationLogDefinitions, MayMiss, Unchecked
<1>3. \A r \in system("/system/dict/type/:id/item", [get |-> DictItems]) : Sound(r)
  BY PathsOfContract, AccessDocumented, SystemPathSound, ReadersLook, SMTT(30) DEF
     DictTypeIdItemPath
<1>4. \A r \in system("/system/dict/item", [post |-> CreateDictItem]) : Sound(r)
  <2>1. /\ {401, 403} \subseteq Documented("post", "/system/dict/item")
        /\ LogKnows("post", "/system/dict/item")
        /\ RefusesLate("post", "/system/dict/item")
    BY PathsOfContract, AnswersOfPath, AccessDocumented, SMTT(30) DEF DictItemPath, LogKnows,
       operationLogDefinitions, RefusesLate
  <2>2. Fits("guarded", "post", "/system/dict/item", CreateDictItem)
    BY <2>1, KnownCodes, OthersWrite, HandlerFits, SMTT(30)
  <2> QED
    BY <2>2, RoutesOfPath, SMTT(30) DEF system
<1>5. \A r \in system("/system/dict/item/:id",
              [put |-> UpdateDictItem, delete |-> DeleteDictItem]) : Sound(r)
  <2>1. /\ {401, 403} \subseteq Documented("put", "/system/dict/item/:id")
        /\ LogKnows("put", "/system/dict/item/:id")
        /\ MayMiss("put", "/system/dict/item/:id")
        /\ RefusesLate("put", "/system/dict/item/:id")
    BY PathsOfContract, AnswersOfPath, AccessDocumented, SMTT(30) DEF DictItemIdPath,
       LogKnows, operationLogDefinitions, MayMiss, Unchecked, RefusesLate
  <2>2. Fits("guarded", "put", "/system/dict/item/:id", UpdateDictItem)
    BY <2>1, KnownCodes, OthersWrite, HandlerFits, SMTT(30)
  <2>3. /\ {401, 403} \subseteq Documented("delete", "/system/dict/item/:id")
        /\ LogKnows("delete", "/system/dict/item/:id")
    BY PathsOfContract, AnswersOfPath, AccessDocumented, SMTT(30) DEF DictItemIdPath,
       LogKnows, operationLogDefinitions
  <2>4. Fits("guarded", "delete", "/system/dict/item/:id", DeleteDictItem)
    BY <2>3, WritersWrite, PlainKindFits, SMTT(30)
  <2> QED
    BY <2>2, <2>4, RoutesOfPath, SMTT(30) DEF system
<1>6. \A r \in system("/system/dict/item/:id/status", [put |-> DictItemStatus]) : Sound(r)
  BY PathsOfContract, AccessDocumented, SystemPathSound, RefusersRefuse, SMTT(30) DEF
     DictItemIdStatusPath, LogKnows, operationLogDefinitions, MayMiss, Unchecked
<1>7. \A r \in system("/system/dict/cache/refresh",
              [post |-> RefreshDictCache]) : Sound(r)
  BY PathsOfContract, AccessDocumented, SystemPathSound, ReadersLook, LooksRefuse, SMTT(30)
     DEF DictCacheRefreshPath, LogKnows, MayMiss, Unchecked
<1> QED
  BY <1>1, <1>2, <1>3, <1>4, <1>5, <1>6, <1>7, Zenon DEF DictRoutes

\* The online users.
LEMMA OnlineUserRoutesSound == \A r \in OnlineUserRoutes : Sound(r)
<1>1. \A r \in system("/system/onlineUser", [get |-> OnlineUsers]) : Sound(r)
  BY PathsOfContract, AccessDocumented, SystemPathSound, ReadersLook, SMTT(30) DEF
     OnlineUserPath
<1>2. \A r \in system("/system/onlineUser/:tokenId", [get |-> OnlineUser]) : Sound(r)
  <2>1. {401, 403} \subseteq Documented("get", "/system/onlineUser/:tokenId")
    BY PathsOfContract, AnswersOfPath, AccessDocumented, SMTT(30) DEF OnlineUserTokenIdPath
  <2>2. Fits("guarded", "get", "/system/onlineUser/:tokenId", OnlineUser)
    BY <2>1, ReadersLook, PlainKindFits, SMTT(30)
  <2> QED
    BY <2>2, RoutesOfPath, SMTT(30) DEF system
<1>3. \A r \in system("/system/onlineUser/:tokenId/kickout",
              [post |-> KickoutOnlineUser]) : Sound(r)
  BY PathsOfContract, AccessDocumented, SystemPathSound, RefusersRefuse, SMTT(30) DEF
     OnlineUserTokenIdKickoutPath, LogKnows, operationLogDefinitions, MayMiss, Unchecked
<1> QED
  BY <1>1, <1>2, <1>3, Zenon DEF OnlineUserRoutes

\* The logs.
LEMMA LogRoutesSound == \A r \in LogRoutes : Sound(r)
<1>1. \A r \in system("/system/loginLog", [get |-> LoginLogs]) : Sound(r)
  BY PathsOfContract, AccessDocumented, SystemPathSound, ReadersLook, SMTT(30) DEF
     LoginLogPath
<1>2. \A r \in system("/system/loginLog/:id", [get |-> LoginLog]) : Sound(r)
  BY PathsOfContract, AccessDocumented, SystemPathSound, ReadersLook, SMTT(30) DEF
     LoginLogIdPath
<1>3. \A r \in system("/system/operationLog", [get |-> OperationLogs]) : Sound(r)
  BY PathsOfContract, AccessDocumented, SystemPathSound, ReadersLook, SMTT(30) DEF
     OperationLogPath
<1>4. \A r \in system("/system/operationLog/:id", [get |-> OperationLog]) : Sound(r)
  <2>1. {401, 403} \subseteq Documented("get", "/system/operationLog/:id")
    BY PathsOfContract, AnswersOfPath, AccessDocumented, SMTT(30) DEF OperationLogIdPath
  <2>2. Fits("guarded", "get", "/system/operationLog/:id", OperationLog)
    BY <2>1, ReadersLook, PlainKindFits, SMTT(30)
  <2> QED
    BY <2>2, RoutesOfPath, SMTT(30) DEF system
<1> QED
  BY <1>1, <1>2, <1>3, <1>4, Zenon DEF LogRoutes

\* The jobs.
LEMMA JobRoutesSound == \A r \in JobRoutes : Sound(r)
<1>1. \A r \in system("/system/job", [get |-> Jobs, post |-> CreateJob]) : Sound(r)
  BY PathsOfContract, AccessDocumented, SystemPathSound, ReadersLook, WritersWrite, SMTT(30)
     DEF JobPath, LogKnows, operationLogDefinitions
<1>2. \A r \in system("/system/job/scripts", [get |-> JobScripts]) : Sound(r)
  <2>1. {401, 403} \subseteq Documented("get", "/system/job/scripts")
    BY PathsOfContract, AnswersOfPath, AccessDocumented, SMTT(30) DEF JobScriptsPath
  <2>2. Fits("guarded", "get", "/system/job/scripts", JobScripts)
    BY <2>1, ReadersLook, PlainKindFits, SMTT(30)
  <2> QED
    BY <2>2, RoutesOfPath, SMTT(30) DEF system
<1>3. \A r \in system("/system/job/:id",
              [get |-> Job, put |-> UpdateJob, delete |-> DeleteJob]) : Sound(r)
  BY PathsOfContract, AccessDocumented, SystemPathSound, ReadersLook, RefusersRefuse,
     SMTT(30) DEF JobIdPath, LogKnows, operationLogDefinitions, MayMiss, Unchecked
<1>4. \A r \in system("/system/job/:id/status", [put |-> JobStatus]) : Sound(r)
  BY PathsOfContract, AccessDocumented, SystemPathSound, RefusersRefuse, SMTT(30) DEF
     JobIdStatusPath, LogKnows, operationLogDefinitions, MayMiss, Unchecked
<1>5. \A r \in system("/system/job/:id/run", [post |-> RunJob]) : Sound(r)
  BY PathsOfContract, AccessDocumented, SystemPathSound, WritersWrite, SMTT(30) DEF
     JobIdRunPath, LogKnows, operationLogDefinitions
<1>6. \A r \in system("/system/job/:id/runLog", [get |-> JobLogs]) : Sound(r)
  BY PathsOfContract, AccessDocumented, SystemPathSound, ReadersLook, SMTT(30) DEF
     JobIdRunLogPath
<1>7. \A r \in system("/system/jobRunLog", [get |-> JobRunLogs]) : Sound(r)
  BY PathsOfContract, AccessDocumented, SystemPathSound, ReadersLook, SMTT(30) DEF
     JobRunLogPath
<1> QED
  BY <1>1, <1>2, <1>3, <1>4, <1>5, <1>6, <1>7, Zenon DEF JobRoutes

\* The files.
LEMMA FileRoutesSound == \A r \in FileRoutes : Sound(r)
<1>1. \A r \in system("/system/files", [post |-> UploadFile]) : Sound(r)
  BY PathsOfContract, AccessDocumented, SystemPathSound, ReadersLook, LooksRefuse, SMTT(30)
     DEF FilesPath, LogKnows, operationLogDefinitions, MayMiss, Unchecked
<1> QED
  BY <1>1, Zenon DEF FileRoutes

\* The print templates.
LEMMA PrintTemplateRoutesSound == \A r \in PrintTemplateRoutes : Sound(r)
<1>1. \A r \in system("/system/print-template",
              [get |-> PrintTemplates, post |-> CreatePrintTemplate]) : Sound(r)
  BY PathsOfContract, AccessDocumented, SystemPathSound, ReadersLook, WritersWrite, SMTT(30)
     DEF PrintTemplatePath, LogKnows, operationLogDefinitions
<1>2. \A r \in system("/system/print-template/:id",
              [get |-> PrintTemplate, put |-> UpdatePrintTemplate,
                delete |-> DeletePrintTemplate]) : Sound(r)
  BY PathsOfContract, AccessDocumented, SystemPathSound, ReadersLook, RefusersRefuse,
     SMTT(30) DEF PrintTemplateIdPath, LogKnows, operationLogDefinitions, MayMiss, Unchecked
<1>3. \A r \in system("/system/print-template/:id/copy",
              [post |-> CopyPrintTemplate]) : Sound(r)
  BY PathsOfContract, AccessDocumented, SystemPathSound, WritersWrite, SMTT(30) DEF
     PrintTemplateIdCopyPath, LogKnows, operationLogDefinitions
<1>4. \A r \in system("/system/print-template/:id/status",
              [put |-> PrintTemplateStatus]) : Sound(r)
  BY PathsOfContract, AccessDocumented, SystemPathSound, RefusersRefuse, SMTT(30) DEF
     PrintTemplateIdStatusPath, LogKnows, operationLogDefinitions, MayMiss, Unchecked
<1> QED
  BY <1>1, <1>2, <1>3, <1>4, Zenon DEF PrintTemplateRoutes

\* Every route is sound.
LEMMA RoutesSound == \A r \in Routes : Sound(r)
BY PublicRoutesSound, OwnRoutesSound, UserRoutesSound, RoleRoutesSound, MenuRoutesSound,
   DeptRoutesSound, ConfigRoutesSound, DictRoutesSound, OnlineUserRoutesSound, LogRoutesSound,
   JobRoutesSound, FileRoutesSound, PrintTemplateRoutesSound, Zenon
DEF Routes, ProtectedRoutes

-----------------------------------------------------------------------------
(***************************************************************************)
(* The inductive invariant.                                                *)
(***************************************************************************)

\* Before its handler a request has changed nothing, the permission is asked for
\* where the route names one, and a panic ends a request.
Early ==
    /\ at \in {"idle", "session", "permission"} => ~changed
    /\ at = "session" => route.chain # "open"
    /\ at = "permission" => route.chain = "guarded"
    /\ panicked => at = "done"

Harmless(h) == \A i \in 1 .. Len(h) : h[i].refuses = {}
WillChange(h) ==
    \/ Writes(h)
    \/ there /\ \E i \in 1 .. Len(h) : h[i].effect = "row"
Allowed(r, code) ==
    HTTPStatus(code) \in {401, 403, 409} => HTTPStatus(code) \in Documented(r.method, r.path)
AnswersAllowed(r, h) == \A i \in 1 .. Len(h) : \A code \in h[i].refuses : Allowed(r, code)

\* In the handler: what is still to come cannot refuse what has changed something,
\* and has still to change what has not.
InHandler ==
    at = "handler" =>
        /\ rest \in Seq(Stages(Nat))
        /\ \/ RefusesLate(route.method, route.path)
           \/ Safe(rest) /\ (changed => Harmless(rest))
        /\ \/ route.method = "get" \/ MayMiss(route.method, route.path)
           \/ changed \/ WillChange(rest)
        /\ <<route.method, route.path>> = login \/ AnswersAllowed(route, rest)

\* Behind the handler: what the answer has to do with what was changed.
Outcome ==
    at \in {"log", "done"} =>
        /\ status >= 400 /\ changed => panicked \/ RefusesLate(route.method, route.path)
        /\ status = 200 /\ route.method # "get" =>
               MayMiss(route.method, route.path) \/ changed
        /\ status \in {401, 403, 409} =>
               \/ <<route.method, route.path>> = login
               \/ status \in Documented(route.method, route.path)

\* The row of the operation log, for those it knows.
Entry ==
    /\ at = "log" => isLogged
    /\ at = "done" /\ ~panicked /\ isLogged =>
        \/ status \notin {200, 204, 302, 403} /\ ~changed
        \/ entry = "lost"
        \/ entry = IF status < 400 THEN "SUCCESS" ELSE "FAIL"

IInv == TypeOK /\ Early /\ InHandler /\ Outcome /\ Entry

\* The first stage of a handler and the rest of it.
LEMMA FirstAndRest ==
    ASSUME NEW S, NEW h \in Seq(S), h # <<>>
    PROVE  /\ Head(h) = h[1] /\ Head(h) \in S
           /\ Tail(h) \in Seq(S) /\ Len(h) \in Nat \ {0} /\ Len(Tail(h)) = Len(h) - 1
           /\ \A i \in 1 .. Len(Tail(h)) : i + 1 \in 1 .. Len(h) /\ Tail(h)[i] = h[i + 1]
<1>1. /\ Head(h) \in S /\ Tail(h) \in Seq(S) /\ Len(Tail(h)) = Len(h) - 1
      /\ \A i \in 1 .. Len(Tail(h)) : Tail(h)[i] = h[i + 1]
  BY HeadTailProperties
<1>2. Len(h) \in Nat \ {0}  BY EmptySeq, LenProperties
<1> QED  BY <1>1, <1>2

\* Passing the first stage of a safe handler leaves a safe handler, and one that cannot
\* refuse when that stage may have changed something.
LEMMA SafeRest ==
    ASSUME NEW h \in Seq(Stages(Nat)), h # <<>>, Safe(h)
    PROVE  /\ Safe(Tail(h))
           /\ Head(h).effect # "penalty"
           /\ Head(h).effect # "none" => Harmless(Tail(h))
<1>1. /\ Head(h) = h[1] /\ Len(h) \in Nat \ {0} /\ Len(Tail(h)) = Len(h) - 1
      /\ \A i \in 1 .. Len(Tail(h)) : i + 1 \in 1 .. Len(h) /\ Tail(h)[i] = h[i + 1]
  BY FirstAndRest
<1>2. Head(h).effect # "penalty"  BY <1>1, SMTT(30) DEF Safe
<1>3. ASSUME NEW i \in 1 .. Len(Tail(h))
      PROVE  /\ Tail(h)[i].effect # "penalty"
             /\ Tail(h)[i].refuses = {} \/ \A j \in 1 .. i - 1 : Tail(h)[j].effect = "none"
  <2>1. /\ h[i + 1].effect # "penalty"
        /\ h[i + 1].refuses = {} \/ \A j \in 1 .. i : h[j].effect = "none"
    BY <1>1, SMTT(30) DEF Safe
  <2>2. ASSUME NEW j \in 1 .. i - 1
        PROVE  /\ j + 1 \in 1 .. i
               /\ Tail(h)[j] = h[j + 1]
    BY <1>1
  <2> QED  BY <1>1, <2>1, <2>2
<1>4. ASSUME Head(h).effect # "none", NEW i \in 1 .. Len(Tail(h))
      PROVE  Tail(h)[i].refuses = {}
  <2>1. h[i + 1].refuses = {} \/ \A j \in 1 .. i : h[j].effect = "none"
    BY <1>1, SMTT(30) DEF Safe
  <2> QED  BY <1>1, <1>4, <2>1
<1> QED  BY <1>2, <1>3, <1>4, Zenon DEF Safe, Harmless

\* What passing the first stage leaves of the two promises about refusals.
LEMMA HarmlessRest ==
    ASSUME NEW r, NEW h \in Seq(Stages(Nat)), h # <<>>
    PROVE  /\ Harmless(h) => Head(h).refuses = {} /\ Harmless(Tail(h))
           /\ AnswersAllowed(r, h) => AnswersAllowed(r, Tail(h))
           /\ AnswersAllowed(r, h) => \A code \in Head(h).refuses : Allowed(r, code)
<1>1. /\ Head(h) = h[1] /\ Len(h) \in Nat \ {0}
      /\ \A i \in 1 .. Len(Tail(h)) : i + 1 \in 1 .. Len(h) /\ Tail(h)[i] = h[i + 1]
  BY FirstAndRest
<1>2. 1 \in 1 .. Len(h)  BY <1>1
<1>3. Harmless(h) => Head(h).refuses = {} /\ Harmless(Tail(h))
  BY <1>1, <1>2, Zenon DEF Harmless
<1>4. /\ AnswersAllowed(r, h) => AnswersAllowed(r, Tail(h))
      /\ AnswersAllowed(r, h) => \A code \in Head(h).refuses : Allowed(r, code)
  BY <1>1, <1>2, Zenon DEF AnswersAllowed
<1> QED  BY <1>3, <1>4

\* What passing the first stage does to the promise of a change.
LEMMA ChangeOrRest ==
    ASSUME NEW h \in Seq(Stages(Nat)), h # <<>>, WillChange(h),
           Head(h).needs => there
    PROVE  \/ Head(h).effect = "sure"
           \/ Head(h).effect = "row" /\ there
           \/ WillChange(Tail(h))
<1>1. /\ Head(h) = h[1] /\ Len(h) \in Nat \ {0} /\ Len(Tail(h)) = Len(h) - 1
      /\ \A i \in 1 .. Len(Tail(h)) : i + 1 \in 1 .. Len(h) /\ Tail(h)[i] = h[i + 1]
  BY FirstAndRest
<1>2. ASSUME NEW i \in 1 .. Len(h), i # 1
      PROVE  /\ i - 1 \in 1 .. Len(Tail(h))
             /\ Tail(h)[i - 1] = h[i]
  <2>1. i - 1 \in 1 .. Len(Tail(h)) /\ (i - 1) + 1 = i  BY <1>1, <1>2
  <2> QED  BY <1>1, <2>1
<1>3. CASE there /\ \E i \in 1 .. Len(h) : h[i].effect = "row"
  <2>1. PICK i \in 1 .. Len(h) : h[i].effect = "row"  BY <1>3
  <2>2. CASE i = 1  BY <1>1, <1>3, <2>1, <2>2
  <2>3. CASE i # 1
    <3>1. /\ i - 1 \in 1 .. Len(Tail(h))
          /\ Tail(h)[i - 1].effect = "row"
      BY <1>2, <2>1, <2>3
    <3> QED  BY <1>3, <3>1 DEF WillChange
  <2> QED  BY <2>2, <2>3
<1>4. CASE Writes(h)
  <2>1. PICK i \in 1 .. Len(h) :
            \/ h[i].effect = "sure"
            \/ h[i].effect = "row" /\ \E j \in 1 .. i : h[j].needs
    BY <1>4 DEF Writes
  <2>2. CASE i = 1
    <3>1. h[i] = Head(h) /\ \A j \in 1 .. i : j = 1  BY <1>1, <2>2
    <3> QED  BY <1>1, <2>1, <3>1
  <2>3. CASE i # 1
    <3>1. i - 1 \in 1 .. Len(Tail(h)) /\ Tail(h)[i - 1] = h[i]  BY <1>2, <2>3
    <3>2. CASE h[i].effect = "sure"
      <4>1. Writes(Tail(h))  BY <3>1, <3>2, Zenon DEF Writes
      <4> QED  BY <4>1 DEF WillChange
    <3>3. CASE h[i].effect = "row" /\ \E j \in 1 .. i : h[j].needs
      <4>1. PICK j \in 1 .. i : h[j].needs  BY <3>3
      <4>2. CASE j = 1
        <5>1. there  BY <1>1, <4>1, <4>2
        <5> QED  BY <3>1, <3>3, <5>1 DEF WillChange
      <4>3. CASE j # 1
        <5>1. j \in 1 .. Len(h) /\ j - 1 \in 1 .. i - 1  BY <4>3
        <5>2. Tail(h)[j - 1] = h[j]  BY <1>2, <4>3, <5>1
        <5>3. Tail(h)[j - 1].needs  BY <4>1, <5>2
        <5>4. Writes(Tail(h))  BY <3>1, <3>3, <5>1, <5>3, Zenon DEF Writes
        <5> QED  BY <5>4 DEF WillChange
      <4> QED  BY <4>2, <4>3
    <3> QED  BY <2>1, <3>2, <3>3
  <2> QED  BY <2>2, <2>3
<1> QED  BY <1>3, <1>4 DEF WillChange

\* What the routes say of the request under way.
LEMMA RouteFits ==
    ASSUME NEW r \in Routes
    PROVE  /\ r.handler \in Seq(Stages(Nat))
           /\ RefusesLate(r.method, r.path) \/ Safe(r.handler)
           /\ \/ r.method = "get" \/ MayMiss(r.method, r.path)
              \/ Writes(r.handler)
           /\ <<r.method, r.path>> = login \/ AnswersAllowed(r, r.handler)
           /\ \/ r.chain = "open" \/ r.method = "get"
              \/ LogKnows(r.method, r.path)
           /\ r.chain # "open" => 401 \in Documented(r.method, r.path)
           /\ r.chain = "guarded" => 403 \in Documented(r.method, r.path)
           /\ r.ok \in {200, 204, 302}
           /\ r.chain \in {"open", "own", "guarded"}
<1>1. Sound(r)  BY RoutesSound
<1>2. /\ Fits(r.chain, r.method, r.path, r.handler)
      /\ r.ok \in {200, 204, 302} /\ r.chain \in {"open", "own", "guarded"}
  BY <1>1 DEF Sound
<1>3. <<r.method, r.path>> = login \/ AnswersAllowed(r, r.handler)
  BY <1>2, SMTT(30) DEF Fits, AnswersAllowed, Allowed
<1> QED  BY <1>2, <1>3, SMTT(30) DEF Fits

\* The statuses of the codes of the middlewares.
LEMMA MiddlewareStatuses ==
    HTTPStatus(401000) = 401 /\ HTTPStatus(403000) = 403 /\ HTTPStatus(500000) = 500
<1>1. 401000 \div 1000 = 401 /\ 403000 \div 1000 = 403  BY SMTT(30)
<1> QED  BY <1>1, SMTT(30) DEF HTTPStatus

\* The invariant holds at the start.
LEMMA IInvInit == Init => IInv
<1> SUFFICES ASSUME Init PROVE IInv
  OBVIOUS
<1>1. TypeOK
  <2>1. /\ route \in Routes \cup {NoRoute}
        /\ there \in BOOLEAN /\ changed \in BOOLEAN /\ panicked \in BOOLEAN
        /\ at \in {"idle", "session", "permission", "handler", "log", "done"}
        /\ route = NoRoute <=> at = "idle"
        /\ rest # <<>> => at = "handler"
        /\ entry \in {"none", "SUCCESS", "FAIL", "lost"}
    BY NoRouteAssumption, Zenon DEF Init
  <2>2. /\ status \in Statuses \cup {0}
        /\ status = 0 <=> at \in {"idle", "session", "permission", "handler"}
    BY SMTT(30) DEF Init
  <2> QED  BY <2>1, <2>2, Zenon DEF TypeOK
<1>2. Early  BY Zenon DEF Init, Early
<1>3. InHandler /\ Outcome /\ Entry  BY SMTT(30) DEF Init, InHandler, Outcome, Entry
<1> QED  BY <1>1, <1>2, <1>3 DEF IInv

\* One step per action.
LEMMA IInvNext == IInv /\ [Next]_vars => IInv'
<1> SUFFICES ASSUME IInv, [Next]_vars PROVE IInv'
  OBVIOUS
<1>1. TypeOK /\ Early /\ InHandler /\ Outcome /\ Entry  BY DEF IInv
<1>2. at # "idle" => route \in Routes  BY <1>1 DEF TypeOK
<1>3. CASE Arrive
  <2>1. /\ route' \in Routes /\ there' \in BOOLEAN
        /\ changed' = changed /\ ~changed /\ panicked' = panicked /\ ~panicked
        /\ entry' = entry /\ status' = status
        /\ \/ at' = "handler" /\ rest' = route'.handler
           \/ at' = "session" /\ rest' = rest /\ route'.chain # "open"
    BY <1>1, <1>3 DEF Arrive, Early
  <2>2. at = "idle" /\ route' # NoRoute  BY <1>3, <2>1, NoRouteAssumption DEF Arrive
  <2>3. TypeOK'  BY <1>1, <2>1, <2>2, SMTT(30) DEF TypeOK
  <2>4. Early'  BY <2>1, SMTT(30) DEF Early
  <2>5. InHandler'  BY <2>1, RouteFits, SMTT(30) DEF InHandler, WillChange
  <2>6. Outcome' /\ Entry'  BY <2>1, SMTT(30) DEF Outcome, Entry
  <2> QED  BY <2>3, <2>4, <2>5, <2>6 DEF IInv
<1>4. CASE AuthRefuses
  <2>1. /\ route' = route /\ there' = there /\ rest' = rest /\ entry' = entry
        /\ changed' = changed /\ panicked' = panicked /\ at = "session" /\ at' = "done"
    BY <1>4 DEF AuthRefuses
  <2>2. status' \in {401, 500}
    BY <1>4, MiddlewareStatuses, SMTT(30) DEF AuthRefuses, respond
  <2>3. ~changed /\ ~panicked /\ route.chain # "open"  BY <1>1, <2>1 DEF Early
  <2>4. 401 \in Documented(route.method, route.path)  BY <1>2, <2>1, <2>3, RouteFits
  <2>5. TypeOK'  BY <1>1, <2>1, <2>2, SMTT(30) DEF TypeOK, Statuses
  <2>6. Early' /\ InHandler'  BY <2>1, <2>3, SMTT(30) DEF Early, InHandler
  <2>7. Outcome'  BY <2>1, <2>2, <2>3, <2>4, SMTT(30) DEF Outcome
  <2>8. Entry'  BY <2>1, <2>2, <2>3, SMTT(30) DEF Entry
  <2> QED  BY <2>5, <2>6, <2>7, <2>8 DEF IInv
<1>5. CASE AuthAccepts \/ PermissionHeld
  <2>1. /\ route' = route /\ there' = there /\ status' = status /\ entry' = entry
        /\ changed' = changed /\ panicked' = panicked /\ at \in {"session", "permission"}
        /\ \/ at' = "handler" /\ rest' = route.handler
           \/ at' = "permission" /\ rest' = rest /\ route.chain # "own" /\ at = "session"
    BY <1>5 DEF AuthAccepts, PermissionHeld, toHandler
  <2>2. route \in Routes /\ ~changed /\ ~panicked
    BY <1>1, <1>2, <2>1 DEF Early
  <2>3. at' = "permission" => route.chain = "guarded"
    BY <1>1, <2>1, <2>2, RouteFits DEF Early
  <2>4. TypeOK'  BY <1>1, <2>1, SMTT(30) DEF TypeOK
  <2>5. Early'  BY <2>1, <2>2, <2>3, SMTT(30) DEF Early
  <2>6. InHandler'  BY <2>1, <2>2, RouteFits, SMTT(30) DEF InHandler, WillChange
  <2>7. Outcome' /\ Entry'  BY <2>1, SMTT(30) DEF Outcome, Entry
  <2> QED  BY <2>4, <2>5, <2>6, <2>7 DEF IInv
<1>6. CASE PermissionMissing
  <2>1. /\ route' = route /\ there' = there /\ entry' = entry /\ at = "permission"
        /\ changed' = changed /\ panicked' = panicked /\ rest' = <<>>
        /\ at' = IF isLogged THEN "log" ELSE "done"
    BY <1>6 DEF PermissionMissing, leave
  <2>2. status' \in {403, 500}
    BY <1>6, MiddlewareStatuses, SMTT(30) DEF PermissionMissing, respond
  <2>3. ~changed /\ ~panicked /\ route.chain = "guarded" /\ route \in Routes
    BY <1>1, <1>2, <2>1 DEF Early
  <2>4. 403 \in Documented(route.method, route.path)  BY <2>3, RouteFits
  <2>5. TypeOK'  BY <1>1, <2>1, <2>2, SMTT(30) DEF TypeOK, Statuses
  <2>6. Early' /\ InHandler'  BY <2>1, <2>3, SMTT(30) DEF Early, InHandler
  <2>7. Outcome'  BY <2>1, <2>2, <2>3, <2>4, SMTT(30) DEF Outcome
  <2>8. Entry'  BY <2>1, <2>3, SMTT(30) DEF Entry, isLogged, operation
  <2> QED  BY <2>5, <2>6, <2>7, <2>8 DEF IInv
<1>7. CASE PassStage
  <2>1. /\ route' = route /\ there' = there /\ at' = at /\ at = "handler" /\ rest # <<>>
        /\ status' = status /\ panicked' = panicked /\ entry' = entry
        /\ Head(rest).needs => there
        /\ rest' = Tail(rest)
    BY <1>7 DEF PassStage
  <2>2. PICK e \in Effects(Head(rest)) : changed' = (changed \/ e)  BY <1>7 DEF PassStage
  <2>3. rest \in Seq(Stages(Nat)) /\ Head(rest) \in Stages(Nat) /\ rest' \in Seq(Stages(Nat))
    BY <1>1, <2>1, FirstAndRest DEF InHandler
  <2>4. /\ changed' \in BOOLEAN
        /\ changed => changed'
        /\ Head(rest).effect = "none" => changed' = changed
        /\ Head(rest).effect = "sure" => changed'
        /\ Head(rest).effect = "row" /\ there => changed'
    <3>1. e \in BOOLEAN /\ changed \in BOOLEAN /\ there \in BOOLEAN
      BY <1>1, <2>2, Zenon DEF TypeOK, Effects
    <3>2. /\ Head(rest).effect = "none" => e = FALSE
          /\ Head(rest).effect = "sure" => e = TRUE
          /\ Head(rest).effect = "row" => e = there
      BY <2>2 DEF Effects
    <3> QED  BY <2>2, <3>1, <3>2
  <2>5. TypeOK'  BY <1>1, <2>1, <2>4, SMTT(30) DEF TypeOK
  <2>6. Early'  BY <1>1, <2>1, SMTT(30) DEF Early
  <2>7. \/ RefusesLate(route.method, route.path)
        \/ Safe(rest') /\ (changed' => Harmless(rest'))
    <3>1. CASE RefusesLate(route.method, route.path)  BY <3>1
    <3>2. CASE Safe(rest) /\ (changed => Harmless(rest))
      <4>1. Safe(rest') /\ (Head(rest).effect # "none" => Harmless(rest'))
        BY <2>1, <2>3, <3>2, SafeRest
      <4>2. Harmless(rest) => Harmless(rest')  BY <2>1, <2>3, HarmlessRest
      <4> QED  BY <2>4, <3>2, <4>1, <4>2
    <3> QED  BY <1>1, <2>1, <3>1, <3>2 DEF InHandler
  <2>8. \/ route.method = "get" \/ MayMiss(route.method, route.path)
        \/ changed' \/ WillChange(rest')
    BY <1>1, <2>1, <2>3, <2>4, ChangeOrRest DEF InHandler
  <2>9. <<route.method, route.path>> = login \/ AnswersAllowed(route, rest')
    BY <1>1, <2>1, <2>3, HarmlessRest DEF InHandler
  <2>10. InHandler'
    BY <2>1, <2>3, <2>7, <2>8, <2>9, Zenon DEF InHandler, WillChange
  <2>11. Outcome' /\ Entry'  BY <2>1, SMTT(30) DEF Outcome, Entry
  <2> QED  BY <2>5, <2>6, <2>10, <2>11 DEF IInv
<1>8. CASE Refuse
  <2>1. /\ route' = route /\ there' = there /\ at = "handler" /\ rest # <<>>
        /\ panicked' = panicked /\ entry' = entry /\ rest' = <<>>
        /\ at' = IF isLogged THEN "log" ELSE "done"
    BY <1>8 DEF Refuse, leave
  <2>2. PICK code \in Head(rest).refuses : status' = HTTPStatus(code)
    BY <1>8 DEF Refuse, respond
  <2>3. /\ changed' \in BOOLEAN
        /\ Head(rest).effect # "penalty" => changed' = changed
    <3>1. PICK e \in IF Head(rest).effect = "penalty" THEN BOOLEAN ELSE {FALSE} :
              changed' = (changed \/ e)
      BY <1>8 DEF Refuse
    <3>2. changed \in BOOLEAN  BY <1>1 DEF TypeOK
    <3> QED  BY <3>1, <3>2
  <2>4. rest \in Seq(Stages(Nat)) /\ Head(rest) \in Stages(Nat) /\ code \in Nat
    <3>1. rest \in Seq(Stages(Nat)) /\ Head(rest) \in Stages(Nat)
      BY <1>1, <2>1, FirstAndRest DEF InHandler
    <3> QED  BY <2>2, <3>1 DEF Stages
  <2>5. status' \in {400, 401, 403, 404, 409, 500}  BY <2>2, <2>4, StatusOf
  <2>6. RefusesLate(route.method, route.path) \/ ~changed'
    <3>1. CASE RefusesLate(route.method, route.path)  BY <3>1
    <3>2. CASE Safe(rest) /\ (changed => Harmless(rest))
      <4>1. changed' = changed  BY <2>1, <2>3, <2>4, <3>2, SafeRest
      <4>2. ~changed  BY <2>1, <2>2, <2>4, <3>2, HarmlessRest
      <4> QED  BY <4>1, <4>2
    <3> QED  BY <1>1, <2>1, <3>1, <3>2 DEF InHandler
  <2>7. \/ <<route.method, route.path>> = login
        \/ status' \in {401, 403, 409} => status' \in Documented(route.method, route.path)
    <3>1. <<route.method, route.path>> = login \/ Allowed(route, code)
      BY <1>1, <2>1, <2>2, <2>4, HarmlessRest DEF InHandler
    <3> QED  BY <2>2, <3>1, SMTT(30) DEF Allowed
  <2>8. ~panicked  BY <1>1, <2>1 DEF Early
  <2>9. TypeOK'  BY <1>1, <2>1, <2>3, <2>5, SMTT(30) DEF TypeOK, Statuses
  <2>10. Early' /\ InHandler'  BY <2>1, <2>8, SMTT(30) DEF Early, InHandler
  <2>11. Outcome'  BY <2>1, <2>5, <2>6, <2>7, SMTT(30) DEF Outcome
  <2>12. Entry'  BY <2>1, SMTT(30) DEF Entry, isLogged, operation
  <2> QED  BY <2>9, <2>10, <2>11, <2>12 DEF IInv
<1>9. CASE Succeed
  <2>1. /\ route' = route /\ there' = there /\ at = "handler" /\ rest = <<>>
        /\ panicked' = panicked /\ entry' = entry /\ rest' = <<>> /\ changed' = changed
        /\ at' = IF isLogged THEN "log" ELSE "done"
        /\ status' = route.ok
    BY <1>9 DEF Succeed, leave, respond
  <2>2. status' \in {200, 204, 302}  BY <1>2, <2>1, RouteFits
  <2>3. ~WillChange(rest)
    <3>1. Len(rest) = 0  BY <2>1
    <3> QED  BY <3>1, SMTT(30) DEF WillChange, Writes
  <2>4. route.method = "get" \/ MayMiss(route.method, route.path) \/ changed
    BY <1>1, <2>1, <2>3 DEF InHandler
  <2>5. ~panicked  BY <1>1, <2>1 DEF Early
  <2>6. TypeOK'  BY <1>1, <2>1, <2>2, SMTT(30) DEF TypeOK, Statuses
  <2>7. Early' /\ InHandler'  BY <2>1, <2>5, SMTT(30) DEF Early, InHandler
  <2>8. Outcome'  BY <2>1, <2>2, <2>4, SMTT(30) DEF Outcome
  <2>9. Entry'  BY <2>1, SMTT(30) DEF Entry, isLogged, operation
  <2> QED  BY <2>6, <2>7, <2>8, <2>9 DEF IInv
<1>10. CASE Panic
  <2>1. /\ route' = route /\ there' = there /\ at \in {"session", "permission", "handler"}
        /\ changed' = changed /\ entry' = entry /\ rest' = <<>>
        /\ panicked' = TRUE /\ at' = "done" /\ status' = 500
    BY <1>10, SMTT(30) DEF Panic, respond
  <2>2. TypeOK'  BY <1>1, <2>1, SMTT(30) DEF TypeOK, Statuses
  <2>3. Early' /\ InHandler'  BY <2>1, SMTT(30) DEF Early, InHandler
  <2>4. Outcome' /\ Entry'  BY <2>1, SMTT(30) DEF Outcome, Entry
  <2> QED  BY <2>2, <2>3, <2>4 DEF IInv
<1>11. CASE Log
  <2>1. /\ route' = route /\ there' = there /\ at = "log" /\ at' = "done" /\ rest' = rest
        /\ status' = status /\ changed' = changed /\ panicked' = panicked
        /\ entry' \in {IF status >= 400 THEN "FAIL" ELSE "SUCCESS", "lost"}
    BY <1>11, SMTT(30) DEF Log
  <2>2. ~panicked /\ status \in Statuses  BY <1>1, <2>1, SMTT(30) DEF Early, TypeOK
  <2>3. TypeOK'  BY <1>1, <2>1, SMTT(30) DEF TypeOK
  <2>4. Early' /\ InHandler'  BY <2>1, <2>2, SMTT(30) DEF Early, InHandler
  <2>5. Outcome'  BY <1>1, <2>1, SMTT(30) DEF Outcome
  <2>6. Entry'  BY <2>1, <2>2, SMTT(30) DEF Entry, Statuses
  <2> QED  BY <2>3, <2>4, <2>5, <2>6 DEF IInv
<1>12. CASE End
  <2>1. Init'  BY <1>12, SMTT(30) DEF End, Init
  <2> QED  BY <2>1, IInvInit, PTL
<1>13. CASE UNCHANGED vars
  BY <1>1, <1>13, SMTT(30)
  DEF vars, IInv, TypeOK, Early, InHandler, Outcome, Entry, WillChange, isLogged, operation
<1> QED
  BY <1>3, <1>4, <1>5, <1>6, <1>7, <1>8, <1>9, <1>10, <1>11, <1>12, <1>13 DEF Next

\* So it holds always.
LEMMA Invariance == Spec => []IInv
BY IInvInit, IInvNext, PTL DEF Spec

-----------------------------------------------------------------------------
(***************************************************************************)
(* What follows from it.                                                   *)
(***************************************************************************)

\* The state of a request, from the middlewares to the answer.
THEOREM TypeCorrect == Spec => []TypeOK
<1>1. IInv => TypeOK  BY DEF IInv
<1> QED  BY Invariance, <1>1, PTL

\* A request that is refused has changed nothing: no handler of any route looks at a
\* condition after its first write, but for the login and the save of an item.
THEOREM RefusalsChangeNothing == Spec => []RefusalChangesNothing
<1>1. IInv => RefusalChangesNothing
  BY SMTT(30) DEF IInv, Outcome, RefusalChangesNothing, RefusesLate, operation
<1> QED  BY Invariance, <1>1, PTL

\* Who is told that a write succeeded has written, on every route but those of Unchecked.
THEOREM SuccessesHaveEffect == Spec => []SuccessMeansEffect
<1>1. IInv => SuccessMeansEffect
  BY SMTT(30) DEF IInv, Outcome, SuccessMeansEffect, MayMiss, operation
<1> QED  BY Invariance, <1>1, PTL

\* The server answers 401, 403 and 409 only where the document names them, but for
\* the login.
THEOREM AccessIsDocumented == Spec => []AccessAsDocumented
<1>1. IInv => AccessAsDocumented
  BY SMTT(30) DEF IInv, Outcome, AccessAsDocumented, operation
<1> QED  BY Invariance, <1>1, PTL

\* What a session has changed, and what it was not permitted, is in the operation log
\* with the outcome the client was told.
THEOREM ChangesAreInTheLog == Spec => []ChangesAreLogged
<1>1. ASSUME IInv PROVE ChangesAreLogged
  <2> SUFFICES ASSUME at = "done", ~panicked, route.chain # "open",
                      changed \/ status = 403
               PROVE  \/ route.method = "get"
                      \/ operation \in {<<"put", "/system/password">>,
                                        <<"post", "/system/logout">>,
                                        <<"post", "/system/dict/cache/refresh">>}
                      \/ entry = "lost"
                      \/ entry = IF status < 400 THEN "SUCCESS" ELSE "FAIL"
    BY DEF ChangesAreLogged
  <2>1. route \in Routes  BY <1>1 DEF IInv, TypeOK
  <2>2. route.method = "get" \/ LogKnows(route.method, route.path)  BY <2>1, RouteFits
  <2>3. CASE isLogged
    BY <1>1, <2>3, SMTT(30) DEF IInv, Entry
  <2>4. CASE ~isLogged
    BY <2>2, <2>4, SMTT(30) DEF isLogged, LogKnows, operation
  <2> QED  BY <2>3, <2>4
<1> QED  BY Invariance, <1>1, PTL

=============================================================================
