-------------------------- MODULE WorkQueueProofs --------------------------
(***************************************************************************)
(* What the rename protocol of WorkQueueFS guarantees, for any number of   *)
(* producers and consumers that may all die at any time.                   *)
(***************************************************************************)
EXTENDS WorkQueueFS, FiniteSetTheorems, TLAPS

Stored == enqueued \cup dequeued
Files == Stored \cup UNION {writing[p] : p \in Producer}

\* Files are told apart by their time, which is in the past.
Stamps ==
    /\ \A f \in Files : f.stamp < clock
    /\ \A f, g \in Files : f.stamp = g.stamp => f = g
    /\ \A p \in Producer : writing[p] \cap Stored = {}
    /\ \A p, q \in Producer : p # q => writing[p] \cap writing[q] = {}
    /\ enqueued \cap dequeued = {}

\* A work is in one place: not yet pushed, in one buffer, or in one file.
Places ==
    /\ \A p \in Producer : Range(outbound[p]) \cap unsent = {}
    /\ \A p, q \in Producer : p # q => Range(outbound[p]) \cap Range(outbound[q]) = {}
    /\ \A f \in Files :
        /\ WorksOf(f) \cap unsent = {}
        /\ \A p \in Producer : WorksOf(f) \cap Range(outbound[p]) = {}
    /\ \A f, g \in Files : WorksOf(f) \cap WorksOf(g) # {} => f = g

\* A file is dequeued by one consumer.
Holders ==
    /\ \A c \in Consumer : HeldBy(c) \subseteq dequeued
    /\ \A c, d \in Consumer : c # d => HeldBy(c) \cap HeldBy(d) = {}

\* The pushes that were over when a push began are none of those under way, and
\* a listing has every file that must not be overtaken by one it has.
Past ==
    /\ \A f \in Files : \A s \in f.after : s < f.stamp
    /\ \A p \in Producer : \A f \in writing[p], g \in Files : f.stamp \notin g.after
    /\ \A c \in Consumer : listing[c] \subseteq Stored
    /\ \A c \in Consumer : \A g \in listing[c], f \in Stored :
        f.stamp \in g.after /\ f.key <= g.key => f \in listing[c] \cup dequeued

IInv == TypeOK /\ Stamps /\ Places /\ Holders

-----------------------------------------------------------------------------
\* What a buffer holds after a push into it.
LEMMA RangeAppend ==
    ASSUME NEW S, NEW s \in Seq(S), NEW w \in S
    PROVE  /\ Append(s, w) \in Seq(S) /\ Append(s, w) # <<>>
           /\ Range(Append(s, w)) = Range(s) \cup {w}
  <1>1. /\ Append(s, w) \in Seq(S)
        /\ Len(s) \in Nat /\ Len(Append(s, w)) = Len(s) + 1
        /\ DOMAIN s = 1 .. Len(s)
        /\ DOMAIN Append(s, w) = 1 .. Len(s) + 1
        /\ \A i \in 1 .. Len(s) : Append(s, w)[i] = s[i]
        /\ Append(s, w)[Len(s) + 1] = w
    OBVIOUS
  <1>2. ASSUME NEW x \in Range(Append(s, w)) PROVE x \in Range(s) \cup {w}
    <2>1. PICK i \in 1 .. Len(s) + 1 : x = Append(s, w)[i]
      BY <1>1 DEF Range
    <2>2. CASE i = Len(s) + 1  BY <1>1, <2>1, <2>2
    <2>3. CASE i # Len(s) + 1
      <3>1. i \in 1 .. Len(s)  BY <1>1, <2>3
      <3> QED  BY <1>1, <2>1, <3>1 DEF Range
    <2> QED  BY <2>2, <2>3
  <1>3. ASSUME NEW x \in Range(s) \cup {w} PROVE x \in Range(Append(s, w))
    <2>1. CASE x = w
      <3>1. Len(s) + 1 \in 1 .. Len(s) + 1  BY <1>1
      <3> QED  BY <1>1, <2>1, <3>1 DEF Range
    <2>2. CASE x \in Range(s)
      <3>1. PICK i \in 1 .. Len(s) : x = s[i]  BY <1>1, <2>2 DEF Range
      <3>2. i \in 1 .. Len(s) + 1  BY <1>1
      <3> QED  BY <1>1, <3>1, <3>2 DEF Range
    <2> QED  BY <2>1, <2>2
  <1>4. Append(s, w) # <<>>  BY <1>1
  <1> QED  BY <1>1, <1>2, <1>3, <1>4

\* The empty buffer.
LEMMA RangeEmpty == Range(<<>>) = {}
  BY DEF Range

\* What is in temp when a producer that had nothing there writes a file.
LEMMA UnionExcept ==
    ASSUME NEW P, NEW F, NEW W \in [P -> SUBSET F], NEW p \in P, W[p] = {}, NEW S,
           NEW V, V = [W EXCEPT ![p] = S]
    PROVE  UNION {V[q] : q \in P} = (UNION {W[q] : q \in P}) \cup S
  <1>1. /\ V[p] = S
        /\ \A q \in P : q # p => V[q] = W[q]
    OBVIOUS
  <1>2. ASSUME NEW x, NEW q \in P, x \in V[q]
        PROVE  x \in (UNION {W[r] : r \in P}) \cup S
    <2>1. CASE q = p  BY <1>1, <1>2, <2>1
    <2>2. CASE q # p
      <3>1. x \in W[q]  BY <1>1, <1>2, <2>2
      <3> QED  BY <3>1
    <2> QED  BY <2>1, <2>2
  <1>3. ASSUME NEW x \in S PROVE x \in UNION {V[q] : q \in P}
    BY <1>1
  <1>4. ASSUME NEW x, NEW q \in P, x \in W[q]
        PROVE  x \in UNION {V[r] : r \in P}
    <2>1. q # p  BY <1>4
    <2>2. x \in V[q]  BY <1>1, <1>4, <2>1
    <2> QED  BY <2>2
  <1>5. UNION {V[q] : q \in P} \subseteq (UNION {W[q] : q \in P}) \cup S
    BY <1>2
  <1>6. UNION {W[q] : q \in P} \subseteq UNION {V[q] : q \in P}
    BY <1>4
  <1> QED  BY <1>3, <1>5, <1>6

\* What a push that begins writes.
NewFile(ws) == [works |-> ws, key |-> Key[ws[1]], stamp |-> clock,
                after |-> {f.stamp : f \in Stored}]

\* The new file has a type, a time of its own, and the works it was given.
LEMMA DumpFacts ==
    ASSUME TypeOK, Stamps, NEW p \in Producer, writing[p] = {},
           NEW ws \in Seq(Work), ws # <<>>, Dump(p, ws), UNCHANGED dirVars
    PROVE  /\ NewFile(ws) \in File /\ NewFile(ws) \notin Files
           /\ NewFile(ws).stamp = clock
           /\ WorksOf(NewFile(ws)) = Range(ws)
           /\ writing' = [writing EXCEPT ![p] = {NewFile(ws)}]
           /\ Stored' = Stored /\ Files' = Files \cup {NewFile(ws)}
           /\ clock \in Nat /\ clock' = clock + 1
  <1> DEFINE new == NewFile(ws)
  <1>1. /\ writing' = [writing EXCEPT ![p] = {new}]
        /\ clock \in Nat /\ clock' = clock + 1
    BY DEF Dump, NewFile, Stored, TypeOK
  <1>2. new \in File
    <2>1. ws[1] \in Work  OBVIOUS
    <2>2. Key[ws[1]] \in Nat  BY <2>1, WorkQueueAssumption
    <2>3. {f.stamp : f \in Stored} \in SUBSET Nat  BY DEF Stored, TypeOK, File
    <2> QED  BY <1>1, <2>2, <2>3 DEF NewFile, File
  <1>3. new.stamp = clock /\ WorksOf(new) = Range(ws)
    BY DEF NewFile, WorksOf
  <1>4. new \notin Files
    <2>1. ASSUME new \in Files PROVE FALSE
      <3>1. new.stamp < clock  BY <2>1 DEF Stamps
      <3> QED  BY <1>1, <1>3, <3>1
    <2> QED  BY <2>1
  <1>5. Stored' = Stored  BY DEF Stored, dirVars
  <1>6. Files' = Files \cup {new}
    <2>1. writing \in [Producer -> SUBSET File]  BY DEF TypeOK
    <2>2. UNION {writing'[q] : q \in Producer} =
            (UNION {writing[q] : q \in Producer}) \cup {new}
      <3>1. writing[p] = {} /\ writing' = [writing EXCEPT ![p] = {new}]
        BY <1>1
      <3> HIDE DEF new
      <3> QED  BY ONLY <2>1, <3>1, p \in Producer, UnionExcept
    <2> QED  BY <1>5, <2>2 DEF Files
  <1> QED  BY <1>1, <1>2, <1>3, <1>4, <1>5, <1>6

-----------------------------------------------------------------------------
\* The invariant holds at the start.
LEMMA InitIInv == Init => IInv /\ Past
  <1> SUFFICES ASSUME Init PROVE IInv /\ Past
    OBVIOUS
  <1>1. Files = {} /\ Stored = {}  BY DEF Init, Files, Stored
  <1>2. TypeOK  BY DEF Init, TypeOK
  <1>3. Stamps  BY <1>1 DEF Init, Stamps
  <1>4. Places  BY <1>1, RangeEmpty DEF Init, Places
  <1>5. Holders  BY DEF Init, Holders, HeldBy
  <1>6. Past  BY <1>1 DEF Init, Past
  <1> QED  BY <1>2, <1>3, <1>4, <1>5, <1>6 DEF IInv

\* The step that begins a push of the works ws, which are nowhere else.
DumpStep(p, ws) ==
    /\ ws # <<>> /\ writing[p] = {} /\ Dump(p, ws)
    /\ outbound' = [outbound EXCEPT ![p] = <<>>]
    /\ unsent' \subseteq unsent
    /\ Range(ws) \cap unsent' = {}
    /\ Range(ws) \subseteq Range(outbound[p]) \cup unsent
    /\ UNCHANGED <<dirVars, popVars, dead>>

\* Push and Flush are both such a step.
LEMMA PushIsDump ==
    ASSUME TypeOK, Places, NEW p \in Producer,
           Flush(p) \/ \E w \in unsent : Push(p, w)
    PROVE  \E ws \in Seq(Work) : DumpStep(p, ws)
  <1>0. outbound[p] \in Seq(Work) /\ unsent \subseteq Work  BY DEF TypeOK
  <1>1. CASE Flush(p)
    <2>1. DumpStep(p, outbound[p])
      BY <1>1 DEF Flush, Free, DumpStep, Places
    <2> QED  BY <1>0, <2>1
  <1>2. ASSUME NEW w \in unsent, Push(p, w) PROVE DumpStep(p, Append(outbound[p], w))
    <2>1. /\ Append(outbound[p], w) # <<>>
          /\ Range(Append(outbound[p], w)) = Range(outbound[p]) \cup {w}
      BY <1>0, RangeAppend
    <2>2. Range(outbound[p]) \cap unsent = {}  BY DEF Places
    <2> QED  BY <1>2, <2>1, <2>2 DEF Push, Free, DumpStep
  <1>3. ASSUME NEW w \in unsent PROVE Append(outbound[p], w) \in Seq(Work)
    BY <1>0, RangeAppend
  <1> QED  BY <1>1, <1>2, <1>3

\* Every step keeps the types.
LEMMA NextTypeOK == TypeOK /\ Stamps /\ Places /\ [Next]_vars => TypeOK'
  <1> SUFFICES ASSUME TypeOK, Stamps, Places, [Next]_vars PROVE TypeOK'
    OBVIOUS
  <1>1. ASSUME NEW p \in Producer, NEW w \in unsent, PushBuffered(p, w) PROVE TypeOK'
    <2>1. w \in Work /\ Append(outbound[p], w) \in Seq(Work)
      BY RangeAppend DEF TypeOK
    <2> QED
      BY <1>1, <2>1 DEF PushBuffered, TypeOK, dirVars, popVars
  <1>2. ASSUME NEW p \in Producer, NEW ws \in Seq(Work), DumpStep(p, ws) PROVE TypeOK'
    <2>1. /\ writing' = [writing EXCEPT ![p] = {NewFile(ws)}]
          /\ NewFile(ws) \in File /\ clock' \in Nat
      BY <1>2, DumpFacts DEF DumpStep
    <2>2. outbound' \in [Producer -> Seq(Work)] /\ unsent' \subseteq Work
      BY <1>2 DEF DumpStep, TypeOK
    <2> QED  BY <1>2, <2>1, <2>2 DEF DumpStep, TypeOK, dirVars, popVars
  <1>3. ASSUME NEW p \in Producer, Enqueue(p) PROVE TypeOK'
    BY <1>3 DEF Enqueue, TypeOK, popVars
  <1>4. ASSUME NEW c \in Consumer, List(c) PROVE TypeOK'
    BY <1>4 DEF List, TypeOK, pushVars, dirVars
  <1>5. ASSUME NEW c \in Consumer, Return(c) PROVE TypeOK'
    BY <1>5 DEF Return, TypeOK, pushVars, dirVars
  <1>6. ASSUME NEW c \in Consumer, NEW f \in listing[c], Take(c, f) PROVE TypeOK'
    BY <1>6 DEF Take, TypeOK, pushVars
  <1>7. ASSUME NEW c \in Consumer, NEW f \in listing[c], Miss(c, f) PROVE TypeOK'
    BY <1>7 DEF Miss, TypeOK, pushVars, dirVars
  <1>8. ASSUME NEW x \in Mortal, Die(x) PROVE TypeOK'
    BY <1>8 DEF Die, TypeOK, pushVars, dirVars, popVars
  <1>9. CASE UNCHANGED vars
    BY <1>9 DEF vars, TypeOK, pushVars, dirVars, popVars
  <1> QED
    BY <1>1, <1>2, <1>3, <1>4, <1>5, <1>6, <1>7, <1>8, <1>9, PushIsDump DEF Next

\* A file changes its place when a push ends or a consumer takes it, and not
\* otherwise.
LEMMA FilesMove ==
    ASSUME TypeOK, Stamps
    PROVE  /\ \A p \in Producer : Enqueue(p) =>
                Files' = Files /\ Stored' = Stored \cup writing[p]
           /\ \A c \in Consumer, f \in File : Take(c, f) =>
                Files' = Files /\ Stored' = Stored
           /\ UNCHANGED <<writing, dirVars>> => Files' = Files /\ Stored' = Stored
  <1>1. ASSUME NEW p \in Producer, Enqueue(p)
        PROVE  Files' = Files /\ Stored' = Stored \cup writing[p]
    <2>1. Stored' = Stored \cup writing[p]  BY <1>1 DEF Enqueue, Stored
    <2>2. /\ writing'[p] = {}
          /\ \A q \in Producer : q # p => writing'[q] = writing[q]
      BY <1>1 DEF Enqueue, TypeOK
    <2>3. \A f : f \in Files' <=> f \in Files
      <3>1. \A f : f \in UNION {writing'[q] : q \in Producer} <=>
                    \E q \in Producer : q # p /\ f \in writing[q]
        BY <2>2
      <3> QED  BY <2>1, <3>1 DEF Files
    <2> QED  BY <2>1, <2>3
  <1>2. ASSUME NEW c \in Consumer, NEW f \in File, Take(c, f)
        PROVE  Files' = Files /\ Stored' = Stored
    <2>1. Stored' = Stored  BY <1>2 DEF Take, Stored
    <2> QED  BY <1>2, <2>1 DEF Take, Files, pushVars
  <1>3. ASSUME UNCHANGED <<writing, dirVars>> PROVE Files' = Files /\ Stored' = Stored
    BY <1>3 DEF Files, Stored, dirVars
  <1> QED  BY <1>1, <1>2, <1>3

\* Files keep distinct times, and a file is in one directory.
LEMMA NextStamps == TypeOK /\ Stamps /\ Places /\ [Next]_vars => Stamps'
  <1> SUFFICES ASSUME TypeOK, Stamps, Places, [Next]_vars PROVE Stamps'
    OBVIOUS
  <1>1. ASSUME UNCHANGED <<writing, clock, dirVars>> PROVE Stamps'
    <2>1. Files' = Files /\ Stored' = Stored  BY <1>1, FilesMove
    <2> QED  BY <1>1, <2>1 DEF Stamps, dirVars
  <1>2. ASSUME NEW p \in Producer, NEW ws \in Seq(Work), DumpStep(p, ws) PROVE Stamps'
    <2> DEFINE new == NewFile(ws)
    <2>1. /\ new \notin Files /\ new.stamp = clock
          /\ writing' = [writing EXCEPT ![p] = {new}]
          /\ Stored' = Stored /\ Files' = Files \cup {new}
          /\ clock \in Nat /\ clock' = clock + 1
      BY <1>2, DumpFacts DEF DumpStep
    <2> HIDE DEF new
    <2>2. \A f \in Files : f.stamp \in Nat /\ f.stamp < clock
      BY DEF Stamps, Files, Stored, TypeOK, File
    <2>3. \A f \in Files' : f.stamp < clock'  BY <2>1, <2>2
    <2>4. \A f, g \in Files' : f.stamp = g.stamp => f = g
      BY <2>1, <2>2 DEF Stamps
    <2>5. \A q \in Producer : writing'[q] = IF q = p THEN {new} ELSE writing[q]
      BY <2>1 DEF TypeOK
    <2>6. \A q \in Producer : writing[q] \subseteq Files  BY DEF Files
    <2>7. Stored \subseteq Files  BY DEF Files
    <2>8. \A q \in Producer : writing'[q] \cap Stored' = {}
      BY <2>1, <2>5, <2>7 DEF Stamps
    <2>9. \A q, r \in Producer : q # r => writing'[q] \cap writing'[r] = {}
      BY <2>1, <2>5, <2>6 DEF Stamps
    <2>10. (enqueued \cap dequeued = {})'
      BY <1>2 DEF DumpStep, dirVars, Stamps
    <2> QED  BY <2>3, <2>4, <2>8, <2>9, <2>10 DEF Stamps
  <1>3. ASSUME NEW p \in Producer, Enqueue(p) PROVE Stamps'
    <2>1. Files' = Files /\ Stored' = Stored \cup writing[p]  BY <1>3, FilesMove
    <2>2. \A q \in Producer : writing'[q] = IF q = p THEN {} ELSE writing[q]
      BY <1>3 DEF Enqueue, TypeOK
    <2>3. \A q \in Producer : writing'[q] \cap Stored' = {}
      BY <2>1, <2>2 DEF Stamps
    <2>4. \A q, r \in Producer : q # r => writing'[q] \cap writing'[r] = {}
      BY <2>2 DEF Stamps
    <2>5. (enqueued \cap dequeued = {})'
      BY <1>3 DEF Enqueue, Stamps, Stored
    <2> QED  BY <1>3, <2>1, <2>3, <2>4, <2>5 DEF Enqueue, Stamps
  <1>4. ASSUME NEW c \in Consumer, NEW f \in listing[c], Take(c, f) PROVE Stamps'
    <2>1. Files' = Files /\ Stored' = Stored
      BY <1>4, FilesMove DEF TypeOK
    <2>2. (enqueued \cap dequeued = {})'
      BY <1>4 DEF Take, Stamps
    <2> QED  BY <1>4, <2>1, <2>2 DEF Take, Stamps, pushVars
  <1>5. ASSUME NEW p \in Producer, NEW w \in unsent, PushBuffered(p, w)
        PROVE  UNCHANGED <<writing, clock, dirVars>>
    BY <1>5 DEF PushBuffered
  <1>6. ASSUME NEW c \in Consumer,
               List(c) \/ Return(c) \/ \E f \in listing[c] : Miss(c, f)
        PROVE  UNCHANGED <<writing, clock, dirVars>>
    BY <1>6 DEF List, Return, Miss, pushVars
  <1>7. ASSUME NEW x \in Mortal, Die(x) PROVE UNCHANGED <<writing, clock, dirVars>>
    BY <1>7 DEF Die, pushVars
  <1>8. CASE UNCHANGED vars
    BY <1>1, <1>8 DEF vars, pushVars
  <1> QED
    BY <1>1, <1>2, <1>3, <1>4, <1>5, <1>6, <1>7, <1>8, PushIsDump DEF Next

\* No work comes to be in two places.
LEMMA NextPlaces == TypeOK /\ Stamps /\ Places /\ [Next]_vars => Places'
  <1> SUFFICES ASSUME TypeOK, Stamps, Places, [Next]_vars PROVE Places'
    OBVIOUS
  <1>1. ASSUME UNCHANGED <<unsent, outbound>>, Files' = Files PROVE Places'
    BY <1>1 DEF Places
  <1>2. ASSUME NEW p \in Producer, NEW w \in unsent, PushBuffered(p, w) PROVE Places'
    <2>1. Files' = Files  BY <1>2, FilesMove DEF PushBuffered
    <2>2. outbound[p] \in Seq(Work) /\ w \in Work  BY DEF TypeOK
    <2>3. Range(Append(outbound[p], w)) = Range(outbound[p]) \cup {w}
      BY <2>2, RangeAppend
    <2>4. /\ Range(outbound'[p]) = Range(outbound[p]) \cup {w}
          /\ \A q \in Producer : q # p => Range(outbound'[q]) = Range(outbound[q])
          /\ unsent' = unsent \ {w}
      BY <1>2, <2>3 DEF PushBuffered, TypeOK
    <2>5. \A q \in Producer : Range(outbound'[q]) \cap unsent' = {}
      BY <2>4 DEF Places
    <2>6. \A q, r \in Producer :
            q # r => Range(outbound'[q]) \cap Range(outbound'[r]) = {}
      BY <2>4 DEF Places
    <2>7. \A f \in Files : WorksOf(f) \cap unsent' = {}
      BY <2>4 DEF Places
    <2>8. \A f \in Files, q \in Producer : WorksOf(f) \cap Range(outbound'[q]) = {}
      BY <2>4 DEF Places
    <2> QED  BY <2>1, <2>5, <2>6, <2>7, <2>8 DEF Places
  <1>3. ASSUME NEW p \in Producer, NEW ws \in Seq(Work), DumpStep(p, ws) PROVE Places'
    <2> DEFINE new == NewFile(ws)
    <2>1. /\ Files' = Files \cup {new} /\ WorksOf(new) = Range(ws)
      BY <1>3, DumpFacts DEF DumpStep
    <2> HIDE DEF new
    <2>2. /\ Range(outbound'[p]) = {}
          /\ \A q \in Producer : q # p => Range(outbound'[q]) = Range(outbound[q])
      BY <1>3, RangeEmpty DEF DumpStep, TypeOK
    <2>3. /\ Range(ws) \cap unsent' = {} /\ unsent' \subseteq unsent
          /\ Range(ws) \subseteq Range(outbound[p]) \cup unsent
      BY <1>3 DEF DumpStep
    <2>4. \A q \in Producer : Range(outbound'[q]) \cap unsent' = {}
      BY <2>2, <2>3 DEF Places
    <2>5. \A q, r \in Producer :
            q # r => Range(outbound'[q]) \cap Range(outbound'[r]) = {}
      BY <2>2 DEF Places
    <2>6. \A f \in Files' : WorksOf(f) \cap unsent' = {}
      BY <2>1, <2>3 DEF Places
    <2>7. \A f \in Files', q \in Producer : WorksOf(f) \cap Range(outbound'[q]) = {}
      BY <2>1, <2>2, <2>3 DEF Places
    <2>8. \A f \in Files : WorksOf(f) \cap WorksOf(new) = {}
      BY <2>1, <2>3 DEF Places
    <2>9. \A f, g \in Files' : WorksOf(f) \cap WorksOf(g) # {} => f = g
      BY <2>1, <2>8 DEF Places
    <2> QED  BY <2>4, <2>5, <2>6, <2>7, <2>9 DEF Places
  <1>4. ASSUME NEW p \in Producer, Enqueue(p) PROVE Places'
    BY <1>1, <1>4, FilesMove DEF Enqueue
  <1>5. ASSUME NEW c \in Consumer, NEW f \in listing[c], Take(c, f) PROVE Places'
    <2>1. f \in File  BY DEF TypeOK
    <2> QED  BY <1>1, <1>5, <2>1, FilesMove DEF Take, pushVars
  <1>6. ASSUME NEW c \in Consumer,
               List(c) \/ Return(c) \/ \E f \in listing[c] : Miss(c, f)
        PROVE  Places'
    BY <1>1, <1>6, FilesMove DEF List, Return, Miss, pushVars
  <1>7. ASSUME NEW x \in Mortal, Die(x) PROVE Places'
    BY <1>1, <1>7, FilesMove DEF Die, pushVars
  <1>8. CASE UNCHANGED vars
    BY <1>1, <1>8, FilesMove DEF vars, pushVars
  <1> QED
    BY <1>2, <1>3, <1>4, <1>5, <1>6, <1>7, <1>8, PushIsDump DEF Next

\* A file that is renamed was in the directory of enqueued files, so no consumer
\* held it.
LEMMA NextHolders == TypeOK /\ Stamps /\ Holders /\ [Next]_vars => Holders'
  <1> SUFFICES ASSUME TypeOK, Stamps, Holders, [Next]_vars PROVE Holders'
    OBVIOUS
  <1>1. ASSUME UNCHANGED <<items, returned, dequeued>> PROVE Holders'
    BY <1>1 DEF Holders, HeldBy
  <1>2. ASSUME NEW c \in Consumer, NEW f \in listing[c], Take(c, f) PROVE Holders'
    <2>1. /\ HeldBy(c)' = HeldBy(c) \cup {f}
          /\ \A d \in Consumer : d # c => HeldBy(d)' = HeldBy(d)
      BY <1>2 DEF Take, HeldBy, TypeOK
    <2>2. f \notin dequeued /\ dequeued' = dequeued \cup {f}
      BY <1>2 DEF Take, Stamps
    <2>3. \A d \in Consumer : f \notin HeldBy(d)
      BY <2>2 DEF Holders
    <2>4. \A d \in Consumer : HeldBy(d)' \subseteq dequeued'
      BY <2>1, <2>2 DEF Holders
    <2>5. \A d, e \in Consumer : d # e => HeldBy(d)' \cap HeldBy(e)' = {}
      <3> TAKE d, e \in Consumer
      <3> HAVE d # e
      <3>1. HeldBy(d) \cap HeldBy(e) = {}  BY DEF Holders
      <3> QED  BY <2>1, <2>3, <3>1
    <2> QED  BY <2>4, <2>5 DEF Holders
  <1>3. ASSUME NEW c \in Consumer, Return(c) PROVE Holders'
    <2>1. \A d \in Consumer : HeldBy(d)' = HeldBy(d)
      BY <1>3 DEF Return, HeldBy, TypeOK
    <2>2. dequeued' = dequeued  BY <1>3 DEF Return, dirVars
    <2> QED  BY <2>1, <2>2 DEF Holders
  <1>4. ASSUME NEW p \in Producer,
               Flush(p) \/ Enqueue(p) \/
               \E w \in unsent : PushBuffered(p, w) \/ Push(p, w)
        PROVE  UNCHANGED <<items, returned, dequeued>>
    BY <1>4 DEF Flush, Enqueue, PushBuffered, Push, popVars, dirVars
  <1>5. ASSUME NEW c \in Consumer, List(c) \/ \E f \in listing[c] : Miss(c, f)
        PROVE  UNCHANGED <<items, returned, dequeued>>
    BY <1>5 DEF List, Miss, dirVars
  <1>6. ASSUME NEW x \in Mortal, Die(x) PROVE UNCHANGED <<items, returned, dequeued>>
    BY <1>6 DEF Die, popVars, dirVars
  <1>7. CASE UNCHANGED vars
    BY <1>1, <1>7 DEF vars, popVars, dirVars
  <1> QED  BY <1>1, <1>2, <1>3, <1>4, <1>5, <1>6, <1>7 DEF Next

\* The invariant holds in every reachable state.
LEMMA InvariantCorrect == Spec => []IInv
  <1>1. IInv /\ [Next]_vars => IInv'
    BY NextTypeOK, NextStamps, NextPlaces, NextHolders DEF IInv
  <1> QED  BY <1>1, InitIInv, PTL DEF Spec

\* A work is handed out once, by whatever consumers race for it
\* (WorkQueueOnFilesystem._pop_unbuffered) and through whatever batches it went.
THEOREM HandedOutOnceCorrect == Spec => []HandedOutOnce
  <1>1. IInv => HandedOutOnce
    <2> SUFFICES ASSUME IInv, NEW c \in Consumer, NEW d \in Consumer,
                        NEW f \in HeldBy(c), NEW g \in HeldBy(d),
                        WorksOf(f) \cap WorksOf(g) # {}
                 PROVE  f = g /\ c = d
      BY DEF HandedOutOnce
    <2>1. f \in Files /\ g \in Files
      BY DEF IInv, Holders, Files, Stored
    <2>2. f = g  BY <2>1 DEF IInv, Places
    <2>3. c = d  BY <2>2 DEF IInv, Holders
    <2> QED  BY <2>2, <2>3
  <1> QED  BY <1>1, InvariantCorrect, PTL

-----------------------------------------------------------------------------
\* A file does not come before one of an earlier or equal key and an earlier time.
LEMMA NotBothBefore ==
    ASSUME NEW f \in File, NEW g \in File, f.key <= g.key, f.stamp < g.stamp
    PROVE  ~Before(g, f)
  BY DEF File, Before

\* A step that leaves the files in place keeps Past if the consumer's listing does.
LEMMA PastUnchanged ==
    ASSUME Past, UNCHANGED writing, dequeued \subseteq dequeued',
           Files' = Files, Stored' = Stored,
           NEW c \in Consumer,
           \A d \in Consumer : d # c => listing'[d] = listing[d],
           listing'[c] \subseteq Stored,
           \A g \in listing'[c], f \in Stored :
              f.stamp \in g.after /\ f.key <= g.key => f \in listing'[c] \cup dequeued'
    PROVE  Past'
  BY DEF Past

\* Pushes that begin and end, and listings that shrink, keep Past.
LEMMA NextPast == IInv /\ Past /\ [Next]_vars => Past'
  <1> SUFFICES ASSUME TypeOK, Stamps, Places, Past, [Next]_vars PROVE Past'
    BY DEF IInv
  <1>1. ASSUME UNCHANGED <<writing, dirVars, listing>> PROVE Past'
    BY <1>1, FilesMove DEF Past, dirVars
  <1>2. ASSUME NEW p \in Producer, NEW ws \in Seq(Work), DumpStep(p, ws) PROVE Past'
    <2> DEFINE new == NewFile(ws)
    <2>1. /\ new \notin Files /\ new.stamp = clock
          /\ writing' = [writing EXCEPT ![p] = {new}]
          /\ Stored' = Stored /\ Files' = Files \cup {new}
          /\ clock \in Nat
      BY <1>2, DumpFacts DEF DumpStep
    <2>2. new.after = {f.stamp : f \in Stored}  BY DEF NewFile
    <2> HIDE DEF new
    <2>3. Stored \subseteq Files /\ \A q \in Producer : writing[q] \subseteq Files
      BY DEF Files
    <2>4. \A f \in Files : f \in File /\ f.stamp \in Nat /\ f.stamp < clock
      BY DEF Stamps, Files, Stored, TypeOK, File
    <2>5. \A f \in Files' : \A s \in f.after : s < f.stamp
      BY <2>1, <2>2, <2>3, <2>4 DEF Past
    <2>6. \A g \in Files' : clock \notin g.after
      <3>1. ASSUME NEW g \in Files, clock \in g.after PROVE FALSE
        <4>1. clock < g.stamp  BY <3>1 DEF Past
        <4>2. g.stamp \in Nat /\ g.stamp < clock  BY <2>4
        <4> QED  BY <2>1, <4>1, <4>2
      <3>2. clock \notin new.after  BY <2>1, <2>2, <2>3, <2>4
      <3> QED  BY <2>1, <3>1, <3>2
    <2>7. \A q \in Producer : \A f \in writing[q] : f.stamp \notin new.after
      <3> SUFFICES ASSUME NEW q \in Producer, NEW f \in writing[q],
                          NEW g \in Stored, f.stamp = g.stamp
                   PROVE  FALSE
        BY <2>2
      <3>1. f = g  BY <2>3 DEF Stamps
      <3> QED  BY <3>1 DEF Stamps
    <2>8. \A q \in Producer : writing'[q] = IF q = p THEN {new} ELSE writing[q]
      BY <2>1 DEF TypeOK
    <2>9. \A q \in Producer : \A f \in writing'[q], g \in Files' : f.stamp \notin g.after
      BY <2>1, <2>6, <2>7, <2>8 DEF Past
    <2>10. listing' = listing /\ dequeued' = dequeued
      BY <1>2 DEF DumpStep, popVars, dirVars
    <2> QED  BY <2>1, <2>5, <2>9, <2>10 DEF Past
  <1>3. ASSUME NEW p \in Producer, Enqueue(p) PROVE Past'
    <2>1. Files' = Files /\ Stored' = Stored \cup writing[p]  BY <1>3, FilesMove
    <2>2. listing' = listing /\ dequeued' = dequeued
      BY <1>3 DEF Enqueue, popVars
    <2>3. \A q \in Producer : writing'[q] = IF q = p THEN {} ELSE writing[q]
      BY <1>3 DEF Enqueue, TypeOK
    <2>4. \A c \in Consumer : \A g \in listing[c], f \in writing[p] : f.stamp \notin g.after
      BY DEF Past, Files
    <2>5. \A f \in Files' : \A s \in f.after : s < f.stamp
      BY <2>1 DEF Past
    <2>6. \A q \in Producer : \A f \in writing'[q], g \in Files' : f.stamp \notin g.after
      BY <2>1, <2>3 DEF Past
    <2>7. \A c \in Consumer : listing'[c] \subseteq Stored'
      BY <2>1, <2>2 DEF Past
    <2>8. \A c \in Consumer : \A g \in listing'[c], f \in Stored' :
            f.stamp \in g.after /\ f.key <= g.key => f \in listing'[c] \cup dequeued'
      BY <2>1, <2>2, <2>4 DEF Past
    <2> QED  BY <2>5, <2>6, <2>7, <2>8 DEF Past
  <1>4. ASSUME NEW c \in Consumer, List(c) PROVE Past'
    <2>1. Files' = Files /\ Stored' = Stored
      BY <1>4, FilesMove DEF List, pushVars
    <2>2. /\ listing'[c] = enqueued
          /\ \A d \in Consumer : d # c => listing'[d] = listing[d]
          /\ UNCHANGED <<writing, dequeued>>
      BY <1>4 DEF List, TypeOK, pushVars, dirVars
    <2>3. enqueued \subseteq Stored /\ Stored \subseteq enqueued \cup dequeued
      BY DEF Stored
    <2> QED  BY <2>1, <2>2, <2>3, PastUnchanged
  <1>5. ASSUME NEW c \in Consumer, NEW f \in listing[c], Take(c, f) PROVE Past'
    <2>0. f \in File  BY DEF TypeOK
    <2>1. Files' = Files /\ Stored' = Stored  BY <1>5, <2>0, FilesMove
    <2>2. /\ listing'[c] = listing[c] \ {f}
          /\ \A d \in Consumer : d # c => listing'[d] = listing[d]
          /\ writing' = writing /\ dequeued' = dequeued \cup {f}
      BY <1>5 DEF Take, TypeOK, pushVars
    <2>3. listing'[c] \subseteq Stored  BY <2>2 DEF Past
    <2>4. \A g \in listing'[c], h \in Stored :
            h.stamp \in g.after /\ h.key <= g.key => h \in listing'[c] \cup dequeued'
      BY <2>2 DEF Past
    <2> QED  BY <2>1, <2>2, <2>3, <2>4, PastUnchanged
  <1>6. ASSUME NEW c \in Consumer, NEW f \in listing[c], Miss(c, f) PROVE Past'
    <2>1. Files' = Files /\ Stored' = Stored
      BY <1>6, FilesMove DEF Miss, pushVars
    <2>2. /\ listing'[c] = IF items[c] = {} THEN listing[c] \ {f} ELSE {}
          /\ \A d \in Consumer : d # c => listing'[d] = listing[d]
          /\ UNCHANGED <<writing, dequeued>> /\ f \notin enqueued
      BY <1>6 DEF Miss, TypeOK, pushVars, dirVars
    <2>3. listing'[c] \subseteq Stored  BY <2>2 DEF Past
    <2>4. f \in dequeued  BY <2>2 DEF Past, Stored
    <2>5. \A g \in listing'[c], h \in Stored :
            h.stamp \in g.after /\ h.key <= g.key => h \in listing'[c] \cup dequeued'
      BY <2>2, <2>4 DEF Past
    <2> QED  BY <2>1, <2>2, <2>3, <2>5, PastUnchanged
  <1>7. ASSUME NEW c \in Consumer, Return(c) PROVE Past'
    <2>1. Files' = Files /\ Stored' = Stored
      BY <1>7, FilesMove DEF Return, pushVars
    <2>2. /\ listing'[c] = {}
          /\ \A d \in Consumer : d # c => listing'[d] = listing[d]
          /\ UNCHANGED <<writing, dequeued>>
      BY <1>7 DEF Return, TypeOK, pushVars, dirVars
    <2> QED  BY <2>1, <2>2, PastUnchanged
  <1>8. ASSUME NEW p \in Producer, NEW w \in unsent, PushBuffered(p, w) PROVE Past'
    BY <1>1, <1>8 DEF PushBuffered, popVars
  <1>9. ASSUME NEW x \in Mortal, Die(x) PROVE Past'
    BY <1>1, <1>9 DEF Die, pushVars, popVars
  <1>10. CASE UNCHANGED vars
    BY <1>1, <1>10 DEF vars, pushVars, popVars
  <1> QED
    BY <1>2, <1>3, <1>4, <1>5, <1>6, <1>7, <1>8, <1>9, <1>10, PushIsDump DEF Next

\* The first of two pushes, one after the other, with an earlier or equal key is
\* popped first, although nothing locks the queue (_pop_unbuffered with sort).
THEOREM NoOvertakingCorrect == Spec => []NoOvertaking
  <1>1. Init => NoOvertaking  BY DEF Init, NoOvertaking
  <1>2. IInv /\ Past /\ NoOvertaking /\ [Next]_vars => NoOvertaking'
    <2> SUFFICES ASSUME TypeOK, Stamps, Places, Past, NoOvertaking, [Next]_vars
                 PROVE  NoOvertaking'
      BY DEF IInv
    <2>1. ASSUME UNCHANGED dirVars PROVE NoOvertaking'
      BY <2>1 DEF NoOvertaking, dirVars
    <2>2. ASSUME NEW p \in Producer, Enqueue(p) PROVE NoOvertaking'
      <3>1. /\ enqueued' = enqueued \cup writing[p] /\ dequeued' = dequeued
        BY <2>2 DEF Enqueue
      <3>2. \A f \in writing[p], g \in dequeued : f.stamp \notin g.after
        BY DEF Past, Files, Stored
      <3>3. writing[p] \cap dequeued = {}  BY DEF Stamps, Stored
      <3> QED  BY <3>1, <3>2, <3>3 DEF NoOvertaking
    <2>3. ASSUME NEW c \in Consumer, NEW g \in listing[c], Take(c, g)
          PROVE  NoOvertaking'
      <3>1. /\ enqueued' = enqueued \ {g} /\ dequeued' = dequeued \cup {g}
            /\ g \in enqueued
            /\ \A f \in listing[c] \ {g} : Before(g, f)
        BY <2>3 DEF Take, NextEntry
      <3>2. ASSUME NEW f \in Stored, f.stamp \in g.after, f.key <= g.key
            PROVE  f \in dequeued'
        <4>1. f \in listing[c] \cup dequeued  BY <3>2 DEF Past
        <4>2. f.stamp < g.stamp  BY <3>1, <3>2 DEF Past, Files, Stored
        <4>3. f \in File /\ g \in File  BY DEF Stored, TypeOK
        <4>4. ~Before(g, f)  BY <3>2, <4>2, <4>3, NotBothBefore
        <4> QED  BY <3>1, <4>1, <4>4
      <3> QED  BY <3>1, <3>2 DEF NoOvertaking, Stored
    <2>4. ASSUME NEW p \in Producer,
                 Flush(p) \/ \E w \in unsent : PushBuffered(p, w) \/ Push(p, w)
          PROVE  NoOvertaking'
      BY <2>1, <2>4 DEF Flush, PushBuffered, Push
    <2>5. ASSUME NEW c \in Consumer,
                 List(c) \/ Return(c) \/ \E f \in listing[c] : Miss(c, f)
          PROVE  NoOvertaking'
      BY <2>1, <2>5 DEF List, Return, Miss
    <2>6. ASSUME NEW x \in Mortal, Die(x) PROVE NoOvertaking'
      BY <2>1, <2>6 DEF Die
    <2>7. CASE UNCHANGED vars
      BY <2>1, <2>7 DEF vars
    <2> QED  BY <2>2, <2>3, <2>4, <2>5, <2>6, <2>7 DEF Next
  <1> QED  BY <1>1, <1>2, InitIInv, NextPast, InvariantCorrect, PTL DEF Spec

-----------------------------------------------------------------------------
(* The refinement: with one consumer, push and pop are atomic. *)

\* A set of sets of a finite set has a least element: some x has the least F[x].
LEMMA LeastSet ==
    ASSUME NEW T, IsFiniteSet(T), T # {}, NEW F \in [T -> SUBSET T]
    PROVE  \E x \in T : \A y \in T : F[y] \subseteq F[x] => F[y] = F[x]
  <1> DEFINE U == {F[x] : x \in T}
  <1>1. U \subseteq FiniteSubsetsOf(T) /\ U # {}
    BY FS_FiniteSubsetsOfFinite
  <1>2. PICK u \in U : \A v \in U : ~(<<v, u>> \in StrictSubsetOrdering(T))
    <2> HIDE DEF U
    <2>1. IsWellFoundedOn(StrictSubsetOrdering(T), FiniteSubsetsOf(T))
      BY FS_StrictSubsetOrderingWellFounded
    <2> QED  BY <1>1, <2>1, WFMin
  <1>3. PICK x \in T : u = F[x]
    OBVIOUS
  <1>4. ASSUME NEW y \in T, F[y] \subseteq F[x], F[y] # F[x] PROVE FALSE
    <2>1. <<F[y], F[x]>> \in StrictSubsetOrdering(T)
      BY <1>4 DEF StrictSubsetOrdering
    <2> QED  BY <1>2, <1>3, <2>1
  <1> QED  BY <1>4

\* Files of which no two have the same time.
Distinct(T) == T \subseteq File /\ \A f, g \in T : f.stamp = g.stamp => f = g

\* Their names are in a strict order.
LEMMA BeforeOrders ==
    ASSUME NEW T, Distinct(T)
    PROVE  /\ \A f, g \in T : f = g \/ Before(f, g) \/ Before(g, f)
           /\ \A f, g \in T : Before(f, g) => f # g /\ ~Before(g, f)
           /\ \A f, g, h \in T : Before(f, g) /\ Before(g, h) => Before(f, h)
  <1>1. \A f \in T : f.key \in Nat /\ f.stamp \in Nat
    BY DEF Distinct, File
  <1> QED  BY <1>1 DEF Distinct, Before

\* The files of T before f, and the first n of T.
Earlier(T, f) == {g \in T : Before(g, f)}
First(T, n) == {f \in T : Cardinality(Earlier(T, f)) < n}

\* A finite set of files has a first one and a last one.
LEMMA FirstAndLast ==
    ASSUME NEW T, Distinct(T), IsFiniteSet(T), T # {}
    PROVE  /\ \E f \in T : \A g \in T \ {f} : Before(f, g)
           /\ \E f \in T : \A g \in T \ {f} : Before(g, f)
  <1>1. \E f \in T : \A g \in T \ {f} : Before(f, g)
    <2> DEFINE F == [f \in T |-> Earlier(T, f)]
    <2>1. F \in [T -> SUBSET T]
      BY DEF Earlier
    <2>2. PICK f \in T : \A g \in T : F[g] \subseteq F[f] => F[g] = F[f]
      <3> HIDE DEF F
      <3> QED  BY <2>1, LeastSet
    <2>3. ASSUME NEW g \in T \ {f}, Before(g, f) PROVE FALSE
      <3>1. Earlier(T, g) \subseteq Earlier(T, f) /\ g \in Earlier(T, f) /\ g \notin Earlier(T, g)
        BY <2>3, BeforeOrders DEF Earlier
      <3> QED  BY <2>2, <3>1
    <2> QED  BY <2>3, BeforeOrders
  <1>2. \E f \in T : \A g \in T \ {f} : Before(g, f)
    <2> DEFINE F == [f \in T |-> {g \in T : Before(f, g)}]
    <2>1. F \in [T -> SUBSET T]
      OBVIOUS
    <2>2. PICK f \in T : \A g \in T : F[g] \subseteq F[f] => F[g] = F[f]
      <3> HIDE DEF F
      <3> QED  BY <2>1, LeastSet
    <2>3. ASSUME NEW g \in T \ {f}, Before(f, g) PROVE FALSE
      <3>1. F[g] \subseteq F[f] /\ g \in F[f] /\ g \notin F[g]
        BY <2>3, BeforeOrders
      <3> QED  BY <2>2, <3>1
    <2> QED  BY <2>3, BeforeOrders
  <1> QED  BY <1>1, <1>2

\* The first n of a finite set of files are n, or all there are, and come before
\* the others.
LEMMA FirstIsPopped ==
    ASSUME NEW T, Distinct(T), IsFiniteSet(T), NEW n \in Nat
    PROVE  /\ Cardinality(First(T, n)) <= n
           /\ First(T, n) = T \/ Cardinality(First(T, n)) = n
           /\ \A f \in First(T, n), g \in T \ First(T, n) : Before(f, g)
  <1>0. \A f \in T : IsFiniteSet(Earlier(T, f)) /\ Cardinality(Earlier(T, f)) \in Nat
    <2> SUFFICES ASSUME NEW f \in T
                 PROVE  IsFiniteSet(Earlier(T, f)) /\ Cardinality(Earlier(T, f)) \in Nat
      OBVIOUS
    <2>1. Earlier(T, f) \in SUBSET T  BY DEF Earlier
    <2> QED  BY <2>1, FS_Subset, FS_CardinalityType
  <1>1. \A f \in First(T, n), g \in T \ First(T, n) : Before(f, g)
    <2> SUFFICES ASSUME NEW f \in First(T, n), NEW g \in T \ First(T, n), Before(g, f)
                 PROVE  FALSE
      BY BeforeOrders DEF First
    <2>1. f \in T /\ Earlier(T, g) \in SUBSET Earlier(T, f)
      BY BeforeOrders DEF First, Earlier
    <2>2. Cardinality(Earlier(T, g)) <= Cardinality(Earlier(T, f))
      BY <1>0, <2>1, FS_Subset
    <2> QED  BY <1>0, <2>1, <2>2 DEF First
  <1>2. /\ First(T, n) \in SUBSET T /\ IsFiniteSet(First(T, n))
        /\ Cardinality(First(T, n)) \in Nat /\ Distinct(First(T, n))
    <2>1. First(T, n) \in SUBSET T  BY DEF First
    <2> QED  BY <2>1, FS_Subset, FS_CardinalityType DEF Distinct
  <1>3. Cardinality(First(T, n)) <= n
    <2>1. CASE First(T, n) = {}
      BY <2>1, FS_EmptySet
    <2>2. CASE First(T, n) # {}
      <3>1. PICK f \in First(T, n) : \A g \in First(T, n) \ {f} : Before(g, f)
        BY <1>2, <2>2, FirstAndLast
      <3>2. f \in T /\ Cardinality(Earlier(T, f)) < n
        BY DEF First
      <3>3. First(T, n) \in SUBSET (Earlier(T, f) \cup {f})
        BY <1>2, <3>1 DEF Earlier
      <3>4. /\ IsFiniteSet(Earlier(T, f) \cup {f})
            /\ Cardinality(Earlier(T, f) \cup {f}) <= Cardinality(Earlier(T, f)) + 1
        <4>1. IsFiniteSet(Earlier(T, f)) /\ Cardinality(Earlier(T, f)) \in Nat
          BY <1>0, <3>2
        <4>2. /\ IsFiniteSet(Earlier(T, f) \cup {f})
              /\ Cardinality(Earlier(T, f) \cup {f}) =
                    IF f \in Earlier(T, f) THEN Cardinality(Earlier(T, f))
                                          ELSE Cardinality(Earlier(T, f)) + 1
          BY <4>1, FS_AddElement
        <4> QED  BY <4>1, <4>2
      <3>5. Cardinality(First(T, n)) <= Cardinality(Earlier(T, f) \cup {f})
        BY <3>3, <3>4, FS_Subset
      <3>6. Cardinality(Earlier(T, f) \cup {f}) \in Nat
        BY <3>4, FS_CardinalityType
      <3> QED  BY <1>0, <1>2, <3>2, <3>4, <3>5, <3>6
    <2> QED  BY <2>1, <2>2
  <1>4. ASSUME First(T, n) # T PROVE Cardinality(First(T, n)) >= n
    <2> DEFINE U == T \ First(T, n)
    <2>1. U # {} /\ IsFiniteSet(U) /\ Distinct(U)
      BY <1>2, <1>4, FS_Difference DEF Distinct
    <2>2. PICK f \in U : \A g \in U \ {f} : Before(f, g)
      <3> HIDE DEF U
      <3> QED  BY <2>1, FirstAndLast
    <2>3. Earlier(T, f) \in SUBSET First(T, n)
      BY <2>2, BeforeOrders DEF Earlier
    <2>4. Cardinality(Earlier(T, f)) <= Cardinality(First(T, n))
      BY <1>2, <2>3, FS_Subset
    <2>5. f \in T /\ ~(Cardinality(Earlier(T, f)) < n)
      BY DEF First
    <2> QED  BY <1>0, <1>2, <2>4, <2>5
  <1> QED  BY <1>1, <1>2, <1>3, <1>4

\* The queue that one consumer at most sees: what it lists is there until it takes
\* it, and a push that is under way is of one file.
OneInv ==
    /\ IsFiniteSet(enqueued)
    /\ \A p \in Producer : \A f, g \in writing[p] : f = g
    /\ \A c \in Consumer :
        /\ listing[c] \subseteq enqueued
        /\ IsFiniteSet(items[c]) /\ Cardinality(items[c]) <= Count
        /\ c \notin popping => listing[c] = {} /\ items[c] = {}

OneConsumer == \A c, d \in Consumer : c = d
Ahead == UNION {Chosen(c) : c \in Consumer}

\* A push of the abstract queue.
LEMMA AbstractPush ==
    ASSUME NEW f, f \notin enqueued \cup dequeued, Ahead \subseteq enqueued,
           enqueued' = enqueued \cup {f}, UNCHANGED <<dequeued, Ahead>>
    PROVE  Abstract!Next
  BY DEF Abstract!Next, Abstract!Push, Ahead

\* The abstract queue counts files as this module does.
LEMMA SameCardinality == \A S : Abstract!Cardinality(S) = Cardinality(S)
  BY DEF Cardinality, IsFiniteSet, Abstract!Cardinality, Abstract!IsFiniteSet

\* A pop of the abstract queue.
LEMMA AbstractPop ==
    ASSUME NEW S, S \subseteq enqueued, Ahead = {}, Ahead' = S,
           Cardinality(S) <= Count, S = enqueued \/ Cardinality(S) = Count,
           \A f \in S, g \in enqueued \ S : Before(f, g),
           UNCHANGED <<enqueued, dequeued>>
    PROVE  Abstract!Next
  <1> DEFINE W == enqueued \ UNION {Chosen(c) : c \in Consumer}
             D == dequeued \cup UNION {Chosen(c) : c \in Consumer}
  <1>1. W = enqueued /\ D = dequeued
    BY DEF Ahead
  <1>2. W' = enqueued \ S /\ D' = dequeued \cup S
    BY DEF Ahead
  <1>3. /\ S = W \/ Cardinality(S) = Count
        /\ \A f \in S, g \in W \ S : Before(f, g)
        /\ W' = W \ S /\ D' = D \cup S
    BY <1>1, <1>2
  <1>4. Abstract!Pop(S)
    BY <1>3, SameCardinality DEF Abstract!Pop
  <1> QED  BY <1>1, <1>4 DEF Abstract!Next

\* A step of the files that the abstract queue does not see.
LEMMA AbstractStutter ==
    ASSUME enqueued' \ Ahead' = enqueued \ Ahead, dequeued' \cup Ahead' = dequeued \cup Ahead
    PROVE  UNCHANGED Abstract!vars
  BY DEF Abstract!vars, Ahead

\* With one consumer, what it has chosen is all that is ahead of the directories.
LEMMA AheadOfOne ==
    ASSUME OneConsumer, NEW c \in Consumer
    PROVE  Ahead = Chosen(c) /\ Ahead' = Chosen(c)'
  <1>1. \A d \in Consumer : d = c
    BY DEF OneConsumer
  <1>2. Ahead = Chosen(c)
    BY <1>1 DEF Ahead
  <1>3. Ahead' = Chosen(c)'
    BY <1>1 DEF Ahead
  <1> QED  BY <1>2, <1>3

\* A pop takes effect when it lists the directory: it will take the first files of
\* the listing.
LEMMA ListIsPop ==
    ASSUME OneConsumer, TypeOK, Stamps, OneInv, NEW c \in Consumer, List(c)
    PROVE  Abstract!Next
  <1> DEFINE S == First(enqueued, Count)
  <1>1. /\ listing[c] = {} /\ items[c] = {} /\ listing'[c] = enqueued /\ items' = items
        /\ UNCHANGED <<enqueued, dequeued>>
    BY DEF List, OneInv, TypeOK, dirVars
  <1>2. Ahead = {}
    BY <1>1, AheadOfOne DEF Chosen
  <1>3. Count \in Nat /\ IsFiniteSet(enqueued) /\ Distinct(enqueued)
    BY WorkQueueAssumption DEF OneInv, Stamps, Stored, Files, Distinct, TypeOK
  <1>4. Ahead' = S
    <2>1. \A f \in enqueued : Cardinality(Earlier(enqueued, f)) \in Nat
      <3> SUFFICES ASSUME NEW f \in enqueued PROVE Cardinality(Earlier(enqueued, f)) \in Nat
        OBVIOUS
      <3>1. Earlier(enqueued, f) \in SUBSET enqueued  BY DEF Earlier
      <3> QED  BY <1>3, <3>1, FS_Subset, FS_CardinalityType
    <2>2. \A f \in enqueued : Cardinality(Earlier(enqueued, f)) + Cardinality(items'[c])
                = Cardinality(Earlier(enqueued, f))
      <3>1. Cardinality(items'[c]) = 0
        BY <1>1, FS_EmptySet
      <3> QED  BY <2>1, <3>1
    <2>3. Chosen(c)' = {f \in enqueued :
            Cardinality(Earlier(enqueued, f)) + Cardinality(items'[c]) < Count}
      BY <1>1 DEF Chosen, Earlier
    <2> QED  BY <2>2, <2>3, AheadOfOne DEF First
  <1>5. /\ Cardinality(S) <= Count
        /\ S = enqueued \/ Cardinality(S) = Count
        /\ \A f \in S, g \in enqueued \ S : Before(f, g)
    BY <1>3, FirstIsPopped
  <1>6. S \subseteq enqueued
    BY DEF First
  <1> HIDE DEF S
  <1> QED  BY <1>1, <1>2, <1>4, <1>5, <1>6, AbstractPop

\* Taking a file that was chosen changes nothing for the abstract queue: the other
\* files of the listing move up by one, and so does the number of files taken.
LEMMA TakeIsChosen ==
    ASSUME OneConsumer, TypeOK, Stamps, Holders, OneInv,
           NEW c \in Consumer, NEW f \in listing[c], Take(c, f)
    PROVE  UNCHANGED Abstract!vars
  <1> DEFINE L == listing[c]
             M == L \ {f}
             k == Cardinality(items[c])
  <1>1. /\ f \in enqueued /\ \A g \in M : Before(f, g)
        /\ k < Count
        /\ enqueued' = enqueued \ {f} /\ dequeued' = dequeued \cup {f}
        /\ listing'[c] = M /\ items'[c] = items[c] \cup {f}
    BY DEF Take, NextEntry, Trying, TypeOK
  <1>2. IsFiniteSet(L) /\ Distinct(L)
    <2>1. L \in SUBSET enqueued /\ IsFiniteSet(enqueued)  BY DEF OneInv
    <2>2. Distinct(L)  BY <2>1 DEF Stamps, Stored, Files, Distinct, TypeOK
    <2> QED  BY <2>1, <2>2, FS_Subset
  <1>3. k \in Nat /\ Count \in Nat /\ Cardinality(items'[c]) = k + 1
    <2>1. f \notin items[c]
      BY <1>1 DEF Holders, HeldBy, Stamps
    <2>2. IsFiniteSet(items[c])
      BY DEF OneInv
    <2>3. Cardinality(items[c] \cup {f}) = Cardinality(items[c]) + 1
      BY <2>1, <2>2, FS_AddElement
    <2> QED  BY <1>1, <2>2, <2>3, FS_CardinalityType, WorkQueueAssumption
  <1>4. ASSUME NEW g \in M
        PROVE  /\ Cardinality(Earlier(L, g)) \in Nat
               /\ Cardinality(Earlier(M, g)) = Cardinality(Earlier(L, g)) - 1
    <2>1. Earlier(L, g) \in SUBSET L /\ f \in Earlier(L, g)
      BY <1>1 DEF Earlier
    <2>2. Earlier(M, g) = Earlier(L, g) \ {f}
      BY DEF Earlier
    <2>3. IsFiniteSet(Earlier(L, g)) /\ Cardinality(Earlier(L, g)) \in Nat
      BY <1>2, <2>1, FS_Subset, FS_CardinalityType
    <2>4. Cardinality(Earlier(L, g) \ {f}) = Cardinality(Earlier(L, g)) - 1
      BY <2>1, <2>3, FS_RemoveElement
    <2> QED  BY <2>2, <2>3, <2>4
  <1>5. Earlier(L, f) = {}
    BY <1>1, <1>2, BeforeOrders DEF Earlier
  <1>6. Chosen(c) = {g \in L : Cardinality(Earlier(L, g)) + k < Count}
    BY DEF Chosen, Earlier
  <1>7. Chosen(c)' = {g \in M : Cardinality(Earlier(M, g)) + (k + 1) < Count}
    BY <1>1, <1>3 DEF Chosen, Earlier
  <1>8. f \in Chosen(c)
    <2>1. Cardinality(Earlier(L, f)) = 0
      BY <1>5, FS_EmptySet
    <2>2. Cardinality(Earlier(L, f)) + k < Count
      BY <1>1, <1>3, <2>1
    <2> QED  BY <1>6, <2>2
  <1>9. Chosen(c)' = Chosen(c) \ {f}
    <2>1. ASSUME NEW g \in M
          PROVE  Cardinality(Earlier(M, g)) + (k + 1) < Count
                    <=> Cardinality(Earlier(L, g)) + k < Count
      BY <1>3, <1>4
    <2> HIDE DEF k
    <2> QED  BY <1>6, <1>7, <2>1
  <1> HIDE DEF L, M, k
  <1> QED  BY <1>1, <1>8, <1>9, AheadOfOne, AbstractStutter

\* A pop returns when it has taken all it had chosen.
LEMMA ReturnIsDone ==
    ASSUME OneConsumer, TypeOK, OneInv, NEW c \in Consumer, Return(c)
    PROVE  UNCHANGED Abstract!vars
  <1>1. listing'[c] = {} /\ UNCHANGED dirVars
    BY DEF Return, TypeOK
  <1>2. Chosen(c)' = {}
    BY <1>1 DEF Chosen
  <1>3. Chosen(c) = {}
    <2>1. CASE listing[c] = {}
      BY <2>1 DEF Chosen
    <2>2. CASE Cardinality(items[c]) = Count
      <3>1. IsFiniteSet(listing[c])
        <4>1. listing[c] \in SUBSET enqueued /\ IsFiniteSet(enqueued)  BY DEF OneInv
        <4> QED  BY <4>1, FS_Subset
      <3>2. \A f \in listing[c] : Cardinality(Earlier(listing[c], f)) \in Nat
        <4> SUFFICES ASSUME NEW f \in listing[c]
                     PROVE  Cardinality(Earlier(listing[c], f)) \in Nat
          OBVIOUS
        <4>1. Earlier(listing[c], f) \in SUBSET listing[c]  BY DEF Earlier
        <4> QED  BY <3>1, <4>1, FS_Subset, FS_CardinalityType
      <3>3. Count \in Nat
        BY WorkQueueAssumption
      <3>4. \A f \in listing[c] :
                ~(Cardinality(Earlier(listing[c], f)) + Cardinality(items[c]) < Count)
        BY <2>2, <3>2, <3>3
      <3> QED  BY <3>4 DEF Chosen, Earlier
    <2> QED  BY <2>1, <2>2 DEF Return
  <1> QED  BY <1>1, <1>2, <1>3, AheadOfOne, AbstractStutter DEF dirVars

\* A push that ends adds one file.
LEMMA EnqueueIsPush ==
    ASSUME TypeOK, Stamps, OneInv, NEW p \in Producer, Enqueue(p)
    PROVE  Abstract!Next
  <1>1. PICK f : f \in writing[p]
    BY DEF Enqueue
  <1>2. writing[p] = {f}
    BY <1>1 DEF OneInv
  <1>3. f \notin enqueued \cup dequeued
    BY <1>1 DEF Stamps, Stored
  <1>4. enqueued' = enqueued \cup {f} /\ UNCHANGED <<dequeued, listing, items>>
    BY <1>2 DEF Enqueue, popVars
  <1>5. UNCHANGED Ahead
    BY <1>4 DEF Ahead, Chosen
  <1>6. Ahead \subseteq enqueued
    BY DEF Ahead, Chosen, OneInv
  <1> QED  BY <1>3, <1>4, <1>5, <1>6, AbstractPush

\* Every step is one of the abstract queue, or invisible to it.
LEMMA NextIsAbstract ==
    ASSUME OneConsumer, IInv, OneInv, [Next]_vars
    PROVE  [Abstract!Next]_(Abstract!vars)
  <1>0. TypeOK /\ Stamps /\ Places /\ Holders
    BY DEF IInv
  <1>1. ASSUME UNCHANGED <<dirVars, listing, items>> PROVE UNCHANGED Abstract!vars
    <2>1. Ahead' = Ahead
      BY <1>1 DEF Ahead, Chosen
    <2> QED  BY <1>1, <2>1, AbstractStutter DEF dirVars
  <1>2. ASSUME NEW p \in Producer,
               Flush(p) \/ \E w \in unsent : PushBuffered(p, w) \/ Push(p, w)
        PROVE  UNCHANGED Abstract!vars
    BY <1>1, <1>2 DEF Flush, PushBuffered, Push, popVars
  <1>3. ASSUME NEW c \in Consumer, NEW f \in listing[c], Miss(c, f) PROVE FALSE
    BY <1>3 DEF Miss, OneInv
  <1>4. ASSUME NEW x \in Mortal, Die(x) PROVE UNCHANGED Abstract!vars
    BY <1>1, <1>4 DEF Die, popVars
  <1>5. CASE UNCHANGED vars
    BY <1>1, <1>5 DEF vars, popVars
  <1> QED
    BY <1>0, <1>2, <1>3, <1>4, <1>5, EnqueueIsPush, ListIsPop, TakeIsChosen, ReturnIsDone DEF Next

\* With one consumer nobody takes a file behind its back.
LEMMA OneNext ==
    ASSUME OneConsumer, IInv, IInv', OneInv, [Next]_vars
    PROVE  OneInv'
  <1>0. TypeOK /\ Stamps /\ Places /\ Holders
    BY DEF IInv
  <1>1. ASSUME UNCHANGED <<writing, enqueued, listing, items, popping>> PROVE OneInv'
    BY <1>1 DEF OneInv
  <1>2. ASSUME NEW p \in Producer, NEW ws \in Seq(Work), DumpStep(p, ws) PROVE OneInv'
    <2>1. writing' = [writing EXCEPT ![p] = {NewFile(ws)}]
      BY <1>0, <1>2, DumpFacts DEF DumpStep
    <2>2. \A q \in Producer : \A f, g \in writing'[q] : f = g
      BY <1>0, <2>1 DEF OneInv, TypeOK
    <2> QED  BY <1>2, <2>2 DEF DumpStep, OneInv, dirVars, popVars
  <1>3. ASSUME NEW p \in Producer, Enqueue(p) PROVE OneInv'
    <2>1. PICK f : writing[p] = {f}
      BY <1>3 DEF Enqueue, OneInv
    <2>2. enqueued' = enqueued \cup {f} /\ UNCHANGED <<popping, listing, items>>
      BY <1>3, <2>1 DEF Enqueue, popVars
    <2>3. IsFiniteSet(enqueued')
      BY <2>2, FS_AddElement DEF OneInv
    <2>4. \A q \in Producer : \A g, h \in writing'[q] : g = h
      BY <1>0, <1>3 DEF Enqueue, OneInv, TypeOK
    <2> QED  BY <2>2, <2>3, <2>4 DEF OneInv
  <1>4. ASSUME NEW c \in Consumer, List(c) PROVE OneInv'
    <2>1. \A d \in Consumer : d = c
      BY DEF OneConsumer
    <2>2. /\ listing'[c] = enqueued /\ popping' = popping \cup {c}
          /\ UNCHANGED <<writing, enqueued, items>>
      BY <1>0, <1>4 DEF List, TypeOK, pushVars, dirVars
    <2> QED  BY <2>1, <2>2 DEF OneInv
  <1>5. ASSUME NEW c \in Consumer, Return(c) PROVE OneInv'
    <2>1. \A d \in Consumer : d = c
      BY DEF OneConsumer
    <2>2. /\ listing'[c] = {} /\ items'[c] = {} /\ UNCHANGED <<writing, enqueued>>
      BY <1>0, <1>5 DEF Return, TypeOK, pushVars, dirVars
    <2>3. IsFiniteSet({}) /\ Cardinality({}) <= Count
      BY FS_EmptySet, WorkQueueAssumption
    <2> QED  BY <2>1, <2>2, <2>3 DEF OneInv
  <1>6. ASSUME NEW c \in Consumer, NEW f \in listing[c], Take(c, f) PROVE OneInv'
    <2>1. \A d \in Consumer : d = c
      BY DEF OneConsumer
    <2>2. /\ enqueued' = enqueued \ {f} /\ listing'[c] = listing[c] \ {f}
          /\ items'[c] = items[c] \cup {f} /\ Cardinality(items[c]) < Count
          /\ c \in popping /\ UNCHANGED <<writing, popping>>
      BY <1>0, <1>6 DEF Take, NextEntry, Trying, TypeOK, pushVars
    <2>3. IsFiniteSet(enqueued')
      BY <2>2, FS_RemoveElement DEF OneInv
    <2>4. IsFiniteSet(items'[c]) /\ Cardinality(items'[c]) <= Count
      <3>1. IsFiniteSet(items[c])
        BY DEF OneInv
      <3>2. Cardinality(items[c]) \in Nat /\ Count \in Nat
        BY <3>1, FS_CardinalityType, WorkQueueAssumption
      <3>3. /\ IsFiniteSet(items[c] \cup {f})
            /\ Cardinality(items[c] \cup {f}) =
                IF f \in items[c] THEN Cardinality(items[c]) ELSE Cardinality(items[c]) + 1
        BY <3>1, FS_AddElement
      <3> QED  BY <2>2, <3>2, <3>3
    <2>5. listing'[c] \subseteq enqueued'
      BY <2>2 DEF OneInv
    <2> QED  BY <2>1, <2>2, <2>3, <2>4, <2>5 DEF OneInv
  <1>7. ASSUME NEW c \in Consumer, NEW f \in listing[c], Miss(c, f) PROVE FALSE
    BY <1>7 DEF Miss, OneInv
  <1>8. ASSUME NEW p \in Producer, NEW w \in unsent, PushBuffered(p, w) PROVE OneInv'
    BY <1>1, <1>8 DEF PushBuffered, dirVars, popVars
  <1>9. ASSUME NEW x \in Mortal, Die(x) PROVE OneInv'
    BY <1>1, <1>9 DEF Die, pushVars, dirVars, popVars
  <1>10. CASE UNCHANGED vars
    BY <1>1, <1>10 DEF vars, pushVars, dirVars, popVars
  <1> QED
    BY <1>0, <1>2, <1>3, <1>4, <1>5, <1>6, <1>7, <1>8, <1>9, <1>10, PushIsDump DEF Next

\* The queue of one consumer is atomic, as Fabric assumes: the renames of a pop
\* (WorkQueueOnFilesystem._pop_unbuffered) have together the effect of one step,
\* taken when the directory is listed, and those of a push that of another one,
\* whoever dies in between and however many producers there are.
THEOREM AtomicQueue ==
    ASSUME OneConsumer
    PROVE  Spec => ImplementsWorkQueue
  <1>1. Init => OneInv
    BY FS_EmptySet, WorkQueueAssumption DEF Init, OneInv
  <1>2. IInv /\ IInv' /\ OneInv /\ [Next]_vars => OneInv'
    BY OneNext
  <1>3. Init => Abstract!Init
    BY DEF Init, Abstract!Init, Chosen
  <1>4. IInv /\ OneInv /\ [Next]_vars => [Abstract!Next]_(Abstract!vars)
    BY NextIsAbstract
  <1> QED
    BY <1>1, <1>2, <1>3, <1>4, InvariantCorrect, PTL
    DEF Spec, ImplementsWorkQueue, Abstract!Spec
=============================================================================
