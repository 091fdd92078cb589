------------------------- MODULE DiscussionLogProofs -------------------------
(* What holds of the capture path for every number of processes, events,   *)
(* crashes, attempts and every spool limit and batch size.                 *)
EXTENDS DiscussionLog, SequenceTheorems, TLAPS

-----------------------------------------------------------------------------
(* The range of a sequence that was appended to or had its head removed.   *)

LEMMA AppendRange ==
    ASSUME NEW S, NEW s \in Seq(S), NEW e \in S
    PROVE  Range(Append(s, e)) = Range(s) \cup {e}
  <1>1. Range(s) = {s[i] : i \in 1 .. Len(s)}
    BY RangeEquality
  <1>2. /\ Append(s, e) \in Seq(S)
        /\ Len(Append(s, e)) = Len(s) + 1
        /\ \A i \in 1 .. Len(s) : Append(s, e)[i] = s[i]
        /\ Append(s, e)[Len(s) + 1] = e
    BY AppendProperties
  <1>3. Range(Append(s, e)) = {Append(s, e)[i] : i \in 1 .. Len(s) + 1}
    BY <1>2, RangeEquality
  <1> QED BY <1>1, <1>2, <1>3

LEMMA TailRange ==
    ASSUME NEW S, NEW s \in Seq(S), s # <<>>
    PROVE  /\ Head(s) \in S /\ Tail(s) \in Seq(S)
           /\ Range(s) = {Head(s)} \cup Range(Tail(s))
  <1>1. Range(s) = {s[i] : i \in 1 .. Len(s)}
    BY RangeEquality
  <1>2. /\ Head(s) \in S /\ Tail(s) \in Seq(S)
        /\ Len(Tail(s)) = Len(s) - 1
        /\ \A i \in 1 .. Len(Tail(s)) : Tail(s)[i] = s[i + 1]
    BY HeadTailProperties
  <1>3. Range(Tail(s)) = {Tail(s)[i] : i \in 1 .. Len(s) - 1}
    BY <1>2, RangeEquality
  <1>4. Head(s) = s[1] /\ Len(s) \in Nat \ {0}
    OBVIOUS
  <1>5. \A i \in 1 .. Len(s) : i = 1 \/ (i - 1 \in 1 .. Len(s) - 1 /\ Tail(s)[i - 1] = s[i])
    BY <1>2, <1>4
  <1>6. Range(s) \subseteq {Head(s)} \cup Range(Tail(s))
    <2>1. ASSUME NEW i \in 1 .. Len(s) PROVE s[i] \in {Head(s)} \cup Range(Tail(s))
      <3>1. CASE i = 1
        BY <1>4, <3>1
      <3>2. CASE i - 1 \in 1 .. Len(s) - 1 /\ Tail(s)[i - 1] = s[i]
        BY <1>3, <3>2
      <3> QED BY <1>5, <3>1, <3>2
    <2> QED BY <1>1, <2>1
  <1>7. Range(Tail(s)) \subseteq Range(s)
    BY <1>1, <1>2, <1>3, <1>4
  <1>8. Head(s) \in Range(s)
    BY <1>1, <1>4
  <1> QED BY <1>2, <1>6, <1>7, <1>8

LEMMA EmptyRange == Range(<<>>) = {}
  BY DEF Range

-----------------------------------------------------------------------------
(* Type correctness.                                                       *)

USE ConstantsAssumption

(* TypeOK in two halves: what a process keeps to itself, and the rest. *)
LocalsOK ==
    /\ pc \in [Procs -> {"idle", "giveUp"} \cup FlushPCs \cup LogPCs \cup BodyPCs]
    /\ call \in [Procs -> LogCall \cup DeclareCall \cup {[kind |-> "flush"], None}]
    /\ \A p \in Procs : CallFits(p)
    /\ todo \in [Procs -> Seq(Entry)] /\ pend \in [Procs -> Seq(Entry)]
    /\ tries \in [Procs -> Nat]
    /\ res \in [Procs -> Results \cup {"busy", None}]
    /\ \A p \in Procs : pc[p] = "bodyUnlock" => res[p] \in Results \cup {"busy"}

SharedOK ==
    /\ log \subseteq Entry
    /\ status \in [Sessions -> [text : Texts, explicit : BOOLEAN] \cup {None}]
    /\ spool \in Seq(Entry)
    /\ tmp \in Seq(Entry) \cup {None}
    /\ lockFile \in Procs \cup {Free, Stale}
    /\ nextEv \in 1..(MaxCalls + 1) /\ nextId \in Nat
    /\ now \in 1..MaxInstant /\ crashes \in 0..MaxCrashes
    /\ acks \subseteq [call : LogCall \cup DeclareCall, result : Results]

LEMMA TypeHalves == TypeOK <=> LocalsOK /\ SharedOK
  BY DEF TypeOK, LocalsOK, SharedOK

LEMMA TypeHalvesPrime == LocalsOK' /\ SharedOK' => TypeOK'
  BY DEF TypeOK, LocalsOK, SharedOK

LEMMA TypeInit == Init => TypeOK
  BY DEF Init, TypeOK, CallFits, FlushPCs, LogPCs, BodyPCs

LEMMA TypeBegin ==
    ASSUME TypeOK, NEW p \in Procs,
           \/ \E m \in Messages : BeginLog(p, m)
           \/ \E d \in Declarations : BeginDeclare(p, d)
           \/ BeginFlush(p)
    PROVE  TypeOK'
  <1> DEFINE Kept == /\ UNCHANGED <<log, status, spool, tmp, lockFile, todo, pend, tries, res,
                                     nextId, crashes, acks>>
  <1>1. ASSUME NEW m \in Messages, BeginLog(p, m) PROVE TypeOK'
    <2>1. PICK t \in {now, now + 1} :
            /\ t <= MaxInstant /\ now' = t
            /\ Begin(p, [kind |-> "log", ev |-> nextEv, session |-> m.session,
                         role |-> m.role, content |-> m.content, at |-> t], "flushRead")
      BY <1>1 DEF BeginLog
    <2>2. nextEv \in 1 .. MaxCalls /\ nextEv' = nextEv + 1 /\ nextEv' \in 1 .. (MaxCalls + 1)
      BY <1>1 DEF BeginLog, TypeOK
    <2> DEFINE c == [kind |-> "log", ev |-> nextEv, session |-> m.session,
                     role |-> m.role, content |-> m.content, at |-> t]
    <2>3. t \in 1 .. MaxInstant /\ now' = t
      BY <2>1 DEF TypeOK
    <2>4. c \in LogCall
      BY <2>2, <2>3 DEF LogCall, Texts
    <2> HIDE DEF c
    <2>5. pc' = [pc EXCEPT ![p] = "flushRead"] /\ call' = [call EXCEPT ![p] = c] /\ Kept
      BY <2>1 DEF Begin, shared, flushVars, c
    <2>6. \A q \in Procs : CallFits(q)'
      BY <2>4, <2>5 DEF TypeOK, CallFits, FlushPCs, LogPCs, BodyPCs
    <2> QED
      BY <2>2, <2>3, <2>4, <2>5, <2>6 DEF TypeOK, FlushPCs
  <1>2. ASSUME NEW d \in Declarations, BeginDeclare(p, d) PROVE TypeOK'
    <2> DEFINE c == [kind |-> "declare", ev |-> nextEv, session |-> d.session,
                     text |-> d.text]
    <2>2. nextEv \in 1 .. MaxCalls /\ nextEv' = nextEv + 1 /\ nextEv' \in 1 .. (MaxCalls + 1)
          /\ now' = now
      BY <1>2 DEF BeginDeclare, TypeOK
    <2>4. c \in DeclareCall
      BY <2>2 DEF DeclareCall, Texts
    <2> HIDE DEF c
    <2>5. pc' = [pc EXCEPT ![p] = "bodyLock"] /\ call' = [call EXCEPT ![p] = c] /\ Kept
      BY <1>2 DEF BeginDeclare, Begin, shared, flushVars, c
    <2>6. \A q \in Procs : CallFits(q)'
      BY <2>4, <2>5 DEF TypeOK, CallFits, FlushPCs, LogPCs, BodyPCs
    <2> QED
      BY <2>2, <2>4, <2>5, <2>6 DEF TypeOK, BodyPCs
  <1>3. ASSUME BeginFlush(p) PROVE TypeOK'
    <2>5. /\ pc' = [pc EXCEPT ![p] = "flushRead"]
          /\ call' = [call EXCEPT ![p] = [kind |-> "flush"]]
          /\ Kept /\ nextEv' = nextEv /\ now' = now
      BY <1>3 DEF BeginFlush, Begin, shared, flushVars
    <2>6. \A q \in Procs : CallFits(q)'
      BY <2>5 DEF TypeOK, CallFits, FlushPCs, LogPCs, BodyPCs
    <2> QED
      BY <2>5, <2>6 DEF TypeOK, FlushPCs
  <1> QED BY <1>1, <1>2, <1>3

LEMMA TypeLock ==
    ASSUME TypeOK, NEW p \in Procs, Lock(p) \/ LockTimeout(p)
    PROVE  TypeOK'
  <1>1. lockFile' \in Procs \cup {Free, Stale}
    BY DEF TypeOK, Lock, LockTimeout
  <1>2. EnterLocked(p)
    BY DEF Lock, LockTimeout
  <1>3. CASE pc[p] = "flushLock"
    <2>1. pc' = [pc EXCEPT ![p] = "flushOpen"]
      BY <1>2, <1>3 DEF EnterLocked, LockedPC
    <2>2. \A q \in Procs : CallFits(q)'
      BY <1>2, <1>3, <2>1 DEF TypeOK, CallFits, EnterLocked, FlushPCs, LogPCs, BodyPCs
    <2> QED
      BY <1>1, <1>2, <2>1, <2>2 DEF TypeOK, EnterLocked, shared, flushVars, bounds, FlushPCs
  <1>4. CASE pc[p] = "bodyLock"
    <2>1. pc' = [pc EXCEPT ![p] = "body"]
      BY <1>2, <1>4 DEF EnterLocked, LockedPC
    <2>2. \A q \in Procs : CallFits(q)'
      BY <1>2, <1>4, <2>1 DEF TypeOK, CallFits, EnterLocked, FlushPCs, LogPCs, BodyPCs
    <2> QED
      BY <1>1, <1>2, <2>1, <2>2 DEF TypeOK, EnterLocked, shared, flushVars, bounds, BodyPCs
  <1> QED BY <1>2, <1>3, <1>4 DEF EnterLocked, LockedPC

LEMMA ResetLocals ==
    ASSUME TypeOK, NEW p \in Procs, Reset(p)
    PROVE  LocalsOK'
  <1>1. \A q \in Procs : CallFits(q)'
    BY DEF TypeOK, CallFits, Reset, FlushPCs, LogPCs, BodyPCs
  <1> QED
    BY <1>1 DEF TypeOK, LocalsOK, Reset

(* A call that returns has stored its result in acks, unless it is a flush. *)
LEMMA ReturnTypes ==
    ASSUME TypeOK, NEW p \in Procs, NEW result \in Results \cup {"flushed"},
           Return(p, result),
           \/ call[p] \in LogCall \cup DeclareCall /\ result # "flushed"
           \/ call[p] = [kind |-> "flush"]
    PROVE  /\ LocalsOK'
           /\ acks' \subseteq [call : LogCall \cup DeclareCall, result : Results]
  <1>1. LocalsOK'
    BY ResetLocals DEF Return
  <1>2. CASE call[p] = [kind |-> "flush"]
    BY <1>1, <1>2 DEF Return, TypeOK
  <1>3. CASE call[p] \in LogCall \cup DeclareCall /\ result # "flushed"
    <2>1. call[p].kind # "flush"
      BY <1>3 DEF LogCall, DeclareCall
    <2>2. acks' = acks \cup {[call |-> call[p], result |-> result]}
      BY <2>1 DEF Return
    <2> QED BY <1>1, <1>3, <2>2 DEF TypeOK
  <1> QED BY <1>2, <1>3

LEMMA AfterFlushTypes ==
    ASSUME TypeOK, NEW p \in Procs, pc[p] \in FlushPCs, AfterFlush(p)
    PROVE  /\ LocalsOK'
           /\ acks' \subseteq [call : LogCall \cup DeclareCall, result : Results]
  <1>1. call[p] = [kind |-> "flush"] \/ call[p] \in LogCall
    BY DEF TypeOK, CallFits
  <1>2. CASE call[p].kind = "log"
    <2>1. call[p] \in LogCall
      BY <1>1, <1>2
    <2>2. /\ pc' = [pc EXCEPT ![p] = "bodyLock"]
          /\ todo' = [todo EXCEPT ![p] = <<>>] /\ pend' = [pend EXCEPT ![p] = <<>>]
          /\ tries' = [tries EXCEPT ![p] = 0]
          /\ UNCHANGED <<call, res, acks>>
      BY <1>2 DEF AfterFlush
    <2>3. \A q \in Procs : CallFits(q)'
      BY <2>1, <2>2 DEF TypeOK, CallFits, FlushPCs, LogPCs, BodyPCs
    <2> QED BY <2>2, <2>3 DEF TypeOK, LocalsOK, BodyPCs
  <1>3. CASE call[p].kind # "log"
    <2>1. call[p] = [kind |-> "flush"]
      BY <1>1, <1>3 DEF LogCall
    <2>2. Return(p, "flushed")
      BY <1>3 DEF AfterFlush
    <2> QED BY <2>1, <2>2, ReturnTypes
  <1> QED BY <1>2, <1>3

(* A step that moves a process to a place where its kind of call belongs. *)
LEMMA MoveTypes ==
    ASSUME TypeOK, NEW p \in Procs, NEW to, pc' = [pc EXCEPT ![p] = to], UNCHANGED call,
           \/ pc[p] \in FlushPCs /\ to \in FlushPCs
           \/ pc[p] \in LogPCs \cup BodyPCs /\ to \in BodyPCs
           \/ call[p] \in LogCall /\ to \in LogPCs
           \/ call[p] \in DeclareCall /\ to = "giveUp"
    PROVE  /\ pc' \in [Procs -> {"idle", "giveUp"} \cup FlushPCs \cup LogPCs \cup BodyPCs]
           /\ \A q \in Procs : CallFits(q)'
  <1>1. pc' \in [Procs -> {"idle", "giveUp"} \cup FlushPCs \cup LogPCs \cup BodyPCs]
    BY DEF TypeOK
  <1>2. ASSUME NEW q \in Procs PROVE CallFits(q)'
    <2>1. CASE q # p
      BY <2>1 DEF TypeOK, CallFits
    <2>2. CASE q = p
      BY <2>2 DEF TypeOK, CallFits, FlushPCs, LogPCs, BodyPCs
    <2> QED BY <2>1, <2>2
  <1> QED BY <1>1, <1>2

LEMMA TypeFlush ==
    ASSUME TypeOK, NEW p \in Procs, Flush(p)
    PROVE  TypeOK'
  <1> USE DEF FlushPCs
  <1> DEFINE T == {"idle", "giveUp"} \cup FlushPCs \cup LogPCs \cup BodyPCs
  <1>1. CASE FlushRead(p)
    <2>1. acks' \subseteq [call : LogCall \cup DeclareCall, result : Results] => SharedOK'
      BY <1>1 DEF FlushRead, TypeOK, SharedOK, shared, bounds
    <2>2. CASE spool = <<>>
      <3>1. AfterFlush(p) /\ pc[p] \in FlushPCs
        BY <1>1, <2>2 DEF FlushRead
      <3> QED BY <3>1, <2>1, AfterFlushTypes, TypeHalvesPrime
    <2>3. CASE spool # <<>>
      <3>1. /\ todo' = [todo EXCEPT ![p] = spool]
            /\ pc' = [pc EXCEPT ![p] = "flushLock"] /\ pc[p] = "flushRead"
            /\ UNCHANGED <<call, pend, tries, res, acks>>
        BY <1>1, <2>3 DEF FlushRead
      <3>2. pc' \in [Procs -> T] /\ \A q \in Procs : CallFits(q)'
        BY <3>1, MoveTypes
      <3>3. LocalsOK'
        BY <3>1, <3>2 DEF TypeOK, LocalsOK
      <3> QED BY <2>1, <3>1, <3>3, TypeHalvesPrime DEF TypeOK
    <2> QED BY <2>2, <2>3
  <1>2. CASE FlushOpenFails(p)
    <2>1. pc' \in [Procs -> T] /\ \A q \in Procs : CallFits(q)'
      BY <1>2, MoveTypes DEF FlushOpenFails
    <2>2. pend' \in [Procs -> Seq(Entry)] /\ todo' \in [Procs -> Seq(Entry)]
      BY <1>2 DEF FlushOpenFails, TypeOK
    <2> QED BY <1>2, <2>1, <2>2 DEF FlushOpenFails, TypeOK, shared, bounds
  <1>3. CASE FlushOpen(p)
    <2>1. pc' \in [Procs -> T] /\ \A q \in Procs : CallFits(q)'
      BY <1>3, MoveTypes DEF FlushOpen
    <2> QED BY <1>3, <2>1 DEF FlushOpen, TypeOK, shared, bounds, flushVars
  <1>4. CASE FlushInsert(p) \/ FlushDuplicate(p) \/ FlushInsertFails(p)
    <2>1. /\ FlushNext(p) /\ todo[p] \in Seq(Entry) /\ todo[p] # <<>>
          /\ \A q \in Procs : CallFits(q)'
      BY <1>4 DEF FlushInsert, FlushDuplicate, FlushInsertFails, FlushNext, TypeOK, CallFits
    <2>2. Head(todo[p]) \in Entry /\ Tail(todo[p]) \in Seq(Entry)
      BY <2>1, TailRange
    <2>3. log' \subseteq Entry
      BY <1>4, <2>2 DEF FlushInsert, FlushDuplicate, FlushInsertFails, TypeOK
    <2>4. pend' \in [Procs -> Seq(Entry)]
      <3>1. Append(pend[p], Head(todo[p])) \in Seq(Entry)
        BY <2>2, AppendProperties DEF TypeOK
      <3>2. pend' = pend \/ pend' = [pend EXCEPT ![p] = Append(pend[p], Head(todo[p]))]
        BY <1>4 DEF FlushInsert, FlushDuplicate, FlushInsertFails
      <3> QED BY <3>1, <3>2 DEF TypeOK
    <2>5. todo' \in [Procs -> Seq(Entry)] /\ tries' \in [Procs -> Nat]
      BY <2>1, <2>2 DEF FlushNext, TypeOK
    <2> QED BY <2>1, <2>3, <2>4, <2>5 DEF FlushNext, TypeOK, bounds
  <1>5. CASE FlushStop(p)
    <2>1. pc' \in [Procs -> T] /\ \A q \in Procs : CallFits(q)'
      BY <1>5, MoveTypes DEF FlushStop
    <2>2. pend[p] \o todo[p] \in Seq(Entry)
      BY DEF TypeOK
    <2>3. pend' \in [Procs -> Seq(Entry)] /\ todo' \in [Procs -> Seq(Entry)]
      BY <1>5, <2>2 DEF FlushStop, TypeOK
    <2> QED BY <1>5, <2>1, <2>3 DEF FlushStop, TypeOK, shared, bounds
  <1>6. CASE FlushUnlock(p)
    <2>1. pc' \in [Procs -> T] /\ \A q \in Procs : CallFits(q)'
      BY <1>6, MoveTypes DEF FlushUnlock
    <2>2. lockFile' \in Procs \cup {Free, Stale}
      BY <1>6 DEF FlushUnlock, Release, TypeOK
    <2> QED BY <1>6, <2>1, <2>2 DEF FlushUnlock, TypeOK, shared, bounds, flushVars
  <1>7. CASE RewriteTmp(p)
    <2>1. pc' \in [Procs -> T] /\ \A q \in Procs : CallFits(q)'
      BY <1>7, MoveTypes DEF RewriteTmp
    <2> QED BY <1>7, <2>1 DEF RewriteTmp, TypeOK, bounds, flushVars
  <1>8. CASE ReplaceSpool(p)
    <2>1. AfterFlush(p) /\ pc[p] \in FlushPCs
      BY <1>8 DEF ReplaceSpool
    <2>2. spool' \in Seq(Entry) /\ tmp' \in Seq(Entry) \cup {None}
      BY <1>8, EmptySeq DEF ReplaceSpool, TypeOK
    <2>3. LocalsOK' /\ acks' \subseteq [call : LogCall \cup DeclareCall, result : Results]
      BY <2>1, AfterFlushTypes
    <2>4. SharedOK'
      BY <1>8, <2>2, <2>3 DEF ReplaceSpool, TypeOK, SharedOK, bounds
    <2> QED BY <2>3, <2>4, TypeHalvesPrime
  <1> QED BY <1>1, <1>2, <1>3, <1>4, <1>5, <1>6, <1>7, <1>8 DEF Flush

LEMMA NewEntryType ==
    ASSUME TypeOK, NEW c \in LogCall, NEW session \in {m.session : m \in Messages} \cup Sessions
    PROVE  NewEntry(c, session) \in Entry
  BY DEF NewEntry, LogCall, Entry, TypeOK

(* The session of a logged event is stored under one of Sessions. *)
LEMMA SessionType ==
    ASSUME NEW c \in LogCall
    PROVE  /\ c.session \in {m.session : m \in Messages}
           /\ StoredSession(c.session) \in Sessions
  BY DEF LogCall, Sessions

LEMMA LeaveTypes ==
    ASSUME TypeOK, NEW p \in Procs, NEW outcome \in Results \cup {"busy"},
           Leave(p, outcome), pc[p] \in LogPCs \cup BodyPCs
    PROVE  LocalsOK'
  <1>1. /\ pc' \in [Procs -> {"idle", "giveUp"} \cup FlushPCs \cup LogPCs \cup BodyPCs]
        /\ \A q \in Procs : CallFits(q)'
    BY MoveTypes DEF Leave, BodyPCs
  <1>2. res' \in [Procs -> Results \cup {"busy", None}]
    BY DEF Leave, TypeOK
  <1> QED BY <1>1, <1>2 DEF Leave, TypeOK, LocalsOK, flushVars

LEMMA TypeBody ==
    ASSUME TypeOK, NEW p \in Procs, Body(p)
    PROVE  TypeOK'
  <1> USE DEF BodyPCs, LogPCs
  <1> DEFINE T == {"idle", "giveUp"} \cup FlushPCs \cup LogPCs \cup BodyPCs
  <1>1. CASE LookupDuplicate(p)
    <2>1. LocalsOK'
      BY <1>1, LeaveTypes DEF LookupDuplicate, Results
    <2>2. SharedOK'
      BY <1>1 DEF LookupDuplicate, Leave, TypeOK, SharedOK, bounds
    <2> QED BY <2>1, <2>2, TypeHalvesPrime
  <1>2. CASE LookupFresh(p)
    <2>1. /\ pc[p] = "body" /\ call[p].kind = "log" /\ pc' = [pc EXCEPT ![p] = "insert"]
          /\ UNCHANGED <<shared, lockFile, call, flushVars, tries, res, bounds, nextId, acks>>
      BY <1>2 DEF LookupFresh
    <2>2. call[p] \in LogCall
      BY <2>1 DEF TypeOK, CallFits, DeclareCall
    <2>3. pc' \in [Procs -> T] /\ \A q \in Procs : CallFits(q)'
      BY <2>1, <2>2, MoveTypes
    <2> QED BY <2>1, <2>3 DEF TypeOK, shared, bounds, flushVars
  <1>3. CASE Insert(p)
    <2>1. call[p] \in LogCall
      BY <1>3 DEF Insert, TypeOK, CallFits
    <2>2. NewEntry(call[p], StoredSession(call[p].session)) \in Entry
      BY <2>1, NewEntryType, SessionType
    <2>3. log' \subseteq Entry /\ nextId' \in Nat
      BY <1>3, <2>2 DEF Insert, TypeOK
    <2>4. LocalsOK'
      <3>1. CASE TouchesStatus(call[p])
        <4>1. /\ pc' = [pc EXCEPT ![p] = "touch"] /\ UNCHANGED <<call, flushVars, tries, res>>
          BY <1>3, <3>1 DEF Insert
        <4>2. pc' \in [Procs -> T] /\ \A q \in Procs : CallFits(q)'
          BY <2>1, <4>1, MoveTypes
        <4> QED BY <4>1, <4>2 DEF TypeOK, LocalsOK, flushVars
      <3>2. CASE ~TouchesStatus(call[p])
        BY <1>3, <3>2, LeaveTypes DEF Insert, Results
      <3> QED BY <3>1, <3>2
    <2>5. SharedOK'
      BY <1>3, <2>3 DEF Insert, Leave, TypeOK, SharedOK, bounds
    <2> QED BY <2>4, <2>5, TypeHalvesPrime
  <1>4. CASE TouchAuto(p) \/ TouchFails(p) \/ TouchExplicit(p) \/ BodyFails(p)
    <2>1. \E outcome \in {"created", "declared", "busy", "failed"} : Leave(p, outcome)
      BY <1>4 DEF TouchAuto, TouchFails, TouchExplicit, BodyFails
    <2>2. pc[p] \in LogPCs \cup BodyPCs
      BY <1>4 DEF TouchAuto, TouchFails, TouchExplicit, BodyFails
    <2>3. LocalsOK'
      BY <2>1, <2>2, LeaveTypes DEF Results
    <2>4. status' \in [Sessions -> [text : Texts, explicit : BOOLEAN] \cup {None}]
      <3>1. CASE TouchAuto(p)
        <4>1. call[p].content \in Texts
          BY <3>1 DEF TouchAuto, TypeOK, CallFits, LogCall
        <4> QED BY <3>1, <4>1 DEF TouchAuto, TypeOK
      <3>2. CASE TouchExplicit(p)
        <4>1. call[p].text \in Texts
          BY <3>2 DEF TouchExplicit, TypeOK, CallFits, LogCall, DeclareCall
        <4> QED BY <3>2, <4>1 DEF TouchExplicit, TypeOK
      <3>3. CASE TouchFails(p) \/ BodyFails(p)
        BY <3>3 DEF TouchFails, BodyFails, TypeOK
      <3> QED BY <1>4, <3>1, <3>2, <3>3
    <2>5. UNCHANGED <<log, nextId>>
      BY <1>4 DEF TouchAuto, TouchFails, TouchExplicit, BodyFails
    <2>6. SharedOK'
      BY <2>1, <2>4, <2>5 DEF Leave, TypeOK, SharedOK, bounds
    <2> QED BY <2>3, <2>6, TypeHalvesPrime
  <1>5. CASE BodyUnlock(p)
    <2>0. lockFile' \in Procs \cup {Free, Stale}
      BY <1>5 DEF BodyUnlock, Release, TypeOK
    <2>1. /\ pc[p] = "bodyUnlock" /\ call[p] \in LogCall \cup DeclareCall
          /\ UNCHANGED <<shared, bounds, nextId>>
      BY <1>5 DEF BodyUnlock, TypeOK, CallFits
    <2>2. LocalsOK' /\ acks' \subseteq [call : LogCall \cup DeclareCall, result : Results]
      <3>1. CASE res[p] # "busy"
        <4>1. Return(p, res[p])
          BY <1>5, <3>1 DEF BodyUnlock
        <4>2. res[p] \in Results /\ res[p] # "flushed"
          BY <2>1, <3>1 DEF TypeOK, Results
        <4> QED BY <2>1, <4>1, <4>2, ReturnTypes
      <3>2. CASE res[p] = "busy" /\ tries[p] + 1 < Attempts(call[p])
        <4>1. /\ res' = [res EXCEPT ![p] = None] /\ tries' = [tries EXCEPT ![p] = @ + 1]
              /\ pc' = [pc EXCEPT ![p] = "bodyLock"]
              /\ UNCHANGED <<call, flushVars, acks>>
          BY <1>5, <3>2 DEF BodyUnlock
        <4>2. pc' \in [Procs -> T] /\ \A q \in Procs : CallFits(q)'
          BY <2>1, <4>1, MoveTypes
        <4> QED BY <4>1, <4>2 DEF TypeOK, LocalsOK, flushVars
      <3>3. CASE res[p] = "busy" /\ ~(tries[p] + 1 < Attempts(call[p]))
        <4>1. /\ res' = [res EXCEPT ![p] = None] /\ tries' = [tries EXCEPT ![p] = @ + 1]
              /\ pc' = [pc EXCEPT ![p] = IF call[p].kind = "log"
                                         THEN "spoolCount" ELSE "giveUp"]
              /\ UNCHANGED <<call, flushVars, acks>>
          BY <1>5, <3>3 DEF BodyUnlock
        <4>2. \/ call[p] \in LogCall /\ call[p].kind = "log"
              \/ call[p] \in DeclareCall /\ call[p].kind # "log"
          BY <2>1 DEF LogCall, DeclareCall
        <4>3. pc' \in [Procs -> T] /\ \A q \in Procs : CallFits(q)'
          BY <4>1, <4>2, MoveTypes
        <4> QED BY <4>1, <4>3 DEF TypeOK, LocalsOK, flushVars
      <3> QED BY <3>1, <3>2, <3>3
    <2>3. SharedOK'
      BY <2>0, <2>1, <2>2 DEF TypeOK, SharedOK, shared, bounds
    <2> QED BY <2>2, <2>3, TypeHalvesPrime
  <1>6. CASE GiveUp(p)
    <2>1. call[p] \in DeclareCall /\ Return(p, "failed") /\ UNCHANGED <<shared, lockFile, bounds, nextId>>
      BY <1>6 DEF GiveUp, TypeOK, CallFits
    <2>2. LocalsOK' /\ acks' \subseteq [call : LogCall \cup DeclareCall, result : Results]
      BY <2>1, ReturnTypes DEF Results
    <2>3. SharedOK'
      BY <2>1, <2>2 DEF TypeOK, SharedOK, shared, bounds
    <2> QED BY <2>2, <2>3, TypeHalvesPrime
  <1> QED BY <1>1, <1>2, <1>3, <1>4, <1>5, <1>6 DEF Body

LEMMA TypeSpooling ==
    ASSUME TypeOK, NEW p \in Procs, Spooling(p)
    PROVE  TypeOK'
  <1> USE DEF LogPCs
  <1>1. call[p] \in LogCall
    BY DEF Spooling, SpoolCount, SpoolAppend, SpoolFails, TypeOK, CallFits
  <1>2. CASE SpoolCount(p) \/ SpoolFails(p)
    <2>1. LocalsOK' /\ acks' \subseteq [call : LogCall \cup DeclareCall, result : Results]
      <3>1. CASE \E result \in {"dropped", "failed"} : Return(p, result)
        BY <1>1, <3>1, ReturnTypes DEF Results
      <3>2. CASE /\ pc' = [pc EXCEPT ![p] = "spoolAppend"]
                 /\ UNCHANGED <<call, flushVars, tries, res, acks>>
        <4>1. /\ pc' \in [Procs -> {"idle", "giveUp"} \cup FlushPCs \cup LogPCs \cup BodyPCs]
              /\ \A q \in Procs : CallFits(q)'
          BY <1>1, <3>2, MoveTypes
        <4> QED BY <3>2, <4>1 DEF TypeOK, LocalsOK, flushVars
      <3> QED BY <1>2, <3>1, <3>2 DEF SpoolCount, SpoolFails
    <2>2. SharedOK'
      BY <1>2, <2>1 DEF SpoolCount, SpoolFails, TypeOK, SharedOK, shared, bounds
    <2> QED BY <2>1, <2>2, TypeHalvesPrime
  <1>3. CASE SpoolAppend(p)
    <2>1. LocalsOK' /\ acks' \subseteq [call : LogCall \cup DeclareCall, result : Results]
      BY <1>1, <1>3, ReturnTypes DEF SpoolAppend, Results
    <2>2. NewEntry(call[p], call[p].session) \in Entry
      BY <1>1, NewEntryType, SessionType
    <2>3. spool' \in Seq(Entry) /\ nextId' \in Nat
      BY <1>3, <2>2, AppendProperties DEF SpoolAppend, TypeOK
    <2>4. SharedOK'
      BY <1>3, <2>1, <2>3 DEF SpoolAppend, TypeOK, SharedOK, bounds
    <2> QED BY <2>1, <2>4, TypeHalvesPrime
  <1> QED BY <1>2, <1>3 DEF Spooling

LEMMA TypeNext == TypeOK /\ [Next]_vars => TypeOK'
  <1> SUFFICES ASSUME TypeOK, [Next]_vars PROVE TypeOK'
    OBVIOUS
  <1>1. CASE UNCHANGED vars
    BY <1>1 DEF vars, TypeOK, CallFits
  <1>2. ASSUME NEW p \in Procs,
               \/ \E m \in Messages : BeginLog(p, m)
               \/ \E d \in Declarations : BeginDeclare(p, d)
               \/ BeginFlush(p)
        PROVE  TypeOK'
    BY <1>2, TypeBegin
  <1>3. ASSUME NEW p \in Procs, Step(p) PROVE TypeOK'
    BY <1>3, TypeLock, TypeFlush, TypeBody, TypeSpooling DEF Step
  <1>4. ASSUME NEW p \in Procs, Crash(p) PROVE TypeOK'
    <2>1. LocalsOK'
      BY <1>4, ResetLocals DEF Crash
    <2>2. SharedOK'
      BY <1>4 DEF Crash, TypeOK, SharedOK, shared
    <2> QED BY <2>1, <2>2, TypeHalvesPrime
  <1> QED BY <1>1, <1>2, <1>3, <1>4 DEF Next

(* Every state of every instance has the shape TypeOK describes. *)
THEOREM TypeCorrect == Spec => []TypeOK
  BY TypeInit, TypeNext, PTL DEF Spec

-----------------------------------------------------------------------------
(* One entry per event.                                                    *)
(*                                                                         *)
(* AtMostOneRow speaks of the table only, and is not inductive: a second   *)
(* entry for a stored event could wait in the spool, in the temporary file *)
(* or in some process's snapshot.  The invariant therefore says that every *)
(* copy of an event anywhere is the same entry, and that the call about to *)
(* store an event is the only one to carry its number.                     *)

TmpEntries == IF tmp = None THEN {} ELSE Range(tmp)

Known == log \cup Range(spool) \cup TmpEntries
             \cup UNION {Range(todo[p]) \cup Range(pend[p]) : p \in Procs}

Logging(p) == pc[p] # "idle" /\ call[p] \in LogCall

(* A process that may still store the event it was called with. *)
Unstored(p) ==
    /\ Logging(p)
    /\ \/ pc[p] \in FlushPCs \cup {"bodyLock", "body", "insert", "spoolCount", "spoolAppend"}
       \/ pc[p] = "bodyUnlock" /\ res[p] = "busy"

KnownIsPast == \A e \in Known : e.ev < nextEv /\ e.id < nextId
OneEntry == \A e, f \in Known : e.ev = f.ev \/ e.id = f.id => e = f
CallIsPast == \A p \in Procs : Logging(p) => call[p].ev < nextEv
OneCall == \A p, q \in Procs :
              Logging(p) /\ Logging(q) /\ call[p].ev = call[q].ev => p = q
UnstoredIsNew == \A p \in Procs : Unstored(p) => \A e \in Known : e.ev # call[p].ev

OneEntryInv == KnownIsPast /\ OneEntry /\ CallIsPast /\ OneCall /\ UnstoredIsNew

(* A step that stores nothing new: entries only move or disappear, calls   *)
(* only go on or end.                                                      *)
Quiet ==
    /\ Known' \subseteq Known
    /\ \A q \in Procs : Logging(q)' => Logging(q) /\ call'[q] = call[q]
    /\ \A q \in Procs : Unstored(q)' => Unstored(q)
    /\ UNCHANGED <<nextEv, nextId>>

(* A step in which p stores its event as e. *)
Store(p, e) ==
    /\ Unstored(p) /\ e.ev = call[p].ev /\ e.id = nextId
    /\ Known' \subseteq Known \cup {e}
    /\ \A q \in Procs : Logging(q)' => Logging(q) /\ call'[q] = call[q]
    /\ \A q \in Procs : Unstored(q)' => Unstored(q) /\ q # p
    /\ nextEv' = nextEv /\ nextId' = nextId + 1

LEMMA KnownType == TypeOK => Known \subseteq Entry
  <1> SUFFICES ASSUME TypeOK PROVE Known \subseteq Entry
    OBVIOUS
  <1>1. Range(spool) \subseteq Entry
    BY RangeOfSeq DEF TypeOK
  <1>2. TmpEntries \subseteq Entry
    BY RangeOfSeq DEF TypeOK, TmpEntries
  <1>3. ASSUME NEW p \in Procs
        PROVE  Range(todo[p]) \subseteq Entry /\ Range(pend[p]) \subseteq Entry
    <2>1. todo[p] \in Seq(Entry) /\ pend[p] \in Seq(Entry)
      BY DEF TypeOK
    <2> QED BY <2>1, RangeOfSeq
  <1>4. log \subseteq Entry
    BY DEF TypeOK
  <1> QED BY <1>1, <1>2, <1>3, <1>4 DEF Known

LEMMA KnownParts ==
    /\ log \subseteq Known /\ Range(spool) \subseteq Known /\ TmpEntries \subseteq Known
    /\ \A p \in Procs : Range(todo[p]) \subseteq Known /\ Range(pend[p]) \subseteq Known
  BY DEF Known

LEMMA KnownWithin ==
    ASSUME NEW K, log' \subseteq K, Range(spool)' \subseteq K, TmpEntries' \subseteq K,
           \A q \in Procs : Range(todo'[q]) \subseteq K /\ Range(pend'[q]) \subseteq K
    PROVE  Known' \subseteq K
  BY DEF Known

LEMMA QuietPreserves ==
    ASSUME TypeOK, OneEntryInv, Quiet
    PROVE  OneEntryInv'
  BY DEF OneEntryInv, Quiet, KnownIsPast, OneEntry, CallIsPast, OneCall, UnstoredIsNew, Unstored

LEMMA StorePreserves ==
    ASSUME TypeOK, OneEntryInv, NEW p \in Procs, NEW e \in Entry, Store(p, e)
    PROVE  OneEntryInv'
  <1>1. nextEv \in Nat /\ nextId \in Nat /\ e.ev < nextEv
    BY DEF TypeOK, OneEntryInv, CallIsPast, Store, Unstored
  <1>2. \A f \in Known : f.ev # e.ev /\ f.id < nextId /\ f \in Entry
    BY KnownType DEF OneEntryInv, UnstoredIsNew, KnownIsPast, Store
  <1>3. e.id = nextId /\ nextId' = nextId + 1 /\ nextEv' = nextEv
        /\ Known' \subseteq Known \cup {e}
    BY DEF Store
  <1>4. KnownIsPast'
    BY <1>1, <1>2, <1>3 DEF OneEntryInv, KnownIsPast, Entry
  <1>5. OneEntry'
    BY <1>1, <1>2, <1>3 DEF OneEntryInv, OneEntry, Entry
  <1>6. CallIsPast' /\ OneCall'
    BY <1>3 DEF Store, OneEntryInv, CallIsPast, OneCall
  <1>7. UnstoredIsNew'
    <2> SUFFICES ASSUME NEW q \in Procs, Unstored(q)', NEW f \in Known'
                 PROVE  f.ev # call'[q].ev
      BY DEF UnstoredIsNew
    <2>1. Unstored(q) /\ q # p /\ call'[q] = call[q] /\ Logging(q) /\ Logging(p)
      BY DEF Store, Unstored
    <2>2. CASE f \in Known
      BY <2>1, <2>2 DEF OneEntryInv, UnstoredIsNew
    <2>3. CASE f = e
      BY <2>1, <2>3 DEF OneEntryInv, OneCall, Store
    <2> QED BY <1>3, <2>2, <2>3
  <1> QED BY <1>4, <1>5, <1>6, <1>7 DEF OneEntryInv

(* The local variables of the other processes do not change. *)
LEMMA ResetQuiet ==
    ASSUME TypeOK, NEW p \in Procs, Reset(p), UNCHANGED <<nextEv, nextId>>,
           log' \subseteq Known, Range(spool)' \subseteq Known, TmpEntries' \subseteq Known
    PROVE  Quiet
  <1>1. ASSUME NEW q \in Procs
        PROVE  Range(todo'[q]) \subseteq Known /\ Range(pend'[q]) \subseteq Known
    <2>1. CASE q = p
      <3>1. todo'[q] = <<>> /\ pend'[q] = <<>>
        BY <2>1 DEF Reset, TypeOK
      <3> QED BY <3>1, EmptyRange
    <2>2. CASE q # p
      BY <2>2, KnownParts DEF Reset, TypeOK
    <2> QED BY <2>1, <2>2
  <1>2. Known' \subseteq Known
    BY <1>1, KnownWithin
  <1>3. \A q \in Procs : Logging(q)' => Logging(q) /\ call'[q] = call[q]
    BY DEF Reset, Logging, TypeOK
  <1>4. \A q \in Procs : Unstored(q)' => Unstored(q)
    BY DEF Reset, Unstored, Logging, TypeOK, FlushPCs
  <1> QED BY <1>2, <1>3, <1>4 DEF Quiet

(* A step of p that only rearranges what is known, and moves on. *)
LEMMA MoveQuiet ==
    ASSUME TypeOK, NEW p \in Procs, NEW to, pc' = [pc EXCEPT ![p] = to],
           UNCHANGED <<call, nextEv, nextId>>,
           \/ to \notin FlushPCs \cup {"bodyLock", "body", "insert", "bodyUnlock", "spoolCount", "spoolAppend"}
           \/ /\ pc[p] \in FlushPCs \cup {"bodyLock", "body", "insert", "spoolCount", "spoolAppend"}
           \/ pc[p] = "bodyUnlock" /\ res[p] = "busy",
           \A q \in Procs : q # p => res'[q] = res[q],
           pc[p] # "idle",
           log' \subseteq Known, Range(spool)' \subseteq Known, TmpEntries' \subseteq Known,
           Range(todo'[p]) \subseteq Known, Range(pend'[p]) \subseteq Known,
           \A q \in Procs : q # p => todo'[q] = todo[q] /\ pend'[q] = pend[q]
    PROVE  Quiet
  <1>1. Known' \subseteq Known
    BY KnownWithin, KnownParts
  <1>2. \A q \in Procs : Logging(q)' => Logging(q) /\ call'[q] = call[q]
    BY DEF Logging, TypeOK
  <1>3. \A q \in Procs : Unstored(q)' => Unstored(q)
    <2> SUFFICES ASSUME NEW q \in Procs, Unstored(q)' PROVE Unstored(q)
      OBVIOUS
    <2>1. CASE q = p
      BY <2>1 DEF Unstored, Logging, TypeOK
    <2>2. CASE q # p
      BY <2>2 DEF Unstored, Logging, TypeOK
    <2> QED BY <2>1, <2>2
  <1> QED BY <1>1, <1>2, <1>3 DEF Quiet

LEMMA AfterFlushQuiet ==
    ASSUME TypeOK, NEW p \in Procs, pc[p] \in FlushPCs, AfterFlush(p),
           UNCHANGED <<nextEv, nextId>>,
           log' \subseteq Known, Range(spool)' \subseteq Known, TmpEntries' \subseteq Known
    PROVE  Quiet
  <1>1. CASE call[p].kind = "log"
    <2>1. /\ pc' = [pc EXCEPT ![p] = "bodyLock"]
          /\ todo' = [todo EXCEPT ![p] = <<>>] /\ pend' = [pend EXCEPT ![p] = <<>>]
          /\ UNCHANGED <<call, res, acks>>
      BY <1>1 DEF AfterFlush
    <2>2. todo'[p] = <<>> /\ pend'[p] = <<>>
      BY <2>1 DEF TypeOK
    <2>3. \A q \in Procs : q # p => todo'[q] = todo[q] /\ pend'[q] = pend[q]
      BY <2>1 DEF TypeOK
    <2>4. pc[p] # "idle"
      BY DEF FlushPCs
    <2> QED BY <2>1, <2>2, <2>3, <2>4, EmptyRange, MoveQuiet
  <1>2. CASE call[p].kind # "log"
    BY <1>2, ResetQuiet DEF AfterFlush, Return
  <1> QED BY <1>1, <1>2

LEMMA FlushQuiet ==
    ASSUME TypeOK, NEW p \in Procs, Flush(p)
    PROVE  Quiet
  <1> USE KnownParts
  <1>0. todo[p] \in Seq(Entry) /\ pend[p] \in Seq(Entry)
    BY DEF TypeOK
  <1>1. CASE FlushRead(p)
    <2>1. /\ pc[p] \in FlushPCs /\ pc[p] # "idle"
          /\ UNCHANGED <<nextEv, nextId>> /\ UNCHANGED <<log, spool, tmp>>
      BY <1>1 DEF FlushRead, shared, bounds, FlushPCs
    <2>2. CASE spool = <<>>
      BY <1>1, <2>1, <2>2, AfterFlushQuiet DEF FlushRead, TmpEntries
    <2>3. CASE spool # <<>>
      <3>1. /\ pc' = [pc EXCEPT ![p] = "flushLock"]
            /\ todo' = [todo EXCEPT ![p] = spool] /\ UNCHANGED <<call, pend, res>>
        BY <1>1, <2>3 DEF FlushRead
      <3>2. todo'[p] = spool /\ \A q \in Procs : q # p => todo'[q] = todo[q]
        BY <3>1 DEF TypeOK
      <3> QED BY <2>1, <3>1, <3>2, MoveQuiet DEF TmpEntries
    <2> QED BY <2>2, <2>3
  <1>2. CASE FlushOpenFails(p) \/ FlushStop(p)
    <2>1. /\ pc[p] \in FlushPCs /\ pc[p] # "idle" /\ pc' = [pc EXCEPT ![p] = "flushUnlock"]
          /\ todo' = [todo EXCEPT ![p] = <<>>]
          /\ UNCHANGED <<nextEv, nextId, log, spool, tmp, call, res>>
      BY <1>2 DEF FlushOpenFails, FlushStop, shared, bounds, FlushPCs
    <2>2. Range(pend[p] \o todo[p]) = Range(pend[p]) \cup Range(todo[p])
      BY <1>0, RangeConcatenation
    <2>3. pend' = [pend EXCEPT ![p] = todo[p]] \/ pend' = [pend EXCEPT ![p] = pend[p] \o todo[p]]
      BY <1>2 DEF FlushOpenFails, FlushStop
    <2>4. todo'[p] = <<>> /\ Range(pend'[p]) \subseteq Known
      BY <2>1, <2>2, <2>3 DEF TypeOK
    <2>5. \A q \in Procs : q # p => todo'[q] = todo[q] /\ pend'[q] = pend[q]
      BY <2>1, <2>3 DEF TypeOK
    <2> QED BY <2>1, <2>4, <2>5, EmptyRange, MoveQuiet DEF TmpEntries
  <1>3. CASE FlushOpen(p) \/ FlushUnlock(p) \/ RewriteTmp(p)
    <2>1. /\ pc[p] \in FlushPCs /\ pc[p] # "idle"
          /\ \E to \in FlushPCs : pc' = [pc EXCEPT ![p] = to]
          /\ UNCHANGED <<nextEv, nextId, log, spool, call, res, todo, pend>>
      BY <1>3 DEF FlushOpen, FlushUnlock, RewriteTmp, shared, bounds, flushVars, FlushPCs
    <2>2. TmpEntries' \subseteq Known
      BY <1>3 DEF FlushOpen, FlushUnlock, RewriteTmp, shared, TmpEntries
    <2> QED BY <2>1, <2>2, MoveQuiet
  <1>4. CASE FlushInsert(p) \/ FlushDuplicate(p) \/ FlushInsertFails(p)
    <2>1. FlushNext(p) /\ todo[p] # <<>>
      BY <1>4 DEF FlushInsert, FlushDuplicate, FlushInsertFails, FlushNext
    <2>2. /\ UNCHANGED <<nextEv, nextId, spool, tmp, call, res, pc>>
          /\ todo' = [todo EXCEPT ![p] = Tail(todo[p])]
      BY <2>1 DEF FlushNext, bounds
    <2>3. /\ Range(todo[p]) = {Head(todo[p])} \cup Range(Tail(todo[p]))
          /\ Head(todo[p]) \in Entry
      BY <1>0, <2>1, TailRange
    <2>4. \/ pend' = pend
          \/ pend' = [pend EXCEPT ![p] = Append(pend[p], Head(todo[p]))]
      BY <1>4 DEF FlushInsert, FlushDuplicate, FlushInsertFails
    <2>5. Range(Append(pend[p], Head(todo[p]))) = Range(pend[p]) \cup {Head(todo[p])}
      BY <1>0, <2>3, AppendRange
    <2>6. log' \subseteq Known
      BY <1>4, <2>3 DEF FlushInsert, FlushDuplicate, FlushInsertFails
    <2>7. ASSUME NEW q \in Procs
          PROVE  Range(todo'[q]) \subseteq Known /\ Range(pend'[q]) \subseteq Known
      <3>1. CASE q = p
        BY <3>1, <2>2, <2>3, <2>4, <2>5 DEF TypeOK
      <3>2. CASE q # p
        BY <3>2, <2>2, <2>4 DEF TypeOK
      <3> QED BY <3>1, <3>2
    <2>8. Known' \subseteq Known
      BY <2>2, <2>6, <2>7, KnownWithin DEF TmpEntries
    <2> QED BY <2>2, <2>8 DEF Quiet, Unstored, Logging
  <1>5. CASE ReplaceSpool(p)
    <2>1. /\ AfterFlush(p) /\ pc[p] \in FlushPCs /\ UNCHANGED <<log, nextEv, nextId>>
      BY <1>5 DEF ReplaceSpool, bounds, FlushPCs
    <2>2. Range(spool)' \subseteq Known /\ TmpEntries' \subseteq Known
      BY <1>5, EmptyRange DEF ReplaceSpool, TmpEntries
    <2> QED BY <2>1, <2>2, AfterFlushQuiet
  <1> QED BY <1>1, <1>2, <1>3, <1>4, <1>5 DEF Flush

LEMMA KnownSame ==
    ASSUME UNCHANGED <<log, spool, tmp, todo, pend>>
    PROVE  Known' = Known
  BY DEF Known, TmpEntries

LEMMA LockQuiet ==
    ASSUME TypeOK, NEW p \in Procs, Lock(p) \/ LockTimeout(p)
    PROVE  Quiet
  <1>1. EnterLocked(p)
    BY DEF Lock, LockTimeout
  <1>2. /\ pc[p] \in FlushPCs \cup {"bodyLock"} /\ pc[p] # "idle"
        /\ pc' = [pc EXCEPT ![p] = LockedPC[pc[p]]]
        /\ UNCHANGED <<nextEv, nextId, log, spool, tmp, call, res, todo, pend>>
    BY <1>1 DEF EnterLocked, LockedPC, FlushPCs, shared, bounds, flushVars
  <1> QED BY <1>2, KnownParts, MoveQuiet DEF TmpEntries

LEMMA LeaveQuiet ==
    ASSUME TypeOK, NEW p \in Procs, NEW outcome, Leave(p, outcome),
           pc[p] \in {"body", "insert", "touch"},
           outcome = "busy" => pc[p] # "touch",
           UNCHANGED <<log, nextId>>
    PROVE  Quiet
  <1>1. Known' = Known
    BY KnownSame DEF Leave, flushVars
  <1>2. /\ pc' = [pc EXCEPT ![p] = "bodyUnlock"] /\ res' = [res EXCEPT ![p] = outcome]
        /\ UNCHANGED <<call, nextEv>>
    BY DEF Leave, bounds
  <1>3. \A q \in Procs : Logging(q)' => Logging(q) /\ call'[q] = call[q]
    BY <1>2 DEF Logging, TypeOK
  <1>4. \A q \in Procs : Unstored(q)' => Unstored(q)
    BY <1>2 DEF Unstored, Logging, TypeOK, FlushPCs
  <1> QED BY <1>1, <1>2, <1>3, <1>4 DEF Quiet

(* Insert stores the event of its call, once. *)
LEMMA InsertStores ==
    ASSUME TypeOK, NEW p \in Procs, Insert(p)
    PROVE  /\ NewEntry(call[p], StoredSession(call[p].session)) \in Entry
           /\ Store(p, NewEntry(call[p], StoredSession(call[p].session)))
  <1> DEFINE e == NewEntry(call[p], StoredSession(call[p].session))
  <1>1. call[p] \in LogCall /\ pc[p] = "insert"
    BY DEF Insert, TypeOK, CallFits, LogPCs
  <1>2. e \in Entry /\ e.ev = call[p].ev /\ e.id = nextId
    BY <1>1, NewEntryType, SessionType DEF NewEntry
  <1>3. /\ log' = log \cup {e} /\ nextId' = nextId + 1
        /\ UNCHANGED <<spool, tmp, todo, pend, call, nextEv>>
    BY DEF Insert, Leave, flushVars, bounds
  <1>4. Known' \subseteq Known \cup {e}
    BY <1>3 DEF Known, TmpEntries
  <1>5. \/ pc' = [pc EXCEPT ![p] = "touch"] /\ res' = res
        \/ pc' = [pc EXCEPT ![p] = "bodyUnlock"] /\ res' = [res EXCEPT ![p] = "created"]
    BY DEF Insert, Leave
  <1>6. \A q \in Procs : Logging(q)' => Logging(q) /\ call'[q] = call[q]
    BY <1>1, <1>3, <1>5 DEF Logging, TypeOK
  <1>7. \A q \in Procs : Unstored(q)' => Unstored(q) /\ q # p
    BY <1>1, <1>3, <1>5 DEF Unstored, Logging, TypeOK, FlushPCs
  <1>8. Unstored(p)
    BY <1>1 DEF Unstored, Logging
  <1> QED BY <1>2, <1>3, <1>4, <1>6, <1>7, <1>8 DEF Store

LEMMA SpoolAppendStores ==
    ASSUME TypeOK, NEW p \in Procs, SpoolAppend(p)
    PROVE  /\ NewEntry(call[p], call[p].session) \in Entry
           /\ Store(p, NewEntry(call[p], call[p].session))
  <1> DEFINE e == NewEntry(call[p], call[p].session)
  <1>1. call[p] \in LogCall /\ pc[p] = "spoolAppend"
    BY DEF SpoolAppend, TypeOK, CallFits, LogPCs
  <1>2. e \in Entry /\ e.ev = call[p].ev /\ e.id = nextId
    BY <1>1, NewEntryType, SessionType DEF NewEntry
  <1>3. /\ spool' = Append(spool, e) /\ nextId' = nextId + 1 /\ Reset(p)
        /\ UNCHANGED <<log, tmp, nextEv>>
    BY DEF SpoolAppend, Return, bounds
  <1>4. Range(spool') = Range(spool) \cup {e}
    BY <1>2, <1>3, AppendRange DEF TypeOK
  <1>5. ASSUME NEW q \in Procs
        PROVE  /\ Range(todo'[q]) \subseteq Known \cup {e}
               /\ Range(pend'[q]) \subseteq Known \cup {e}
    <2>1. CASE q = p
      <3>1. todo'[q] = <<>> /\ pend'[q] = <<>>
        BY <1>3, <2>1 DEF Reset, TypeOK
      <3> QED BY <3>1, EmptyRange
    <2>2. CASE q # p
      BY <1>3, <2>2, KnownParts DEF Reset, TypeOK
    <2> QED BY <2>1, <2>2
  <1>6. Known' \subseteq Known \cup {e}
    <2> DEFINE K == Known \cup {e}
    <2>1. log' \subseteq K /\ Range(spool)' \subseteq K /\ TmpEntries' \subseteq K
      BY <1>3, <1>4, KnownParts DEF TmpEntries
    <2> QED BY <1>5, <2>1, KnownWithin
  <1>7. \A q \in Procs : Logging(q)' => Logging(q) /\ call'[q] = call[q]
    BY <1>3 DEF Reset, Logging, TypeOK
  <1>8. \A q \in Procs : Unstored(q)' => Unstored(q) /\ q # p
    BY <1>3 DEF Reset, Unstored, Logging, TypeOK, FlushPCs
  <1>9. Unstored(p)
    BY <1>1 DEF Unstored, Logging
  <1> QED BY <1>2, <1>3, <1>6, <1>7, <1>8, <1>9 DEF Store

LEMMA BodyQuiet ==
    ASSUME TypeOK, NEW p \in Procs, Body(p), ~Insert(p)
    PROVE  Quiet
  <1>1. CASE LookupFresh(p)
    <2>1. /\ pc[p] = "body" /\ pc' = [pc EXCEPT ![p] = "insert"]
          /\ UNCHANGED <<nextEv, nextId, log, spool, tmp, call, res, todo, pend>>
      BY <1>1 DEF LookupFresh, shared, bounds, flushVars
    <2> QED BY <2>1, KnownParts, MoveQuiet DEF TmpEntries
  <1>2. CASE LookupDuplicate(p) \/ TouchAuto(p) \/ TouchFails(p) \/ TouchExplicit(p) \/ BodyFails(p)
    <2>1. /\ \E outcome \in {"skipped_duplicate", "created", "declared", "busy", "failed"} :
               Leave(p, outcome) /\ (outcome = "busy" => pc[p] # "touch")
          /\ pc[p] \in {"body", "insert", "touch"}
          /\ UNCHANGED <<log, nextId>>
      BY <1>2 DEF LookupDuplicate, TouchAuto, TouchFails, TouchExplicit, BodyFails
    <2> QED BY <2>1, LeaveQuiet
  <1>3. CASE BodyUnlock(p) \/ GiveUp(p)
    <2>1. /\ pc[p] # "idle"
          /\ UNCHANGED <<nextEv, nextId, log, spool, tmp>>
      BY <1>3 DEF BodyUnlock, GiveUp, shared, bounds
    <2>2. CASE Reset(p)
      BY <2>1, <2>2, KnownParts, ResetQuiet DEF TmpEntries
    <2>3. CASE /\ pc[p] = "bodyUnlock" /\ res[p] = "busy"
               /\ \E to : pc' = [pc EXCEPT ![p] = to]
               /\ res' = [res EXCEPT ![p] = None]
               /\ UNCHANGED <<call, todo, pend>>
      <3>1. \A q \in Procs : q # p => res'[q] = res[q]
        BY <2>3 DEF TypeOK
      <3> QED BY <2>1, <2>3, <3>1, KnownParts, MoveQuiet DEF TmpEntries
    <2>4. CASE GiveUp(p)
      BY <2>2, <2>4 DEF GiveUp, Return
    <2>5. CASE BodyUnlock(p)
      BY <2>2, <2>3, <2>5 DEF BodyUnlock, Return, flushVars
    <2> QED BY <1>3, <2>4, <2>5
  <1> QED BY <1>1, <1>2, <1>3 DEF Body

LEMMA SpoolingQuiet ==
    ASSUME TypeOK, NEW p \in Procs, SpoolCount(p) \/ SpoolFails(p)
    PROVE  Quiet
  <1>1. pc[p] \in {"spoolCount", "spoolAppend"} /\ UNCHANGED <<nextEv, nextId, log, spool, tmp>>
    BY DEF SpoolCount, SpoolFails, shared, bounds
  <1>2. CASE Reset(p)
    BY <1>1, <1>2, KnownParts, ResetQuiet DEF TmpEntries
  <1>3. CASE /\ pc' = [pc EXCEPT ![p] = "spoolAppend"]
             /\ UNCHANGED <<call, todo, pend, res>>
    BY <1>1, <1>3, KnownParts, MoveQuiet DEF TmpEntries
  <1> QED BY <1>2, <1>3 DEF SpoolCount, SpoolFails, Return, flushVars

LEMMA BeginPreserves ==
    ASSUME TypeOK, OneEntryInv, NEW p \in Procs,
           \/ \E m \in Messages : BeginLog(p, m)
           \/ \E d \in Declarations : BeginDeclare(p, d)
           \/ BeginFlush(p)
    PROVE  OneEntryInv'
  <1>1. /\ Known' = Known /\ nextId' = nextId
        /\ \A q \in Procs : q # p => pc'[q] = pc[q] /\ call'[q] = call[q] /\ res'[q] = res[q]
    <2>1. UNCHANGED <<log, spool, tmp, todo, pend, nextId, res>>
      BY DEF BeginLog, BeginDeclare, BeginFlush, Begin, shared, flushVars
    <2>2. \A q \in Procs : q # p => pc'[q] = pc[q] /\ call'[q] = call[q]
      BY DEF BeginLog, BeginDeclare, BeginFlush, Begin, TypeOK
    <2> QED BY <2>1, <2>2, KnownSame
  <1>2. nextEv \in Nat /\ nextEv' \in {nextEv, nextEv + 1}
    <2>1. nextEv \in Nat
      BY DEF TypeOK
    <2>2. nextEv' = nextEv \/ nextEv' = nextEv + 1
      BY DEF BeginLog, BeginDeclare, BeginFlush
    <2> QED BY <2>1, <2>2
  <1>3. call'[p] \in LogCall => call'[p].ev = nextEv /\ nextEv' = nextEv + 1
    <2>1. ASSUME NEW m \in Messages, BeginLog(p, m)
          PROVE  call'[p].ev = nextEv /\ nextEv' = nextEv + 1
      BY <2>1 DEF BeginLog, Begin, TypeOK
    <2>2. ASSUME NEW d \in Declarations, BeginDeclare(p, d)
          PROVE  call'[p].kind = "declare"
      BY <2>2 DEF BeginDeclare, Begin, TypeOK
    <2>3. ASSUME BeginFlush(p)
          PROVE  call'[p].kind = "flush"
      BY <2>3 DEF BeginFlush, Begin, TypeOK
    <2>4. call'[p] \in LogCall => call'[p].kind = "log"
      BY DEF LogCall
    <2> QED BY <2>1, <2>2, <2>3, <2>4
  <1>4. \A e \in Known : e.ev < nextEv /\ e.ev \in Nat
    BY KnownType DEF OneEntryInv, KnownIsPast, Entry
  <1>5. \A q \in Procs : q # p => (Logging(q)' <=> Logging(q)) /\ (Unstored(q)' <=> Unstored(q))
    BY <1>1 DEF Logging, Unstored
  <1>6. \A q \in Procs : Logging(q) => call[q].ev < nextEv /\ call[q].ev \in Nat
    BY DEF OneEntryInv, CallIsPast, Logging, LogCall
  <1>7. KnownIsPast' /\ OneEntry'
    BY <1>1, <1>2, <1>4 DEF OneEntryInv, KnownIsPast, OneEntry
  <1>8. CallIsPast'
    <2> SUFFICES ASSUME NEW q \in Procs, Logging(q)' PROVE call'[q].ev < nextEv'
      BY DEF CallIsPast
    <2>1. CASE q = p
      BY <1>2, <1>3, <2>1 DEF Logging
    <2>2. CASE q # p
      BY <1>1, <1>2, <1>5, <1>6, <2>2
    <2> QED BY <2>1, <2>2
  <1>9. OneCall'
    <2> SUFFICES ASSUME NEW q \in Procs, NEW r \in Procs, Logging(q)', Logging(r)',
                        call'[q].ev = call'[r].ev, q # r
                 PROVE  FALSE
      BY DEF OneCall
    <2>1. CASE q # p /\ r # p
      BY <1>1, <1>5, <2>1 DEF OneEntryInv, OneCall
    <2>2. CASE q = p \/ r = p
      BY <1>1, <1>2, <1>3, <1>5, <1>6, <2>2 DEF Logging
    <2> QED BY <2>1, <2>2
  <1>10. UnstoredIsNew'
    <2> SUFFICES ASSUME NEW q \in Procs, Unstored(q)', NEW e \in Known
                 PROVE  e.ev # call'[q].ev
      BY <1>1 DEF UnstoredIsNew
    <2>1. CASE q = p
      BY <1>2, <1>3, <1>4, <2>1 DEF Unstored, Logging
    <2>2. CASE q # p
      BY <1>1, <1>5, <2>2 DEF OneEntryInv, UnstoredIsNew
    <2> QED BY <2>1, <2>2
  <1> QED BY <1>7, <1>8, <1>9, <1>10 DEF OneEntryInv

LEMMA OneEntryNext == TypeOK /\ OneEntryInv /\ [Next]_vars => OneEntryInv'
  <1> SUFFICES ASSUME TypeOK, OneEntryInv, [Next]_vars PROVE OneEntryInv'
    OBVIOUS
  <1>1. CASE UNCHANGED vars
    <2>1. Known' = Known
      BY <1>1, KnownSame DEF vars
    <2> QED BY <1>1, <2>1, QuietPreserves DEF vars, Quiet, Unstored, Logging
  <1>2. ASSUME NEW p \in Procs, Step(p) PROVE OneEntryInv'
    <2>1. CASE Insert(p)
      BY <2>1, InsertStores, StorePreserves
    <2>2. CASE SpoolAppend(p)
      BY <2>2, SpoolAppendStores, StorePreserves
    <2>3. CASE ~Insert(p) /\ ~SpoolAppend(p)
      <3>1. Quiet
        BY <1>2, <2>3, LockQuiet, FlushQuiet, BodyQuiet, SpoolingQuiet DEF Step, Spooling
      <3> QED BY <3>1, QuietPreserves
    <2> QED BY <2>1, <2>2, <2>3
  <1>3. ASSUME NEW p \in Procs, Crash(p) PROVE OneEntryInv'
    <2>1. Reset(p) /\ UNCHANGED <<nextEv, nextId, log, spool, tmp>>
      BY <1>3 DEF Crash, shared
    <2> QED BY <2>1, KnownParts, ResetQuiet, QuietPreserves DEF TmpEntries
  <1> QED BY <1>1, <1>2, <1>3, BeginPreserves DEF Next

LEMMA OneEntryInit == Init => OneEntryInv
  <1> SUFFICES ASSUME Init PROVE OneEntryInv
    OBVIOUS
  <1>1. Known = {}
    BY EmptyRange DEF Init, Known, TmpEntries
  <1>2. \A p \in Procs : ~Logging(p)
    BY DEF Init, Logging
  <1> QED BY <1>1, <1>2 DEF OneEntryInv, KnownIsPast, OneEntry, CallIsPast, OneCall,
       UnstoredIsNew, Unstored

(* No event becomes two rows, however many processes flush at once, die or *)
(* write without the lock.                                                 *)
THEOREM OneRowPerEvent == Spec => []AtMostOneRow
  <1>1. OneEntryInv => AtMostOneRow
    <2> SUFFICES ASSUME OneEntryInv, NEW r \in log, NEW s \in log, r.ev = s.ev
                 PROVE  r = s
      BY DEF AtMostOneRow
    <2>1. r \in Known /\ s \in Known
      BY KnownParts
    <2> QED BY <2>1 DEF OneEntryInv, OneEntry
  <1> QED BY <1>1, TypeInit, TypeNext, OneEntryInit, OneEntryNext, PTL DEF Spec

-----------------------------------------------------------------------------
(* Durability, when the processes do not overlap.                          *)
(*                                                                         *)
(* With one process at a time, which may die and be followed by another,   *)
(* a spooled entry leaves the spool only after it is in the table: while a *)
(* flush is under way every line of the spool is stored, not yet tried or  *)
(* pending, and the temporary file that replaces the spool is the list of  *)
(* pending entries.  With two processes this is false.                     *)

SpoolCovered ==
    \A p \in Procs :
        /\ pc[p] \in {"flushLock", "flushOpen"} => Range(spool) \subseteq Range(todo[p])
        /\ pc[p] \in {"flushInsert", "flushUnlock", "rewrite", "replace"} =>
             Range(spool) \subseteq log \cup Range(todo[p]) \cup Range(pend[p])

NothingTodo ==
    \A p \in Procs : pc[p] \in {"flushUnlock", "rewrite", "replace"} => Range(todo[p]) = {}

TmpIsPending == \A p \in Procs : pc[p] = "replace" => tmp = pend[p]

Repeats(r, c) ==
    r.session = StoredSession(c.session) /\ r.role = "assistant" /\ r.content = c.content

BodyResult ==
    \A p \in Procs :
        /\ pc[p] = "bodyUnlock" =>
             res[p] \in {"created", "skipped_duplicate", "declared", "busy", "failed"}
        /\ pc[p] = "touch" \/ (pc[p] = "bodyUnlock" /\ res[p] = "created") =>
             \E r \in log : r.ev = call[p].ev
        /\ pc[p] = "bodyUnlock" /\ res[p] = "skipped_duplicate" =>
             \E r \in log : Repeats(r, call[p])

DurableInv == SpoolCovered /\ NothingTodo /\ TmpIsPending /\ BodyResult /\ NoAckedEventLost

(* No step takes a row from the table, or a line from the spool that does  *)
(* not go to the table.                                                    *)
Keeps == log \subseteq log' /\ Range(spool) \subseteq log' \cup Range(spool')

LEMMA KeepsAcked ==
    ASSUME NoAckedEventLost, Keeps,
           \A a \in acks' \ acks :
              /\ a.result \in {"created", "spooled"} =>
                   \E e \in log' \cup Range(spool') : e.ev = a.call.ev
              /\ a.result = "skipped_duplicate" => \E r \in log' : Repeats(r, a.call)
    PROVE  NoAckedEventLost'
  <1> SUFFICES ASSUME NEW a \in acks'
               PROVE  /\ a.result \in {"created", "spooled"} =>
                           \E e \in log' \cup Range(spool') : e.ev = a.call.ev
                      /\ a.result = "skipped_duplicate" =>
                           \E r \in log' : Repeats(r, a.call)
    BY DEF NoAckedEventLost, Repeats
  <1>1. CASE a \in acks
    BY <1>1 DEF NoAckedEventLost, Keeps, Repeats
  <1>2. CASE a \notin acks
    BY <1>2
  <1> QED BY <1>1, <1>2

(* What a reset leaves of the invariant, when there is one process. *)
LEMMA ResetDurable ==
    ASSUME NEW h, Procs = {h}, TypeOK, Reset(h), NoAckedEventLost'
    PROVE  DurableInv'
  <1>1. pc'[h] = "idle"
    BY DEF Reset, TypeOK
  <1> QED BY <1>1 DEF DurableInv, SpoolCovered, NothingTodo, TmpIsPending, BodyResult,
       FlushPCs

LEMMA AfterFlushDurable ==
    ASSUME NEW h, Procs = {h}, TypeOK, DurableInv, AfterFlush(h), Keeps
    PROVE  DurableInv'
  <1>1. CASE call[h].kind = "log"
    <2>1. pc'[h] = "bodyLock" /\ acks' = acks
      BY <1>1 DEF AfterFlush, TypeOK
    <2>2. NoAckedEventLost'
      BY <2>1, KeepsAcked DEF DurableInv
    <2> QED BY <2>1, <2>2 DEF DurableInv, SpoolCovered, NothingTodo, TmpIsPending, BodyResult,
         FlushPCs
  <1>2. CASE call[h].kind # "log"
    <2>1. Reset(h) /\ acks' \subseteq acks \cup {[call |-> call[h], result |-> "flushed"]}
      BY <1>2 DEF AfterFlush, Return
    <2>2. NoAckedEventLost'
      BY <2>1, KeepsAcked DEF DurableInv
    <2> QED BY <2>1, <2>2, ResetDurable
  <1> QED BY <1>1, <1>2

LEMMA FlushDurable ==
    ASSUME NEW h, Procs = {h}, TypeOK, OneEntryInv, DurableInv, Flush(h)
    PROVE  DurableInv'
  <1> USE DEF FlushPCs
  <1>0. todo[h] \in Seq(Entry) /\ pend[h] \in Seq(Entry)
    BY DEF TypeOK
  <1>1. CASE FlushRead(h)
    <2>1. UNCHANGED <<log, spool>> /\ Keeps
      BY <1>1 DEF FlushRead, shared, Keeps
    <2>2. CASE spool = <<>>
      BY <1>1, <2>1, <2>2, AfterFlushDurable DEF FlushRead
    <2>3. CASE spool # <<>>
      <3>1. pc'[h] = "flushLock" /\ todo'[h] = spool /\ acks' = acks
        BY <1>1, <2>3 DEF FlushRead, TypeOK
      <3>2. NoAckedEventLost'
        BY <2>1, <3>1, KeepsAcked DEF DurableInv
      <3> QED BY <2>1, <3>1, <3>2 DEF DurableInv, SpoolCovered, NothingTodo, TmpIsPending, BodyResult
    <2> QED BY <2>2, <2>3
  <1>2. CASE FlushOpenFails(h) \/ FlushStop(h)
    <2>1. /\ pc[h] \in {"flushOpen", "flushInsert"} /\ pc'[h] = "flushUnlock"
          /\ todo'[h] = <<>> /\ UNCHANGED <<log, spool, acks>>
      BY <1>2 DEF FlushOpenFails, FlushStop, shared, TypeOK
    <2>2. Range(pend[h] \o todo[h]) = Range(pend[h]) \cup Range(todo[h])
      BY <1>0, RangeConcatenation
    <2>3. Range(todo[h]) \subseteq Range(pend'[h])
      BY <1>2, <2>2 DEF FlushOpenFails, FlushStop, TypeOK
    <2>4. Range(pend[h]) \subseteq Range(pend'[h]) \/ pc[h] = "flushOpen"
      BY <1>2, <2>2 DEF FlushOpenFails, FlushStop, TypeOK
    <2>5. Keeps /\ NoAckedEventLost'
      BY <2>1, KeepsAcked DEF Keeps, DurableInv
    <2>6. Range(spool') \subseteq log' \cup Range(pend'[h])
      BY <2>1, <2>3, <2>4 DEF DurableInv, SpoolCovered
    <2> QED BY <2>1, <2>5, <2>6, EmptyRange DEF DurableInv, SpoolCovered, NothingTodo, TmpIsPending,
         BodyResult
  <1>3. CASE FlushOpen(h)
    <2>1. /\ pc[h] = "flushOpen" /\ pc'[h] = "flushInsert"
          /\ UNCHANGED <<log, spool, todo, pend, acks>>
      BY <1>3 DEF FlushOpen, shared, flushVars, TypeOK
    <2>2. Keeps /\ NoAckedEventLost'
      BY <2>1, KeepsAcked DEF Keeps, DurableInv
    <2> QED BY <2>1, <2>2 DEF DurableInv, SpoolCovered, NothingTodo, TmpIsPending, BodyResult
  <1>4. CASE FlushInsert(h) \/ FlushDuplicate(h) \/ FlushInsertFails(h)
    <2>1. FlushNext(h) /\ todo[h] # <<>> /\ pc[h] = "flushInsert"
      BY <1>4 DEF FlushInsert, FlushDuplicate, FlushInsertFails, FlushNext
    <2>2. /\ UNCHANGED <<spool, acks, pc>> /\ todo'[h] = Tail(todo[h])
      BY <2>1 DEF FlushNext, TypeOK
    <2>3. /\ Range(todo[h]) = {Head(todo[h])} \cup Range(Tail(todo[h]))
          /\ Head(todo[h]) \in Entry
      BY <1>0, <2>1, TailRange
    <2>4. Range(Append(pend[h], Head(todo[h]))) = Range(pend[h]) \cup {Head(todo[h])}
      BY <1>0, <2>3, AppendRange
    <2>5. /\ log \subseteq log' /\ Range(pend[h]) \subseteq Range(pend'[h])
          /\ Head(todo[h]) \in log' \cup Range(pend'[h])
      <3>1. CASE FlushInsert(h)
        BY <3>1 DEF FlushInsert
      <3>2. CASE FlushDuplicate(h)
        <4>1. PICK r \in log : r.id = Head(todo[h]).id
          BY <3>2 DEF FlushDuplicate, HasRow
        <4>2. r \in Known /\ Head(todo[h]) \in Known
          BY <2>3, KnownParts
        <4>3. r = Head(todo[h])
          BY <4>1, <4>2 DEF OneEntryInv, OneEntry
        <4> QED BY <3>2, <4>3 DEF FlushDuplicate
      <3>3. CASE FlushInsertFails(h)
        BY <2>4, <3>3 DEF FlushInsertFails, TypeOK
      <3> QED BY <1>4, <3>1, <3>2, <3>3
    <2>6. Keeps /\ NoAckedEventLost'
      BY <2>2, <2>5, KeepsAcked DEF Keeps, DurableInv
    <2>7. Range(spool') \subseteq log' \cup Range(todo'[h]) \cup Range(pend'[h])
      BY <2>1, <2>2, <2>3, <2>5 DEF DurableInv, SpoolCovered
    <2> QED BY <2>1, <2>2, <2>6, <2>7 DEF DurableInv, SpoolCovered, NothingTodo, TmpIsPending,
         BodyResult
  <1>5. CASE FlushUnlock(h) \/ RewriteTmp(h)
    <2>1. /\ pc[h] \in {"flushUnlock", "rewrite"} /\ pc'[h] \in {"rewrite", "replace"}
          /\ UNCHANGED <<log, spool, todo, pend, acks>>
          /\ pc'[h] = "replace" => tmp' = pend[h]
      BY <1>5 DEF FlushUnlock, RewriteTmp, shared, flushVars, TypeOK
    <2>2. Keeps /\ NoAckedEventLost'
      BY <2>1, KeepsAcked DEF Keeps, DurableInv
    <2> QED BY <2>1, <2>2 DEF DurableInv, SpoolCovered, NothingTodo, TmpIsPending, BodyResult
  <1>6. CASE ReplaceSpool(h)
    <2>1. AfterFlush(h) /\ pc[h] = "replace" /\ log' = log
      BY <1>6 DEF ReplaceSpool
    <2>2. Range(spool) \subseteq log \cup Range(pend[h]) /\ tmp = pend[h]
      BY <2>1 DEF DurableInv, SpoolCovered, NothingTodo, TmpIsPending
    <2>3. spool' = spool \/ spool' = pend[h]
      BY <1>6, <2>2 DEF ReplaceSpool
    <2>4. Keeps
      BY <2>1, <2>2, <2>3 DEF Keeps
    <2> QED BY <2>1, <2>4, AfterFlushDurable
  <1> QED BY <1>1, <1>2, <1>3, <1>4, <1>5, <1>6 DEF Flush

(* A step outside the flush and the spool. *)
LEMMA BodyDurable ==
    ASSUME NEW h, Procs = {h}, TypeOK, DurableInv, Body(h)
    PROVE  DurableInv'
  <1>1. CASE LookupFresh(h)
    <2>1. pc'[h] = "insert" /\ UNCHANGED <<log, spool, acks>>
      BY <1>1 DEF LookupFresh, shared, TypeOK
    <2>2. NoAckedEventLost'
      BY <2>1, KeepsAcked DEF Keeps, DurableInv
    <2> QED BY <2>1, <2>2 DEF DurableInv, SpoolCovered, NothingTodo, TmpIsPending, BodyResult
  <1>2. CASE LookupDuplicate(h)
    <2>1. /\ pc'[h] = "bodyUnlock" /\ res'[h] = "skipped_duplicate"
          /\ UNCHANGED <<log, spool, acks, call>>
      BY <1>2 DEF LookupDuplicate, Leave, TypeOK
    <2>2. \E r \in log : Repeats(r, call[h])
      BY <1>2 DEF LookupDuplicate, LatestAssistant, Repeats
    <2>3. NoAckedEventLost'
      BY <2>1, KeepsAcked DEF Keeps, DurableInv
    <2> QED BY <2>1, <2>2, <2>3 DEF DurableInv, SpoolCovered, NothingTodo, TmpIsPending, BodyResult, Repeats
  <1>3. CASE Insert(h)
    <2> DEFINE e == NewEntry(call[h], StoredSession(call[h].session))
    <2>1. /\ log' = log \cup {e} /\ e.ev = call[h].ev /\ UNCHANGED <<spool, acks, call>>
          /\ pc'[h] = "touch" \/ (pc'[h] = "bodyUnlock" /\ res'[h] = "created")
      BY <1>3 DEF Insert, Leave, NewEntry, TypeOK
    <2>2. NoAckedEventLost'
      BY <2>1, KeepsAcked DEF Keeps, DurableInv
    <2> QED BY <2>1, <2>2 DEF DurableInv, SpoolCovered, NothingTodo, TmpIsPending, BodyResult
  <1>4. CASE TouchAuto(h) \/ TouchFails(h) \/ TouchExplicit(h) \/ BodyFails(h)
    <2>1. /\ pc'[h] = "bodyUnlock" /\ res'[h] \in {"created", "declared", "busy", "failed"}
          /\ res'[h] = "created" => pc[h] = "touch"
          /\ UNCHANGED <<log, spool, acks, call>>
      BY <1>4 DEF TouchAuto, TouchFails, TouchExplicit, BodyFails, Leave, TypeOK
    <2>2. NoAckedEventLost'
      BY <2>1, KeepsAcked DEF Keeps, DurableInv
    <2> QED BY <2>1, <2>2 DEF DurableInv, SpoolCovered, NothingTodo, TmpIsPending, BodyResult
  <1>5. CASE BodyUnlock(h) \/ GiveUp(h)
    <2>1. Keeps
      BY <1>5 DEF BodyUnlock, GiveUp, shared, Keeps
    <2>2. CASE /\ UNCHANGED <<log, spool, acks>>
               /\ pc'[h] \in {"bodyLock", "spoolCount", "giveUp"}
      <3>1. NoAckedEventLost'
        BY <2>1, <2>2, KeepsAcked DEF DurableInv
      <3> QED BY <2>2, <3>1 DEF DurableInv, SpoolCovered, NothingTodo, TmpIsPending, BodyResult
    <2>3. CASE /\ pc[h] = "bodyUnlock" /\ res[h] # "busy" /\ Return(h, res[h])
      <3>1. acks' \subseteq acks \cup {[call |-> call[h], result |-> res[h]]} /\ Reset(h)
        BY <2>3 DEF Return
      <3>2. /\ res[h] \in {"created", "skipped_duplicate", "declared", "failed"}
            /\ res[h] = "created" => \E r \in log : r.ev = call[h].ev
            /\ res[h] = "skipped_duplicate" => \E r \in log : Repeats(r, call[h])
        BY <2>3 DEF DurableInv, BodyResult
      <3>3. NoAckedEventLost'
        BY <2>1, <3>1, <3>2, KeepsAcked DEF DurableInv, Keeps
      <3> QED BY <3>1, <3>3, ResetDurable
    <2>4. CASE GiveUp(h)
      <3>1. acks' \subseteq acks \cup {[call |-> call[h], result |-> "failed"]} /\ Reset(h)
        BY <2>4 DEF GiveUp, Return
      <3>2. NoAckedEventLost'
        BY <2>1, <3>1, KeepsAcked DEF DurableInv
      <3> QED BY <3>1, <3>2, ResetDurable
    <2>5. CASE BodyUnlock(h) /\ res[h] = "busy"
      <3>1. UNCHANGED <<log, spool, acks>> /\ pc'[h] \in {"bodyLock", "spoolCount", "giveUp"}
        BY <2>5 DEF BodyUnlock, shared, TypeOK
      <3> QED BY <2>2, <3>1
    <2>6. CASE BodyUnlock(h) /\ res[h] # "busy"
      BY <2>3, <2>6 DEF BodyUnlock
    <2> QED BY <1>5, <2>4, <2>5, <2>6
  <1> QED BY <1>1, <1>2, <1>3, <1>4, <1>5 DEF Body

LEMMA SpoolingDurable ==
    ASSUME NEW h, Procs = {h}, TypeOK, DurableInv, Spooling(h)
    PROVE  DurableInv'
  <1>1. CASE SpoolAppend(h)
    <2> DEFINE e == NewEntry(call[h], call[h].session)
    <2>1. call[h] \in LogCall /\ Reset(h) /\ log' = log /\ spool' = Append(spool, e)
          /\ acks' \subseteq acks \cup {[call |-> call[h], result |-> "spooled"]}
      BY <1>1 DEF SpoolAppend, Return, TypeOK, CallFits, LogPCs
    <2>2. e \in Entry /\ e.ev = call[h].ev
      BY <2>1, NewEntryType, SessionType DEF NewEntry
    <2>3. Range(spool') = Range(spool) \cup {e}
      BY <2>1, <2>2, AppendRange DEF TypeOK
    <2>4. NoAckedEventLost'
      BY <2>1, <2>2, <2>3, KeepsAcked DEF Keeps, DurableInv
    <2> QED BY <2>1, <2>4, ResetDurable
  <1>2. CASE SpoolCount(h) \/ SpoolFails(h)
    <2>1. UNCHANGED <<log, spool>> /\ Keeps
      BY <1>2 DEF SpoolCount, SpoolFails, shared, Keeps
    <2>2. CASE \E result \in {"dropped", "failed"} : Return(h, result)
      <3>1. PICK result \in {"dropped", "failed"} :
              Reset(h) /\ acks' \subseteq acks \cup {[call |-> call[h], result |-> result]}
        BY <2>2 DEF Return
      <3>2. NoAckedEventLost'
        BY <2>1, <3>1, KeepsAcked DEF DurableInv
      <3> QED BY <3>1, <3>2, ResetDurable
    <2>3. CASE pc'[h] = "spoolAppend" /\ acks' = acks
      <3>1. NoAckedEventLost'
        BY <2>1, <2>3, KeepsAcked DEF DurableInv
      <3> QED BY <2>3, <3>1 DEF DurableInv, SpoolCovered, NothingTodo, TmpIsPending, BodyResult
    <2> QED BY <1>2, <2>2, <2>3 DEF SpoolCount, SpoolFails, TypeOK
  <1> QED BY <1>1, <1>2 DEF Spooling

LEMMA DurableNext ==
    ASSUME NEW h, Procs = {h}, TypeOK, OneEntryInv, DurableInv, [Next]_vars
    PROVE  DurableInv'
  <1>1. CASE UNCHANGED vars
    BY <1>1 DEF vars, DurableInv, SpoolCovered, NothingTodo, TmpIsPending, BodyResult,
       NoAckedEventLost, Repeats
  <1>2. CASE \/ \E m \in Messages : BeginLog(h, m)
             \/ \E d \in Declarations : BeginDeclare(h, d)
             \/ BeginFlush(h)
    <2>1. pc'[h] \in {"flushRead", "bodyLock"} /\ UNCHANGED <<log, spool, acks>>
      BY <1>2 DEF BeginLog, BeginDeclare, BeginFlush, Begin, shared, TypeOK
    <2>2. NoAckedEventLost'
      BY <2>1, KeepsAcked DEF Keeps, DurableInv
    <2> QED BY <2>1, <2>2 DEF DurableInv, SpoolCovered, NothingTodo, TmpIsPending, BodyResult
  <1>3. CASE Lock(h) \/ LockTimeout(h)
    <2>1. EnterLocked(h)
      BY <1>3 DEF Lock, LockTimeout
    <2>2. /\ UNCHANGED <<log, spool, todo, pend, acks>>
          /\ \/ pc[h] = "flushLock" /\ pc'[h] = "flushOpen"
             \/ pc[h] = "bodyLock" /\ pc'[h] = "body"
      BY <2>1 DEF EnterLocked, LockedPC, shared, flushVars, TypeOK
    <2>3. NoAckedEventLost'
      BY <2>2, KeepsAcked DEF Keeps, DurableInv
    <2> QED BY <2>2, <2>3 DEF DurableInv, SpoolCovered, NothingTodo, TmpIsPending, BodyResult
  <1>4. CASE Crash(h)
    <2>1. Reset(h) /\ UNCHANGED <<log, spool, acks>>
      BY <1>4 DEF Crash, shared
    <2>2. NoAckedEventLost'
      BY <2>1, KeepsAcked DEF Keeps, DurableInv
    <2> QED BY <2>1, <2>2, ResetDurable
  <1> QED BY <1>1, <1>2, <1>3, <1>4, FlushDurable, BodyDurable, SpoolingDurable DEF Next, Step

(* A process alone loses no event it acknowledged, whatever it is busy     *)
(* with when it dies, and whatever the database refuses.                   *)
THEOREM AloneLosesNothing ==
    ASSUME NEW CONSTANT h, Procs = {h}
    PROVE  Spec => []NoAckedEventLost
  <1>1. Init => DurableInv
    BY DEF Init, DurableInv, SpoolCovered, NothingTodo, TmpIsPending, BodyResult, NoAckedEventLost
  <1>2. TypeOK /\ OneEntryInv /\ DurableInv /\ [Next]_vars => DurableInv'
    BY DurableNext
  <1>3. DurableInv => NoAckedEventLost
    BY DEF DurableInv
  <1> QED BY <1>1, <1>2, <1>3, TypeInit, TypeNext, OneEntryInit, OneEntryNext, PTL DEF Spec

-----------------------------------------------------------------------------
(* A declaration is kept.                                                  *)
(*                                                                         *)
(* A process that declared has yet to release the lock and to return: the  *)
(* row must not be lost before either.                                     *)

Declared(s) == s \in Sessions /\ status[s] # None /\ status[s].explicit

AboutToConfirm(p) == pc[p] = "bodyUnlock" /\ res[p] = "declared"

DeclarationInv ==
    /\ \A a \in acks : a.result = "declared" => Declared(a.call.session)
    /\ \A p \in Procs : AboutToConfirm(p) => Declared(call[p].session)

(* Only a prompt spares a status, and no statement takes a declared one    *)
(* away.                                                                   *)
LEMMA DeclaredStays ==
    ASSUME TypeOK, [Next]_vars, NEW s, Declared(s) PROVE Declared(s)'
  <1>1. CASE status' = status
    BY <1>1 DEF Declared
  <1>2. ASSUME NEW p \in Procs, TouchAuto(p) PROVE Declared(s)'
    <2>1. CASE call[p].session = s
      BY <1>2, <2>1 DEF TouchAuto, Declared
    <2>2. CASE call[p].session # s
      BY <1>2, <2>2 DEF TouchAuto, Declared, TypeOK
    <2> QED BY <2>1, <2>2
  <1>3. ASSUME NEW p \in Procs, TouchExplicit(p) PROVE Declared(s)'
    <2> DEFINE st == [text |-> call[p].text, explicit |-> TRUE]
    <2>1. call[p] \in DeclareCall
      BY <1>3 DEF TouchExplicit, TypeOK, CallFits, BodyPCs, LogCall
    <2>2. st \in [text : Texts, explicit : BOOLEAN] /\ st.explicit
      BY <2>1 DEF DeclareCall
    <2>3. status' = [status EXCEPT ![call[p].session] = st]
      BY <1>3 DEF TouchExplicit
    <2> HIDE DEF st
    <2>4. st # None
      BY <2>2
    <2> QED BY <2>2, <2>3, <2>4 DEF Declared, TypeOK
  <1>4. status' = status \/ \E p \in Procs : TouchAuto(p) \/ TouchExplicit(p)
    <2>1. \A p \in Procs : Flush(p) => status' = status
      BY DEF Flush, FlushRead, FlushOpenFails, FlushOpen, FlushInsert, FlushDuplicate,
         FlushInsertFails, FlushNext, FlushStop, FlushUnlock, RewriteTmp, ReplaceSpool, shared
    <2>2. \A p \in Procs : Body(p) => status' = status \/ TouchAuto(p) \/ TouchExplicit(p)
      BY DEF Body, LookupDuplicate, LookupFresh, Insert, TouchFails, BodyFails, BodyUnlock,
         GiveUp, shared
    <2>3. \A p \in Procs : Spooling(p) => status' = status
      BY DEF Spooling, SpoolCount, SpoolAppend, SpoolFails, shared
    <2>4. \A p \in Procs : Lock(p) \/ LockTimeout(p) \/ Crash(p) => status' = status
      BY DEF Lock, LockTimeout, EnterLocked, Crash, shared
    <2>5. \A p \in Procs :
             (\E m \in Messages : BeginLog(p, m)) \/ (\E d \in Declarations : BeginDeclare(p, d))
               \/ BeginFlush(p) => status' = status
      BY DEF BeginLog, BeginDeclare, BeginFlush, Begin, shared
    <2> QED BY <2>1, <2>2, <2>3, <2>4, <2>5 DEF Next, Step, vars
  <1> QED BY <1>1, <1>2, <1>3, <1>4

(* Whoever is about to confirm has just declared, or was already.          *)
LEMMA ConfirmsDeclared ==
    ASSUME TypeOK, DeclarationInv, [Next]_vars, NEW p \in Procs, AboutToConfirm(p)'
    PROVE  Declared(call[p].session)'
  <1>1. CASE pc'[p] = pc[p] /\ res'[p] = res[p] /\ call'[p] = call[p]
    <2> DEFINE s == call[p].session
    <2>1. Declared(s) /\ s' = s
      BY <1>1 DEF DeclarationInv, AboutToConfirm
    <2> HIDE DEF s
    <2>2. Declared(s)'
      BY <2>1, DeclaredStays
    <2> QED BY <2>1, <2>2 DEF s
  <1>2. CASE TouchExplicit(p)
    <2> DEFINE st == [text |-> call[p].text, explicit |-> TRUE]
    <2>1. call[p] \in DeclareCall
      BY <1>2 DEF TouchExplicit, TypeOK, CallFits, BodyPCs, LogCall
    <2>2. call[p].session \in Sessions /\ st \in [text : Texts, explicit : BOOLEAN] /\ st.explicit
      BY <2>1 DEF DeclareCall, Sessions
    <2>3. status' = [status EXCEPT ![call[p].session] = st] /\ call' = call
      BY <1>2 DEF TouchExplicit, Leave
    <2> HIDE DEF st
    <2>4. st # None
      BY <2>2
    <2> QED BY <2>2, <2>3, <2>4 DEF Declared, TypeOK
  <1>3. \/ pc'[p] = pc[p] /\ res'[p] = res[p] /\ call'[p] = call[p]
        \/ TouchExplicit(p)
    <2>1. CASE UNCHANGED vars
      BY <2>1 DEF vars
    <2>2. ASSUME NEW q \in Procs, q # p,
                 \/ \E m \in Messages : BeginLog(q, m)
                 \/ \E d \in Declarations : BeginDeclare(q, d)
                 \/ BeginFlush(q) \/ Step(q) \/ Crash(q)
          PROVE  pc'[p] = pc[p] /\ res'[p] = res[p] /\ call'[p] = call[p]
      <3>1. ASSUME \/ \E m \in Messages : BeginLog(q, m)
                   \/ \E d \in Declarations : BeginDeclare(q, d)
                   \/ BeginFlush(q) \/ Crash(q) \/ Lock(q) \/ LockTimeout(q)
            PROVE  pc'[p] = pc[p] /\ res'[p] = res[p] /\ call'[p] = call[p]
        BY <2>2, <3>1 DEF Begin, BeginLog, BeginDeclare, BeginFlush, Lock, LockTimeout,
           EnterLocked, Crash, Reset, TypeOK
      <3>2. ASSUME Flush(q)
            PROVE  pc'[p] = pc[p] /\ res'[p] = res[p] /\ call'[p] = call[p]
        BY <2>2, <3>2 DEF Flush, FlushRead, FlushOpenFails, FlushOpen, FlushInsert,
           FlushDuplicate, FlushInsertFails, FlushNext, FlushStop, FlushUnlock, RewriteTmp,
           ReplaceSpool, AfterFlush, Return, Reset, Leave, TypeOK
      <3>3. ASSUME Body(q)
            PROVE  pc'[p] = pc[p] /\ res'[p] = res[p] /\ call'[p] = call[p]
        BY <2>2, <3>3 DEF Body, LookupDuplicate, LookupFresh, Insert, TouchAuto, TouchExplicit,
           TouchFails, BodyFails, BodyUnlock, GiveUp, Return, Reset, Leave, TypeOK
      <3>4. ASSUME Spooling(q)
            PROVE  pc'[p] = pc[p] /\ res'[p] = res[p] /\ call'[p] = call[p]
        BY <2>2, <3>4 DEF Spooling, SpoolCount, SpoolAppend, SpoolFails, Return, Reset, Leave, TypeOK
      <3> QED BY <2>2, <3>1, <3>2, <3>3, <3>4 DEF Step
    <2>3. ASSUME \/ \E m \in Messages : BeginLog(p, m)
                 \/ \E d \in Declarations : BeginDeclare(p, d)
                 \/ BeginFlush(p) \/ Crash(p) \/ Lock(p) \/ LockTimeout(p) \/ Flush(p) \/ Spooling(p)
          PROVE  pc'[p] # "bodyUnlock" \/ (pc'[p] = pc[p] /\ res'[p] = res[p] /\ call'[p] = call[p])
      BY <2>3 DEF Flush, Spooling, Begin, BeginLog, BeginDeclare, BeginFlush, Lock,
         LockTimeout, EnterLocked, LockedPC, FlushRead, FlushOpenFails, FlushOpen, FlushInsert,
         FlushDuplicate, FlushInsertFails, FlushNext, FlushStop, FlushUnlock, RewriteTmp,
         ReplaceSpool, SpoolCount, SpoolAppend, SpoolFails, Crash, AfterFlush, Return, Reset, TypeOK
    <2>4. ASSUME Body(p), ~TouchExplicit(p)
          PROVE  pc'[p] # "bodyUnlock" \/ res'[p] # "declared"
      BY <2>4 DEF Body, LookupDuplicate, LookupFresh, Insert, TouchAuto, TouchFails, BodyFails,
         BodyUnlock, GiveUp, Return, Reset, Leave, TypeOK
    <2> QED BY <2>1, <2>2, <2>3, <2>4 DEF Next, Step, AboutToConfirm
  <1> QED BY <1>1, <1>2, <1>3

(* Only a process that is about to confirm tells its caller so.            *)
LEMMA ConfirmedDeclared ==
    ASSUME TypeOK, DeclarationInv, [Next]_vars, NEW a \in acks', a.result = "declared"
    PROVE  Declared(a.call.session)
  <1>1. CASE a \in acks
    BY <1>1 DEF DeclarationInv
  <1>2. ASSUME NEW p \in Procs, Step(p), a \notin acks
        PROVE  AboutToConfirm(p) /\ a.call = call[p]
    <2>1. PICK result : Return(p, result) /\ ((BodyUnlock(p) /\ result = res[p]) \/ result # "declared")
      <3>1. acks' # acks
        BY <1>2
      <3>2. Flush(p) => Return(p, "flushed")
        BY <3>1 DEF Flush, FlushRead, FlushOpenFails, FlushOpen, FlushInsert, FlushDuplicate,
           FlushInsertFails, FlushNext, FlushStop, FlushUnlock, RewriteTmp, ReplaceSpool, AfterFlush
      <3>3. Spooling(p) => Return(p, "dropped") \/ Return(p, "spooled") \/ Return(p, "failed")
        BY <3>1 DEF Spooling, SpoolCount, SpoolAppend, SpoolFails
      <3>4. Body(p) => Return(p, "failed") \/ (BodyUnlock(p) /\ Return(p, res[p]))
        BY <3>1 DEF Body, LookupDuplicate, LookupFresh, Insert, TouchAuto, TouchExplicit,
           TouchFails, BodyFails, BodyUnlock, GiveUp, Leave
      <3>5. ~Lock(p) /\ ~LockTimeout(p)
        BY <3>1 DEF Lock, LockTimeout, EnterLocked
      <3> QED BY <1>2, <3>2, <3>3, <3>4, <3>5 DEF Step
    <2> DEFINE ack == [call |-> call[p], result |-> result]
    <2>2. a = ack
      BY <1>2, <2>1 DEF Return
    <2>3. ack.call = call[p] /\ ack.result = result
      OBVIOUS
    <2>4. BodyUnlock(p) /\ res[p] = "declared"
      BY <2>1, <2>2, <2>3
    <2> QED BY <2>2, <2>3, <2>4 DEF BodyUnlock, AboutToConfirm
  <1>3. a \in acks \/ \E p \in Procs : Step(p)
    BY DEF Next, vars, Begin, BeginLog, BeginDeclare, BeginFlush, Crash
  <1> QED BY <1>1, <1>2, <1>3 DEF DeclarationInv

LEMMA DeclarationNext == TypeOK /\ DeclarationInv /\ [Next]_vars => DeclarationInv'
  <1> SUFFICES ASSUME TypeOK, DeclarationInv, [Next]_vars PROVE DeclarationInv'
    OBVIOUS
  <1>1. ASSUME NEW a \in acks', a.result = "declared" PROVE Declared(a.call.session)'
    <2> DEFINE s == a.call.session
    <2>1. Declared(s)
      BY <1>1, ConfirmedDeclared
    <2> HIDE DEF s
    <2>2. Declared(s)'
      BY <2>1, DeclaredStays
    <2> QED BY <2>2 DEF s
  <1> QED BY <1>1, ConfirmsDeclared DEF DeclarationInv

(* An agent that was told its declaration is stored keeps an explicit      *)
(* status, for any number of processes, prompts, lock timeouts and deaths: *)
(* touchAgentStatus spares it in the statement itself, not by the lock.    *)
THEOREM DeclarationIsKept == Spec => []DeclarationKept
  <1>1. Init => DeclarationInv
    BY DEF Init, DeclarationInv, AboutToConfirm
  <1>2. DeclarationInv => DeclarationKept
    BY DEF DeclarationInv, DeclarationKept, Declared
  <1> QED BY <1>1, <1>2, TypeInit, TypeNext, DeclarationNext, PTL DEF Spec

-----------------------------------------------------------------------------
(* Duplicates of the session's last message.                               *)

(* The lock is held, as long as nobody died and nobody outlasts it. *)
Section == {"flushOpen", "flushInsert", "flushUnlock", "body", "insert", "touch", "bodyUnlock"}

Guarded == lockFile # Stale /\ \A p \in Procs : pc[p] \in Section => lockFile = p

(* What a process found out about the session still holds when it inserts. *)
Differs(session, content) ==
    LET last == LatestAssistant(session)
    IN  last = {} \/ \E s \in last : s.content # content

Judged(p) ==
    pc[p] = "insert" /\ call[p].role = "assistant" =>
        Differs(StoredSession(call[p].session), call[p].content)

DedupInv == crashes = 0 => Guarded /\ \A p \in Procs : Judged(p)

(* A step of a process that neither takes nor releases the lock stays on   *)
(* its side of it.                                                         *)
Stays(p) ==
    /\ UNCHANGED lockFile
    /\ \A q \in Procs \ {p} : pc'[q] = pc[q]
    /\ pc'[p] \in Section => pc[p] \in Section

Leaves(p) ==
    /\ Release(p)
    /\ \A q \in Procs \ {p} : pc'[q] = pc[q]
    /\ pc[p] \in Section /\ pc'[p] \notin Section

LEMMA LockSides ==
    ASSUME TypeOK, NEW p \in Procs,
           \/ \E m \in Messages : BeginLog(p, m)
           \/ \E d \in Declarations : BeginDeclare(p, d)
           \/ BeginFlush(p) \/ Flush(p) \/ Body(p) \/ Spooling(p)
    PROVE  Stays(p) \/ Leaves(p)
  <1>1. ASSUME \/ \E m \in Messages : BeginLog(p, m)
               \/ \E d \in Declarations : BeginDeclare(p, d)
               \/ BeginFlush(p)
        PROVE  Stays(p)
    BY <1>1 DEF BeginLog, BeginDeclare, BeginFlush, Begin, Stays, Section, TypeOK
  <1>2. ASSUME Flush(p) PROVE Stays(p) \/ Leaves(p)
    <2>1. CASE FlushUnlock(p)
      BY <2>1 DEF FlushUnlock, Leaves, Section, TypeOK
    <2>2. CASE FlushRead(p)
      BY <2>2 DEF FlushRead, AfterFlush, Return, Reset, Stays, Section, TypeOK
    <2>3. CASE FlushOpenFails(p) \/ FlushOpen(p)
      BY <2>3 DEF FlushOpenFails, FlushOpen, Stays, Section, TypeOK
    <2>4. CASE FlushInsert(p) \/ FlushDuplicate(p) \/ FlushInsertFails(p)
      BY <2>4 DEF FlushInsert, FlushDuplicate, FlushInsertFails, FlushNext, Stays, Section, TypeOK
    <2>5. CASE FlushStop(p) \/ RewriteTmp(p)
      BY <2>5 DEF FlushStop, RewriteTmp, Stays, Section, TypeOK
    <2>6. CASE ReplaceSpool(p)
      BY <2>6 DEF ReplaceSpool, AfterFlush, Return, Reset, Stays, Section, TypeOK
    <2> QED BY <1>2, <2>1, <2>2, <2>3, <2>4, <2>5, <2>6 DEF Flush
  <1>3. ASSUME Body(p) PROVE Stays(p) \/ Leaves(p)
    <2>1. CASE BodyUnlock(p)
      BY <2>1 DEF BodyUnlock, Return, Reset, Leaves, Section, TypeOK
    <2>2. CASE LookupDuplicate(p) \/ LookupFresh(p) \/ Insert(p)
      BY <2>2 DEF LookupDuplicate, LookupFresh, Insert, Leave, Stays, Section, TypeOK
    <2>3. CASE TouchAuto(p) \/ TouchFails(p) \/ TouchExplicit(p)
      BY <2>3 DEF TouchAuto, TouchFails, TouchExplicit, Leave, Stays, Section, TypeOK
    <2>4. CASE BodyFails(p) \/ GiveUp(p)
      BY <2>4 DEF BodyFails, GiveUp, Leave, Return, Reset, Stays, Section, TypeOK
    <2> QED BY <1>3, <2>1, <2>2, <2>3, <2>4 DEF Body
  <1>4. ASSUME Spooling(p) PROVE Stays(p)
    BY <1>4 DEF Spooling, SpoolCount, SpoolAppend, SpoolFails, Return, Reset, Stays, Section, TypeOK
  <1> QED BY <1>1, <1>2, <1>3, <1>4

LEMMA NobodyDies ==
    ASSUME TypeOK, crashes' = 0, NEW p \in Procs, Crash(p)
    PROVE  FALSE
  BY DEF Crash, TypeOK

LEMMA GuardedNext ==
    ASSUME TypeOK, Guarded, SlowHolders = FALSE, [Next]_vars, crashes' = 0
    PROVE  Guarded'
  <1>1. CASE UNCHANGED vars
    BY <1>1 DEF vars, Guarded
  <1>2. ASSUME NEW p \in Procs, Lock(p) PROVE Guarded'
    <2>1. lockFile = Free /\ lockFile' = p /\ \A q \in Procs : pc[q] \notin Section
      BY <1>2, ConstantsAssumption DEF Lock, Guarded
    <2>2. \A q \in Procs \ {p} : pc'[q] = pc[q]
      BY <1>2 DEF Lock, EnterLocked, TypeOK
    <2> QED BY <2>1, <2>2, ConstantsAssumption DEF Guarded
  <1>3. ASSUME NEW p \in Procs PROVE ~LockTimeout(p)
    BY DEF LockTimeout, Guarded
  <1>4. ASSUME NEW p \in Procs, Stays(p) PROVE Guarded'
    BY <1>4 DEF Stays, Guarded
  <1>5. ASSUME NEW p \in Procs, Leaves(p) PROVE Guarded'
    <2>1. lockFile = p /\ lockFile' = Free
      BY <1>5 DEF Leaves, Release, Guarded
    <2>2. \A q \in Procs : pc'[q] \notin Section
      BY <1>5, <2>1 DEF Leaves, Guarded
    <2> QED BY <2>1, <2>2, ConstantsAssumption DEF Guarded
  <1> QED BY <1>1, <1>2, <1>3, <1>4, <1>5, LockSides, NobodyDies DEF Next, Step

(* The table changes by an insert under the lock only. *)
LEMMA LogChanges ==
    ASSUME [Next]_vars, log' # log
    PROVE  \E p \in Procs : FlushInsert(p) \/ Insert(p)
  <1>1. \A p \in Procs : Flush(p) => log' = log \/ FlushInsert(p)
    BY DEF Flush, FlushRead, FlushOpenFails, FlushOpen, FlushDuplicate, FlushInsertFails, FlushStop,
       FlushUnlock, RewriteTmp, ReplaceSpool, shared
  <1>2. \A p \in Procs : Body(p) => log' = log \/ Insert(p)
    BY DEF Body, LookupDuplicate, LookupFresh, TouchAuto, TouchFails, TouchExplicit, BodyFails,
       BodyUnlock, GiveUp, shared
  <1>3. \A p \in Procs : Spooling(p) => log' = log
    BY DEF Spooling, SpoolCount, SpoolAppend, SpoolFails, shared
  <1>4. \A p \in Procs : Lock(p) \/ LockTimeout(p) \/ Crash(p) => log' = log
    BY DEF Lock, LockTimeout, EnterLocked, Crash, shared
  <1>5. \A p \in Procs :
           (\E m \in Messages : BeginLog(p, m)) \/ (\E d \in Declarations : BeginDeclare(p, d))
             \/ BeginFlush(p) => log' = log
    BY DEF BeginLog, BeginDeclare, BeginFlush, Begin, shared
  <1> QED BY <1>1, <1>2, <1>3, <1>4, <1>5 DEF Next, Step, vars

LEMMA JudgedNext ==
    ASSUME TypeOK, Guarded, LookupMayFail = FALSE, [Next]_vars,
           NEW p \in Procs, Judged(p)
    PROVE  Judged(p)'
  <1> SUFFICES ASSUME pc'[p] = "insert", call'[p].role = "assistant"
               PROVE  Differs(StoredSession(call[p].session), call[p].content)'
    BY DEF Judged
  <1>1. \/ LookupFresh(p)
        \/ pc[p] = "insert" /\ call'[p] = call[p] /\ ~FlushInsert(p) /\ ~Insert(p)
    <2>1. UNCHANGED vars => pc'[p] = pc[p] /\ call'[p] = call[p]
      BY DEF vars
    <2>2. ASSUME NEW q \in Procs, q # p,
                 \/ \E m \in Messages : BeginLog(q, m)
                 \/ \E d \in Declarations : BeginDeclare(q, d)
                 \/ BeginFlush(q) \/ Step(q) \/ Crash(q)
          PROVE  pc'[p] = pc[p] /\ call'[p] = call[p]
      <3>1. ASSUME \/ \E m \in Messages : BeginLog(q, m)
                   \/ \E d \in Declarations : BeginDeclare(q, d)
                   \/ BeginFlush(q) \/ Crash(q) \/ Lock(q) \/ LockTimeout(q)
            PROVE  pc'[p] = pc[p] /\ call'[p] = call[p]
        BY <2>2, <3>1 DEF Begin, BeginLog, BeginDeclare, BeginFlush, Lock, LockTimeout,
           EnterLocked, Crash, Reset, TypeOK
      <3>2. ASSUME Flush(q) PROVE pc'[p] = pc[p] /\ call'[p] = call[p]
        BY <2>2, <3>2 DEF Flush, FlushRead, FlushOpenFails, FlushOpen, FlushInsert,
           FlushDuplicate, FlushInsertFails, FlushNext, FlushStop, FlushUnlock, RewriteTmp,
           ReplaceSpool, AfterFlush, Return, Reset, TypeOK
      <3>3. ASSUME Body(q) PROVE pc'[p] = pc[p] /\ call'[p] = call[p]
        BY <2>2, <3>3 DEF Body, LookupDuplicate, LookupFresh, Insert, TouchAuto, TouchExplicit,
           TouchFails, BodyFails, BodyUnlock, GiveUp, Return, Reset, Leave, TypeOK
      <3>4. ASSUME Spooling(q) PROVE pc'[p] = pc[p] /\ call'[p] = call[p]
        BY <2>2, <3>4 DEF Spooling, SpoolCount, SpoolAppend, SpoolFails, Return, Reset, TypeOK
      <3> QED BY <2>2, <3>1, <3>2, <3>3, <3>4 DEF Step
    <2>3. ASSUME \/ \E m \in Messages : BeginLog(p, m)
                 \/ \E d \in Declarations : BeginDeclare(p, d)
                 \/ BeginFlush(p) \/ Step(p) \/ Crash(p)
          PROVE  LookupFresh(p)
      <3>1. ~((\E m \in Messages : BeginLog(p, m)) \/ (\E d \in Declarations : BeginDeclare(p, d))
              \/ BeginFlush(p) \/ Crash(p) \/ Lock(p) \/ LockTimeout(p))
        BY DEF Begin, BeginLog, BeginDeclare, BeginFlush, Lock, LockTimeout, EnterLocked,
           LockedPC, Crash, Reset, TypeOK
      <3>2. ~Flush(p)
        BY DEF Flush, FlushRead, FlushOpenFails, FlushOpen, FlushInsert,
           FlushDuplicate, FlushInsertFails, FlushNext, FlushStop, FlushUnlock, RewriteTmp,
           ReplaceSpool, AfterFlush, Return, Reset, TypeOK
      <3>3. Body(p) => LookupFresh(p)
        BY DEF Body, LookupDuplicate, Insert, TouchAuto, TouchExplicit,
           TouchFails, BodyFails, BodyUnlock, GiveUp, Return, Reset, Leave, TypeOK
      <3>4. ~Spooling(p)
        BY DEF Spooling, SpoolCount, SpoolAppend, SpoolFails, Return, Reset, TypeOK
      <3> QED BY <2>3, <3>1, <3>2, <3>3, <3>4 DEF Step
    <2>4. pc[p] = "insert" => ~FlushInsert(p)
      BY DEF FlushInsert, FlushNext
    <2>5. Insert(p) => pc'[p] # "insert"
      BY DEF Insert, Leave, TypeOK
    <2> QED BY <2>1, <2>2, <2>3, <2>4, <2>5 DEF Next
  <1>2. CASE LookupFresh(p)
    <2>1. UNCHANGED <<log, call>>
      BY <1>2 DEF LookupFresh, shared
    <2>2. Differs(StoredSession(call[p].session), call[p].content)
      BY <1>2, <2>1 DEF LookupFresh, Differs
    <2> QED BY <2>1, <2>2 DEF Differs, LatestAssistant
  <1>3. CASE pc[p] = "insert" /\ call'[p] = call[p] /\ ~FlushInsert(p) /\ ~Insert(p)
    <2>1. \A q \in Procs : FlushInsert(q) \/ Insert(q) => q = p
      BY <1>3 DEF FlushInsert, FlushNext, Insert, Guarded, Section
    <2>2. log' = log
      BY <1>3, <2>1, LogChanges
    <2> QED BY <1>3, <2>2 DEF Judged, Differs, LatestAssistant
  <1> QED BY <1>1, <1>2, <1>3

LEMMA DedupNext ==
    ASSUME TypeOK, DedupInv, SlowHolders = FALSE, LookupMayFail = FALSE, [Next]_vars
    PROVE  DedupInv'
  <1>1. SUFFICES ASSUME crashes' = 0 PROVE (Guarded /\ \A p \in Procs : Judged(p))'
    BY DEF DedupInv
  <1>2. crashes = 0
    <2>1. \A p \in Procs : Flush(p) => crashes' = crashes
      BY DEF Flush, FlushRead, FlushOpenFails, FlushOpen, FlushInsert, FlushDuplicate,
         FlushInsertFails, FlushNext, FlushStop, FlushUnlock, RewriteTmp, ReplaceSpool, bounds
    <2>2. \A p \in Procs : Body(p) => crashes' = crashes
      BY DEF Body, LookupDuplicate, LookupFresh, Insert, TouchAuto, TouchFails, TouchExplicit,
         BodyFails, BodyUnlock, GiveUp, Leave, bounds
    <2>3. \A p \in Procs : Spooling(p) => crashes' = crashes
      BY DEF Spooling, SpoolCount, SpoolAppend, SpoolFails, bounds
    <2>4. \A p \in Procs : Lock(p) \/ LockTimeout(p) => crashes' = crashes
      BY DEF Lock, LockTimeout, EnterLocked, bounds
    <2>5. \A p \in Procs :
             (\E m \in Messages : BeginLog(p, m)) \/ (\E d \in Declarations : BeginDeclare(p, d))
               \/ BeginFlush(p) => crashes' = crashes
      BY DEF BeginLog, BeginDeclare, BeginFlush, Begin
    <2>6. crashes' = crashes \/ \E p \in Procs : Crash(p)
      BY <2>1, <2>2, <2>3, <2>4, <2>5 DEF Next, Step, vars
    <2> QED BY <1>1, <2>6, NobodyDies
  <1>3. Guarded'
    BY <1>1, <1>2, GuardedNext DEF DedupInv
  <1>4. ASSUME NEW p \in Procs PROVE Judged(p)'
    BY <1>2, JudgedNext DEF DedupInv, Judged
  <1> QED BY <1>3, <1>4

(* A row that no replay brought is the caller's, and was judged. *)
LEMMA InsertJudged ==
    ASSUME TypeOK, DedupInv, [Next]_vars, crashes = 0, NEW r \in log' \ log,
           r.role = "assistant", \A p \in Procs : r \notin Range(todo[p])
    PROVE  Differs(r.session, r.content)
  <1>1. PICK p \in Procs : FlushInsert(p) \/ Insert(p)
    BY LogChanges
  <1>2. ~FlushInsert(p)
    <2>1. SUFFICES ASSUME FlushInsert(p) PROVE FALSE
      OBVIOUS
    <2>2. r = Head(todo[p]) /\ todo[p] # <<>> /\ todo[p] \in Seq(Entry)
      BY <2>1 DEF FlushInsert, FlushNext, TypeOK
    <2> QED BY <2>2, TailRange
  <1>3. call[p] \in LogCall /\ pc[p] = "insert"
    BY <1>1, <1>2 DEF Insert, TypeOK, CallFits, LogPCs
  <1>4. r = NewEntry(call[p], StoredSession(call[p].session))
    BY <1>1, <1>2 DEF Insert
  <1>5. /\ r.role = call[p].role /\ r.content = call[p].content
        /\ r.session = StoredSession(call[p].session)
    BY <1>4 DEF NewEntry
  <1>6. Judged(p)
    BY DEF DedupInv
  <1> QED BY <1>3, <1>5, <1>6 DEF Judged

(* While nobody dies or outlasts the lock, for any number of processes, no *)
(* assistant message is stored that repeats what was the session's last    *)
(* one when its row is inserted: what a process looked up (logDiscussion-  *)
(* Once) is still true at its insert, a statement later.                   *)
THEOREM LatestIsSeen ==
    ASSUME SlowHolders = FALSE, LookupMayFail = FALSE
    PROVE  Spec => DedupSeesLatest
  <1>1. Init => DedupInv
    BY ConstantsAssumption DEF Init, DedupInv, Guarded, Judged, Section
  <1>2. TypeOK /\ DedupInv /\ [Next]_vars => DedupInv'
    BY DedupNext
  <1>3. TypeOK /\ DedupInv /\ [Next]_vars =>
          [\A r \in log' \ log :
             (crashes = 0 /\ r.role = "assistant" /\ \A p \in Procs : r \notin Range(todo[p])) =>
                 LET last == LatestAssistant(r.session)
                 IN  last = {} \/ \E s \in last : s.content # r.content]_log
    BY InsertJudged DEF Differs
  <1> QED BY <1>1, <1>2, <1>3, TypeInit, TypeNext, PTL DEF Spec, DedupSeesLatest
=============================================================================
