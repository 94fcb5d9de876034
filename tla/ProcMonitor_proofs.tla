-------------------------- MODULE ProcMonitor_proofs --------------------------
(***************************************************************************)
(* Module ProcMonitor, for every size of its buffers and any number of     *)
(* events, is typed and implements the stream of module EventStream.       *)
(***************************************************************************)
EXTENDS ProcMonitor, SequenceTheorems, TLAPS

(* What the mapping to a stream relies on: nothing enters the receive       *)
(* buffer between an overrun and the error that it causes; a thread that    *)
(* ended left nothing behind; and the forwarding thread outlives the        *)
(* listener until run() has returned.                                       *)
ThreadsInv ==
  /\ overrun /\ listener = "open" => Len(socket) >= SocketLimit
  /\ listener = "closed" => held = <<>> /\ socket = <<>>
  /\ forwarder = "closed" => loop = "stopped" \/ (listener = "closed" /\ pipe = <<>>)

Inv == TypeOK /\ ThreadsInv

-----------------------------------------------------------------------------
(* Facts about sequences of events. *)

LEMMA MoveHead ==
  ASSUME NEW S, NEW p \in Seq(S), NEW s \in Seq(S), s # <<>>
  PROVE  p \o <<Head(s)>> \o Tail(s) = p \o <<>> \o s
<1>1. Head(s) \in S /\ Tail(s) \in Seq(S) /\ <<>> \in Seq(S) /\ <<Head(s)>> \in Seq(S)
  BY HeadTailProperties, EmptySeq
<1>2. <<Head(s)>> \o Tail(s) = s
  <2>1. Len(s) \in Nat \ {0}
    BY EmptySeq
  <2>2. SubSeq(s, 1, Len(s)) = <<s[1]>> \o SubSeq(s, 2, Len(s))
    BY <2>1, SubSeqRecursiveFirst, 1 \in 1..Len(s), Len(s) \in 1..Len(s)
  <2>3. SubSeq(s, 1, Len(s)) = s /\ SubSeq(s, 2, Len(s)) = Tail(s) /\ Head(s) = s[1]
    BY <2>1, SubSeqFull, TailIsSubSeq
  <2> QED
    BY <2>2, <2>3
<1>3. p \o <<Head(s)>> \o Tail(s) = p \o (<<Head(s)>> \o Tail(s))
  BY <1>1, ConcatAssociative
<1>4. p \o <<>> = p
  BY ConcatEmptySeq
<1> QED
  BY <1>2, <1>3, <1>4

LEMMA AppendLast ==
  ASSUME NEW S, NEW p \in Seq(S), NEW s \in Seq(S), NEW e \in S
  PROVE  p \o Append(s, e) = Append(p \o s, e)
<1>1. Append(s, e) = s \o <<e>> /\ <<e>> \in Seq(S)
  BY AppendIsConcat
<1>2. p \o s \in Seq(S)
  BY ConcatProperties
<1>3. Append(p \o s, e) = (p \o s) \o <<e>>
  BY <1>2, AppendIsConcat
<1> QED
  BY <1>1, <1>3, ConcatAssociative

LEMMA DeliverFirst ==
  ASSUME NEW S, NEW p \in Seq(S), p # <<>>, NEW s \in Seq(S)
  PROVE  p \o s # <<>> /\ Head(p \o s) = Head(p) /\ Tail(p \o s) = Tail(p) \o s
<1>1. Tail(p) \in Seq(S) /\ Len(Tail(p)) = Len(p) - 1 /\ Len(p) \in Nat \ {0}
  BY HeadTailProperties, EmptySeq
<1>2. /\ p \o s \in Seq(S) /\ Len(p \o s) = Len(p) + Len(s) /\ Len(s) \in Nat
      /\ \A i \in 1..Len(p) + Len(s) : (p \o s)[i] = IF i <= Len(p) THEN p[i] ELSE s[i - Len(p)]
  BY ConcatProperties, LenProperties
<1>3. p \o s # <<>>
  BY <1>1, <1>2, EmptySeq, ConcatEqualIffEmpty
<1>4. Head(p \o s) = Head(p)
  BY <1>1, <1>2, <1>3
<1>5. /\ Tail(p \o s) \in Seq(S) /\ Len(Tail(p \o s)) = Len(p \o s) - 1
      /\ \A i \in 1..Len(Tail(p \o s)) : Tail(p \o s)[i] = (p \o s)[i + 1]
  BY <1>2, <1>3, HeadTailProperties
<1>6. /\ Tail(p) \o s \in Seq(S) /\ Len(Tail(p) \o s) = Len(Tail(p)) + Len(s)
      /\ \A i \in 1..Len(Tail(p)) + Len(s) :
           (Tail(p) \o s)[i] = IF i <= Len(Tail(p)) THEN Tail(p)[i] ELSE s[i - Len(Tail(p))]
  BY <1>1, ConcatProperties
<1>7. \A i \in 1..Len(Tail(p)) : Tail(p)[i] = p[i + 1]
  BY HeadTailProperties
<1>8. Len(Tail(p \o s)) = Len(Tail(p) \o s)
  BY <1>1, <1>2, <1>5, <1>6
<1>9. ASSUME NEW i \in 1..Len(Tail(p \o s))
      PROVE  Tail(p \o s)[i] = (Tail(p) \o s)[i]
  <2>1. i \in Nat \ {0} /\ i + 1 \in 1..Len(p) + Len(s) /\ i \in 1..Len(Tail(p)) + Len(s)
    BY <1>1, <1>2, <1>5
  <2>2. CASE i <= Len(Tail(p))
    BY <2>1, <2>2, <1>1, <1>2, <1>5, <1>6, <1>7
  <2>3. CASE ~(i <= Len(Tail(p)))
    <3>1. (i + 1) - Len(p) = i - Len(Tail(p)) /\ ~(i + 1 <= Len(p))
      BY <2>1, <2>3, <1>1
    <3> QED
      BY <2>1, <2>3, <3>1, <1>2, <1>5, <1>6
  <2> QED
    BY <2>2, <2>3
<1>10. Tail(p \o s) = Tail(p) \o s
  BY <1>5, <1>6, <1>8, <1>9, SeqEqual
<1> QED
  BY <1>3, <1>4, <1>10

-----------------------------------------------------------------------------
(* The invariant. *)

LEMMA InvInit == Init => Inv
<1> SUFFICES ASSUME Init PROVE Inv
  OBVIOUS
<1>1. <<>> \in Seq(EventNumber) /\ Len(<<>>) = 0 /\ <<>> \in Seq(EventNumber \cup {Shutdown})
  BY EmptySeq
<1>2. /\ happened \in 0..MaxEvents /\ taken \in 0..Len(events)
      /\ Len(held) <= 1 /\ Len(pipe) <= ChannelLimit
  BY <1>1, LimitsAssumption DEF Init
<1>3. TypeOK
  BY <1>1, <1>2 DEF Init, TypeOK
<1>4. ThreadsInv
  BY DEF Init, ThreadsInv
<1> QED
  BY <1>3, <1>4 DEF Inv

LEMMA InvHappen == Inv /\ Happen => Inv'
<1> SUFFICES ASSUME Inv, Happen PROVE Inv'
  OBVIOUS
<1>1. happened' \in EventNumber
  BY LimitsAssumption DEF Inv, TypeOK, Happen, EventNumber
<1>2. CASE listener = "open" /\ Len(socket) < SocketLimit
  <2>1. Append(socket, happened') \in Seq(EventNumber)
    BY <1>1, AppendProperties DEF Inv, TypeOK
  <2>2. Len(socket) \in Nat /\ ~overrun
    BY <1>2, LenProperties, LimitsAssumption DEF Inv, TypeOK, ThreadsInv
  <2> QED
    <3>0. socket' = Append(socket, happened') /\ overrun' = overrun
      BY <1>2 DEF Happen
    <3>1. TypeOK'
      BY <1>1, <2>1, <3>0 DEF Inv, TypeOK, Happen, EventNumber
    <3>2. ThreadsInv'
      BY <1>2, <2>2 DEF Inv, ThreadsInv, Happen
    <3> QED
      BY <3>1, <3>2 DEF Inv
<1>3. CASE ~(listener = "open" /\ Len(socket) < SocketLimit)
  <2>1. Len(socket) \in Nat
    BY LenProperties DEF Inv, TypeOK
  <2>0. socket' = socket /\ overrun' \in BOOLEAN
    BY <1>3 DEF Happen
  <2>2. TypeOK'
    BY <1>1, <2>0 DEF Inv, TypeOK, Happen, EventNumber
  <2>3. ThreadsInv'
    BY <1>3, <2>1, LimitsAssumption DEF Inv, TypeOK, ThreadsInv, Happen
  <2> QED
    BY <2>2, <2>3 DEF Inv
<1> QED
  BY <1>2, <1>3

LEMMA InvReceive == Inv /\ Receive => Inv'
<1> SUFFICES ASSUME Inv, Receive PROVE Inv'
  OBVIOUS
<1>1. <<>> \in Seq(EventNumber)
  BY EmptySeq
<1>2. CASE overrun
  BY <1>1, <1>2 DEF Inv, TypeOK, ThreadsInv, Receive
<1>3. CASE ~overrun
  <2>1. Head(socket) \in EventNumber /\ Tail(socket) \in Seq(EventNumber)
    BY <1>3, HeadTailProperties DEF Inv, TypeOK, Receive
  <2>2. <<Head(socket)>> \in Seq(EventNumber) /\ Len(<<Head(socket)>>) = 1
    BY <2>1
  <2>3. /\ held' = <<Head(socket)>> /\ socket' = Tail(socket) /\ listener' = listener
        /\ overrun' = overrun /\ listener = "open"
    BY <1>3 DEF Receive
  <2>4. TypeOK'
    BY <2>1, <2>2, <2>3 DEF Inv, TypeOK, Receive
  <2>5. ThreadsInv'
    BY <1>3, <2>3 DEF Inv, ThreadsInv, Receive
  <2> QED
    BY <2>4, <2>5 DEF Inv
<1> QED
  BY <1>2, <1>3

LEMMA InvRecvFails == Inv /\ RecvFails => Inv'
<1> SUFFICES ASSUME Inv, RecvFails PROVE Inv'
  OBVIOUS
<1>1. <<>> \in Seq(EventNumber)
  BY EmptySeq
<1> QED
  BY <1>1 DEF Inv, TypeOK, ThreadsInv, RecvFails

LEMMA InvHandOver == Inv /\ HandOver => Inv'
<1> SUFFICES ASSUME Inv, HandOver PROVE Inv'
  OBVIOUS
<1>1. <<>> \in Seq(EventNumber) /\ Len(<<>>) = 0
  BY EmptySeq
<1>2. CASE forwarder = "closed"
  BY <1>1, <1>2 DEF Inv, TypeOK, ThreadsInv, HandOver
<1>3. CASE forwarder # "closed"
  <2>1. pipe \o held \in Seq(EventNumber) /\ Len(pipe \o held) = Len(pipe) + Len(held)
    BY ConcatProperties DEF Inv, TypeOK
  <2>2. Len(pipe \o held) <= ChannelLimit
    BY <1>3, <2>1, LenProperties, LimitsAssumption DEF Inv, TypeOK, HandOver
  <2>3. pipe' = pipe \o held /\ held' = <<>> /\ listener' = listener /\ socket' = socket
    BY <1>3 DEF HandOver
  <2>4. TypeOK'
    BY <1>1, <2>1, <2>2, <2>3 DEF Inv, TypeOK, HandOver
  <2>5. ThreadsInv'
    BY <1>3, <2>3 DEF Inv, TypeOK, ThreadsInv, HandOver
  <2> QED
    BY <2>4, <2>5 DEF Inv
<1> QED
  BY <1>2, <1>3

LEMMA InvForward == Inv /\ Forward => Inv'
<1> SUFFICES ASSUME Inv, Forward PROVE Inv'
  OBVIOUS
<1>1. <<>> \in Seq(EventNumber) /\ Len(<<>>) = 0
  BY EmptySeq
<1>2. CASE loop # "stopped"
  <2>1. /\ Head(pipe) \in EventNumber /\ Tail(pipe) \in Seq(EventNumber)
        /\ Len(Tail(pipe)) = Len(pipe) - 1 /\ Len(pipe) \in Nat
    BY HeadTailProperties, LenProperties DEF Inv, TypeOK, Forward
  <2>2. /\ Append(events, Head(pipe)) \in Seq(EventNumber \cup {Shutdown})
        /\ Len(Append(events, Head(pipe))) = Len(events) + 1 /\ Len(events) \in Nat
    BY <2>1, AppendProperties, LenProperties DEF Inv, TypeOK
  <2>0. events' = Append(events, Head(pipe)) /\ pipe' = Tail(pipe)
    BY <1>2 DEF Forward
  <2>4. Len(pipe') <= ChannelLimit /\ taken' \in 0..Len(events')
    BY <2>0, <2>1, <2>2, LimitsAssumption DEF Inv, TypeOK, Forward
  <2>3. TypeOK'
    BY <2>0, <2>1, <2>2, <2>4 DEF Inv, TypeOK, Forward
  <2> QED
    BY <1>2, <2>3 DEF Inv, TypeOK, ThreadsInv, Forward
<1>3. CASE loop = "stopped"
  BY <1>1, <1>3, LimitsAssumption DEF Inv, TypeOK, ThreadsInv, Forward
<1> QED
  BY <1>2, <1>3

LEMMA InvHangUp == Inv /\ HangUp => Inv'
<1> SUFFICES ASSUME Inv, HangUp PROVE Inv'
  OBVIOUS
<1>1. /\ Append(events, Shutdown) \in Seq(EventNumber \cup {Shutdown})
      /\ Len(Append(events, Shutdown)) = Len(events) + 1 /\ Len(events) \in Nat
  BY AppendProperties, LenProperties DEF Inv, TypeOK
<1>2. events' \in Seq(EventNumber \cup {Shutdown}) /\ taken' \in 0..Len(events')
  BY <1>1 DEF Inv, TypeOK, HangUp
<1> QED
  BY <1>2 DEF Inv, TypeOK, ThreadsInv, HangUp

LEMMA InvLoop == Inv /\ (Take \/ Terminate \/ RunReturns) => Inv'
<1> SUFFICES ASSUME Inv, Take \/ Terminate \/ RunReturns PROVE Inv'
  OBVIOUS
<1>1. Len(events) \in Nat
  BY LenProperties DEF Inv, TypeOK
<1> QED
  BY <1>1 DEF Inv, TypeOK, ThreadsInv, Take, Terminate, RunReturns

LEMMA InvNext == Inv /\ [Next]_vars => Inv'
<1> SUFFICES ASSUME Inv, [Next]_vars PROVE Inv'
  OBVIOUS
<1>1. CASE UNCHANGED vars
  BY <1>1 DEF Inv, TypeOK, ThreadsInv, vars
<1> QED
  BY <1>1, InvHappen, InvReceive, InvRecvFails, InvHandOver, InvForward, InvHangUp, InvLoop
     DEF Next

(* Every buffer keeps its bound and every thread its states, whatever the   *)
(* limits are.                                                              *)
THEOREM TypeCorrect == Spec => []TypeOK
<1>1. Inv => TypeOK
  BY DEF Inv
<1> QED
  BY <1>1, InvInit, InvNext, PTL DEF Spec

-----------------------------------------------------------------------------
(* The refinement: one lemma for each action, all in terms of the stream's  *)
(* variables. *)

Transit == IF loop # "stopped" THEN pipe \o held \o socket ELSE <<>>

StreamStep == [Stream!Next]_(Stream!vars)

LEMMA StreamBreak ==
  ASSUME Inv, StreamPhase \in {"open", "broken"}, StreamPhase' = "broken",
         \E n \in 0..Len(Transit) : Transit' = SubSeq(Transit, 1, n), events' = events
  PROVE  StreamStep
BY DEF StreamStep, Transit, Stream!Next, Stream!Break

LEMMA StreamStutter ==
  ASSUME StreamPhase' = StreamPhase, Transit' = Transit, events' = events
  PROVE  StreamStep
BY DEF StreamStep, Transit, Stream!vars

LEMMA TransitType == Inv => Transit \in Seq(EventNumber) /\ Len(Transit) \in Nat
<1> SUFFICES ASSUME Inv PROVE Transit \in Seq(EventNumber) /\ Len(Transit) \in Nat
  OBVIOUS
<1>1. pipe \o held \in Seq(EventNumber)
  BY ConcatProperties DEF Inv, TypeOK
<1>2. pipe \o held \o socket \in Seq(EventNumber)
  BY <1>1, ConcatProperties DEF Inv, TypeOK
<1>3. <<>> \in Seq(EventNumber)
  BY EmptySeq
<1>4. Transit \in Seq(EventNumber)
  BY <1>2, <1>3 DEF Transit
<1> QED
  BY <1>4, LenProperties

(* Once the forwarding thread has ended nothing is in transit.              *)
LEMMA EndedEmpty == Inv /\ forwarder = "closed" => Transit = <<>>
<1> SUFFICES ASSUME Inv, forwarder = "closed" PROVE Transit = <<>>
  OBVIOUS
<1>1. CASE loop # "stopped"
  <2>1. pipe = <<>> /\ held = <<>> /\ socket = <<>>
    BY <1>1 DEF Inv, TypeOK, ThreadsInv
  <2> QED
    BY <2>1, EmptySeq, ConcatEmptySeq DEF Transit, Inv, TypeOK
<1>2. CASE loop = "stopped"
  BY <1>2 DEF Transit
<1> QED
  BY <1>1, <1>2

LEMMA CutEverything == Inv => \E n \in 0..Len(Transit) : <<>> = SubSeq(Transit, 1, n)
<1> SUFFICES ASSUME Inv PROVE \E n \in 0..Len(Transit) : <<>> = SubSeq(Transit, 1, n)
  OBVIOUS
<1>1. 0 \in 0..Len(Transit)
  BY TransitType
<1>2. SubSeq(Transit, 1, 0) = <<>>
  BY SubSeqEmpty
<1> QED
  BY <1>1, <1>2

LEMMA CutNothing == Inv => \E n \in 0..Len(Transit) : Transit = SubSeq(Transit, 1, n)
<1> SUFFICES ASSUME Inv PROVE \E n \in 0..Len(Transit) : Transit = SubSeq(Transit, 1, n)
  OBVIOUS
<1>1. Len(Transit) \in 0..Len(Transit) /\ SubSeq(Transit, 1, Len(Transit)) = Transit
  BY TransitType, SubSeqFull
<1> QED
  BY <1>1

LEMMA StepHappen == Inv /\ Happen => StreamStep
<1> SUFFICES ASSUME Inv, Happen PROVE StreamStep
  OBVIOUS
<1>1. CASE listener = "open" /\ Len(socket) < SocketLimit
  <2>1. socket' = Append(socket, happened') /\ overrun' = overrun /\ ~overrun
    BY <1>1, LenProperties, LimitsAssumption DEF Happen, Inv, TypeOK, ThreadsInv
  <2>2. StreamPhase' = StreamPhase
    BY <2>1 DEF Happen, StreamPhase
  <2>3. CASE loop # "stopped"
    <3>1. StreamPhase = "open"
      BY <1>1, <2>1, <2>3 DEF StreamPhase, Inv, TypeOK, ThreadsInv
    <3>2. happened' \in EventNumber
      <4>1. happened < MaxEvents /\ happened' = happened + 1
        BY DEF Happen
      <4>2. happened \in 0..MaxEvents
        BY DEF Inv, TypeOK
      <4> QED BY <4>1, <4>2, LimitsAssumption DEF EventNumber
    <3>3. pipe \o held \in Seq(EventNumber)
      BY ConcatProperties DEF Inv, TypeOK
    <3>4. Transit' = Append(Transit, happened')
      <4>1. socket \in Seq(EventNumber) /\ loop' = loop /\ pipe' = pipe /\ held' = held
        BY DEF Happen, Inv, TypeOK
      <4>2. pipe \o held \o Append(socket, happened') = Append(pipe \o held \o socket, happened')
        BY <3>2, <3>3, <4>1, AppendLast
      <4> QED BY <2>1, <2>3, <4>1, <4>2, Zenon DEF Transit
    <3> QED
      BY <2>2, <3>1, <3>2, <3>4
      DEF StreamStep, Transit, Stream!Next, Stream!Post, Happen
  <2>4. CASE loop = "stopped"
    BY <2>2, <2>4, StreamStutter DEF Transit, Happen
  <2> QED
    BY <2>3, <2>4
<1>2. CASE ~(listener = "open" /\ Len(socket) < SocketLimit)
  <2>1. socket' = socket /\ overrun' = (overrun \/ listener = "open")
    BY <1>2 DEF Happen
  <2>2. Transit' = Transit /\ events' = events
    BY <2>1 DEF Happen, Transit
  <2>3. CASE StreamPhase' = StreamPhase
    BY <2>2, <2>3, StreamStutter
  <2>4. CASE StreamPhase' # StreamPhase
    <3>1. StreamPhase \in {"open", "broken"} /\ StreamPhase' = "broken"
      BY <2>1, <2>4 DEF Happen, StreamPhase
    <3> QED
      BY <2>2, <3>1, CutNothing, StreamBreak
  <2> QED
    BY <2>3, <2>4
<1> QED
  BY <1>1, <1>2

(* When the listener ends, what it had not yet received is cut off.         *)
LEMMA ListenerEnds ==
  ASSUME Inv, listener = "open", held = <<>>, listener' = "closed", socket' = <<>>,
         UNCHANGED <<held, pipe, forwarder, events, loop>>
  PROVE  StreamStep
<1>1. CASE loop = "stopped"
  BY <1>1, StreamStutter DEF StreamPhase, Transit
<1>2. CASE loop # "stopped"
  <2>1. StreamPhase \in {"open", "broken"} /\ StreamPhase' = "broken"
    BY <1>2 DEF StreamPhase, Inv, ThreadsInv, TypeOK
  <2>2. pipe \in Seq(EventNumber) /\ socket \in Seq(EventNumber)
        /\ pipe \o <<>> = pipe /\ Len(pipe) \in Nat /\ Len(socket) \in Nat
    BY ConcatEmptySeq, LenProperties DEF Inv, TypeOK
  <2>3. Transit = pipe \o socket /\ Transit' = pipe
    BY <1>2, <2>2 DEF Transit
  <2>4. Len(pipe \o socket) = Len(pipe) + Len(socket)
    BY <2>2, ConcatProperties
  <2>5. SubSeq(pipe \o socket, 1, Len(pipe)) = pipe
    <3>1. CASE pipe = <<>>
      <4>1. Len(pipe) = 0
        BY <3>1
      <4> QED
        BY <3>1, <4>1, SubSeqEmpty
    <3>2. CASE pipe # <<>>
      <4>1. Len(pipe) \in Nat \ {0}
        BY <2>2, <3>2, EmptySeq
      <4>2. 1 \in 1..Len(pipe) /\ Len(pipe) \in 1..Len(pipe)
        BY <4>1
      <4>3. SubSeq(pipe \o socket, 1, Len(pipe)) = SubSeq(pipe, 1, Len(pipe))
        BY <2>2, <4>2, SubSeqOfConcat1
      <4> QED
        BY <2>2, <4>3, SubSeqFull
    <3> QED
      BY <3>1, <3>2
  <2>6. Len(pipe) \in 0..Len(Transit)
    BY <2>2, <2>3, <2>4
  <2> QED
    BY <2>1, <2>3, <2>5, <2>6, StreamBreak
<1> QED
  BY <1>1, <1>2

LEMMA StepReceive == Inv /\ Receive => StreamStep
<1> SUFFICES ASSUME Inv, Receive PROVE StreamStep
  OBVIOUS
<1>1. CASE overrun
  BY <1>1, ListenerEnds DEF Receive
<1>2. CASE ~overrun
  <2>1. /\ held = <<>> /\ socket # <<>> /\ held' = <<Head(socket)>> /\ socket' = Tail(socket)
        /\ listener' = listener /\ overrun' = overrun /\ pipe' = pipe
        /\ forwarder' = forwarder /\ events' = events /\ loop' = loop
    BY <1>2 DEF Receive
  <2>2. StreamPhase' = StreamPhase
    BY <2>1 DEF StreamPhase
  <2>3. pipe \o <<Head(socket)>> \o Tail(socket) = pipe \o <<>> \o socket
    BY <2>1, MoveHead DEF Inv, TypeOK
  <2>4. Transit' = Transit
    BY <2>1, <2>3 DEF Transit
  <2> QED
    BY <2>1, <2>2, <2>4, StreamStutter
<1> QED
  BY <1>1, <1>2

LEMMA StepRecvFails == Inv /\ RecvFails => StreamStep
BY ListenerEnds DEF RecvFails

LEMMA StepHandOver == Inv /\ HandOver => StreamStep
<1> SUFFICES ASSUME Inv, HandOver PROVE StreamStep
  OBVIOUS
<1>1. CASE forwarder = "closed"
  <2>1. loop = "stopped"
    BY <1>1 DEF HandOver, Inv, ThreadsInv
  <2>2. StreamPhase' = StreamPhase /\ Transit' = Transit /\ events' = events
    BY <1>1, <2>1 DEF HandOver, StreamPhase, Transit
  <2> QED
    BY <2>2, StreamStutter
<1>2. CASE forwarder # "closed"
  <2>1. pipe' = pipe \o held /\ held' = <<>> /\ listener' = listener /\ socket' = socket
    BY <1>2 DEF HandOver
  <2>2. pipe \o held \in Seq(EventNumber)
    BY ConcatProperties DEF Inv, TypeOK
  <2>3. (pipe \o held) \o <<>> = pipe \o held
    BY <2>2, ConcatEmptySeq
  <2>4. Transit' = Transit
    BY <2>1, <2>3 DEF Transit, HandOver
  <2>5. StreamPhase' = StreamPhase
    BY <2>1 DEF StreamPhase, HandOver
  <2> QED
    BY <2>4, <2>5, StreamStutter DEF HandOver
<1> QED
  BY <1>1, <1>2

LEMMA StepForward == Inv /\ Forward => StreamStep
<1> SUFFICES ASSUME Inv, Forward PROVE StreamStep
  OBVIOUS
<1>1. CASE loop # "stopped"
  <2>1. /\ events' = Append(events, Head(pipe)) /\ pipe' = Tail(pipe) /\ pipe # <<>>
        /\ forwarder = "open" /\ forwarder' = "open" /\ held' = held /\ socket' = socket
        /\ loop' = loop
    BY <1>1 DEF Forward
  <2>2. StreamPhase' = StreamPhase /\ StreamPhase # "ended"
    BY <2>1 DEF Forward, StreamPhase
  <2>3. /\ pipe \o held # <<>> /\ Head(pipe \o held) = Head(pipe)
        /\ Tail(pipe \o held) = Tail(pipe) \o held
    BY <2>1, DeliverFirst DEF Inv, TypeOK
  <2>4. pipe \o held \in Seq(EventNumber)
    BY ConcatProperties DEF Inv, TypeOK
  <2>5. /\ pipe \o held \o socket # <<>> /\ Head(pipe \o held \o socket) = Head(pipe)
        /\ Tail(pipe \o held \o socket) = Tail(pipe) \o held \o socket
    <3>1. socket \in Seq(EventNumber)
      BY DEF Inv, TypeOK
    <3>2. PICK q : q = pipe \o held
      OBVIOUS
    <3>3. q \in Seq(EventNumber) /\ q # <<>>
      BY <2>3, <2>4, <3>2
    <3>4. q \o socket # <<>> /\ Head(q \o socket) = Head(q) /\ Tail(q \o socket) = Tail(q) \o socket
      BY <3>1, <3>3, DeliverFirst
    <3> QED
      BY <2>3, <3>2, <3>4
  <2>6. Transit # <<>> /\ Head(Transit) = Head(pipe) /\ Transit' = Tail(Transit)
    BY <1>1, <2>1, <2>5 DEF Transit
  <2> QED
    BY <2>1, <2>2, <2>6 DEF StreamStep, Transit, Stream!Next, Stream!Deliver
<1>2. CASE loop = "stopped"
  <2>1. /\ StreamPhase = "broken" /\ StreamPhase' = "ended"
        /\ Transit = <<>> /\ Transit' = <<>> /\ events' = events
    BY <1>2 DEF Forward, StreamPhase, Transit
  <2> QED
    BY <2>1 DEF StreamStep, Transit, Stream!Next, Stream!Finish
<1> QED
  BY <1>1, <1>2

LEMMA StepHangUp == Inv /\ HangUp => StreamStep
<1> SUFFICES ASSUME Inv, HangUp PROVE StreamStep
  OBVIOUS
<1>1. StreamPhase = "broken" /\ StreamPhase' = "ended"
  BY DEF HangUp, StreamPhase
<1>2. forwarder' = "closed" /\ Inv'
  BY InvHangUp DEF HangUp
<1>3. pipe = <<>> /\ held = <<>> /\ socket = <<>>
  BY DEF HangUp, Inv, ThreadsInv
<1>4. <<>> \o <<>> \o <<>> = <<>>
  BY EmptySeq, ConcatEmptySeq
<1>5. Transit = <<>> /\ Transit' = <<>>
  BY <1>3, <1>4 DEF HangUp, Transit
<1>6. events' \in {events, Append(events, Shutdown)}
  BY DEF HangUp
<1> QED
  BY <1>1, <1>5, <1>6 DEF StreamStep, Transit, Stream!Next, Stream!Finish

LEMMA StepLoop == Inv /\ (Take \/ Terminate) => StreamStep
<1> SUFFICES ASSUME Inv, Take \/ Terminate PROVE StreamStep
  OBVIOUS
<1>1. /\ loop # "stopped" /\ loop' # "stopped" /\ events' = events
      /\ forwarder' = forwarder /\ pipe' = pipe /\ held' = held /\ socket' = socket
      /\ listener' = listener /\ overrun' = overrun
  BY DEF Take, Terminate
<1> QED
  BY <1>1, StreamStutter DEF StreamPhase, Transit

LEMMA StepReturns == Inv /\ RunReturns => StreamStep
<1> SUFFICES ASSUME Inv, RunReturns PROVE StreamStep
  OBVIOUS
<1>1. /\ loop' = "stopped" /\ events' = events
      /\ forwarder' = forwarder /\ listener' = listener /\ overrun' = overrun
  BY DEF RunReturns
<1>2. Transit' = <<>>
  BY <1>1 DEF Transit
<1>3. CASE forwarder = "closed"
  BY <1>1, <1>2, <1>3, EndedEmpty, StreamStutter DEF StreamPhase
<1>4. CASE forwarder # "closed"
  <2>1. StreamPhase \in {"open", "broken"} /\ StreamPhase' = "broken"
    BY <1>1, <1>4 DEF StreamPhase
  <2> QED
    BY <1>1, <1>2, <2>1, CutEverything, StreamBreak
<1> QED
  BY <1>3, <1>4

(* The chain of buffers and threads is the reliable stream of module        *)
(* EventStream, whatever the limits of the buffers are.                     *)
THEOREM Refinement == Spec => ImplementsStream
<1>1. Init => Stream!Init
  <2> SUFFICES ASSUME Init PROVE Stream!Init
    OBVIOUS
  <2>1. <<>> \o <<>> \o <<>> = <<>>
    BY EmptySeq, ConcatEmptySeq
  <2> QED
    BY <2>1 DEF Init, Stream!Init, StreamPhase
<1>2. Inv /\ [Next]_vars => StreamStep
  <2> SUFFICES ASSUME Inv, [Next]_vars PROVE StreamStep
    OBVIOUS
  <2>1. CASE UNCHANGED vars
    BY <2>1, StreamStutter DEF vars, StreamPhase, Transit
  <2> QED
    BY <2>1, StepHappen, StepReceive, StepRecvFails, StepHandOver, StepForward,
       StepHangUp, StepLoop, StepReturns
    DEF Next
<1>3. Inv /\ [Next]_vars => [Stream!Next]_(Stream!vars)
  BY <1>2 DEF StreamStep
<1> QED
  BY <1>1, <1>3, InvInit, InvNext, PTL DEF Spec, ImplementsStream, Stream!Spec
=============================================================================
