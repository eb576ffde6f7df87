------------------------ MODULE SubscriberStreamProofs ------------------------
(***************************************************************************)
(* Proofs about SubscriberStream, for any set of clients, any capacity and   *)
(* any number of events.                                                    *)
(***************************************************************************)
EXTENDS SubscriberStream, TLAPS

-----------------------------------------------------------------------------
\* What the proofs need of the sequence operators.

\* Append adds one element, at the end.
LEMMA AppendFacts ==
  ASSUME NEW S, NEW s \in Seq(S), NEW e \in S
  PROVE  /\ Append(s, e) \in Seq(S)
         /\ Len(Append(s, e)) = Len(s) + 1
         /\ \A i \in 1..Len(s) : Append(s, e)[i] = s[i]
         /\ Append(s, e)[Len(s) + 1] = e
         /\ Append(s, e) # <<>>
  OBVIOUS

\* Head and Tail take one element, at the front.
LEMMA TailFacts ==
  ASSUME NEW S, NEW s \in Seq(S), s # <<>>
  PROVE  /\ Tail(s) \in Seq(S)
         /\ Len(s) \in Nat /\ Len(s) >= 1
         /\ Len(Tail(s)) = Len(s) - 1
         /\ \A i \in 1..(Len(s) - 1) : Tail(s)[i] = s[i + 1]
         /\ Head(s) = s[1]
         /\ Head(s) \in S
  OBVIOUS

\* A sequence of one element.
LEMMA SingletonFacts ==
  /\ <<Closed>> \in Seq(Nat)
  /\ Len(<<Closed>>) = 1
  /\ <<Closed>>[1] = Closed
  BY DEF Closed

-----------------------------------------------------------------------------
(***************************************************************************)
(* The accounting invariant.  OutstandingExact alone is not inductive: a    *)
(* closure in the pipeline of an active subscription would be counted but   *)
(* never accounted for, a second client in posting would be forgotten, and  *)
(* a subscription must start from an empty pipeline.                        *)
(***************************************************************************)
Untouched(c) ==
  /\ outstanding[c] = 0 /\ inflight[c] = <<>> /\ queue[c] = <<>>
  /\ c \notin targets /\ c \notin posting /\ c \notin overflowing
  /\ c \notin subscriptions

NoClosure(s) == \A i \in 1..Len(s) : s[i] # Closed

Exact(c) ==
  /\ outstanding[c] = Len(inflight[c]) + Len(queue[c])
                        + Posting(c) + Accounting(c)
  /\ outstanding[c] <= Capacity

Accounted(c) ==
  /\ active[c] <=> c \in subscriptions
  /\ phase[c] = "absent" => Untouched(c)
  /\ phase[c] = "done" => ~active[c]
  /\ phase[c] \in {"accounting", "sending"} => item[c] \in Nat
  /\ active[c] => NoClosure(inflight[c]) /\ NoClosure(queue[c]) /\ Exact(c)

AccountingInv ==
  /\ TypeOK
  /\ (targets # {} \/ posting # {}) => log # <<>>
  /\ \A c, d \in posting : c = d
  /\ \A c \in Clients : Accounted(c)

\* Closures do not appear from nowhere.
LEMMA NoClosureFacts ==
  ASSUME NEW s \in Seq(Nat), NoClosure(s)
  PROVE  /\ s # <<>> => Head(s) # Closed /\ NoClosure(Tail(s))
         /\ \A e \in Nat : e # Closed => NoClosure(Append(s, e))
  <1>1. ASSUME s # <<>> PROVE Head(s) # Closed /\ NoClosure(Tail(s))
    <2>1. /\ Len(s) \in Nat /\ Len(s) >= 1 /\ Len(Tail(s)) = Len(s) - 1
          /\ \A i \in 1..(Len(s) - 1) : Tail(s)[i] = s[i + 1]
          /\ Head(s) = s[1]
      BY <1>1, TailFacts
    <2>2. Head(s) # Closed
      BY <2>1 DEF NoClosure
    <2>3. ASSUME NEW i \in 1..Len(Tail(s)) PROVE Tail(s)[i] # Closed
      <3>1. i \in 1..(Len(s) - 1) /\ i + 1 \in 1..Len(s)
        BY <2>1
      <3> QED BY <2>1, <3>1 DEF NoClosure
    <2> QED BY <2>2, <2>3 DEF NoClosure
  <1>2. ASSUME NEW e \in Nat, e # Closed PROVE NoClosure(Append(s, e))
    BY <1>2, AppendFacts DEF NoClosure
  <1>3. QED
    BY <1>1, <1>2

Counters ==
  /\ outstanding \in [Clients -> Nat]
  /\ inflight \in [Clients -> Seq(Nat)]
  /\ queue \in [Clients -> Seq(Nat)]

\* The part of TypeOK that arithmetic on the counters needs.
LEMMA CountersType == TypeOK => Counters
  BY DEF TypeOK, Counters

\* Nothing is on its way when the service starts.
LEMMA AccountingInit == Init => AccountingInv
  <1> SUFFICES ASSUME Init PROVE AccountingInv
    OBVIOUS
  <1> USE DEF Init, Kinds, Phases, Items, None
  <1>1. TypeOK
    BY CapacityAssumption DEF TypeOK
  <1>2. QED
    BY <1>1, CapacityAssumption DEF AccountingInv, Accounted, Untouched

\* A step that leaves a client's part of the state alone keeps it accounted for.
LEMMA Unaffected ==
  ASSUME NEW d \in Clients, Accounted(d),
         active'[d] = active[d], (d \in subscriptions)' <=> d \in subscriptions,
         phase'[d] = phase[d], item'[d] = item[d], outstanding'[d] = outstanding[d],
         inflight'[d] = inflight[d], queue'[d] = queue[d],
         (d \in targets)' => d \in targets,
         (d \in posting)' <=> d \in posting,
         (d \in overflowing)' => d \in overflowing
  PROVE  Accounted(d)'
  <1>1. Exact(d) => Exact(d)'
    BY DEF Exact, Posting, Accounting
  <1>2. Untouched(d) => Untouched(d)'
    BY DEF Untouched
  <1>3. /\ NoClosure(inflight[d]) => NoClosure(inflight[d])'
        /\ NoClosure(queue[d]) => NoClosure(queue[d])'
    BY DEF NoClosure
  <1>4. QED
    BY <1>1, <1>2, <1>3 DEF Accounted

\* publish copies the subscription set and touches no subscription.
LEMMA AccountingPublish ==
  ASSUME AccountingInv, NEW kind \in Kinds, Publish(kind)
  PROVE  AccountingInv'
  <1>1. log \in Seq(Kinds)
    BY DEF AccountingInv, TypeOK
  <1>2. Append(log, kind) \in Seq(Kinds) /\ Append(log, kind) # <<>>
    BY <1>1, AppendFacts
  <1> USE DEF Publish, handler
  <1>3. TypeOK'
    BY <1>2 DEF AccountingInv, TypeOK
  <1>4. ASSUME NEW d \in Clients PROVE Accounted(d)'
    BY DEF AccountingInv, Accounted, Untouched, NoClosure, Exact, Posting, Accounting
  <1>5. QED
    BY <1>2, <1>3, <1>4 DEF AccountingInv

\* _schedule counts the event it is about to post, or finds the client full.
LEMMA AccountingSchedule ==
  ASSUME AccountingInv, NEW c \in Clients, Schedule(c)
  PROVE  AccountingInv'
  <1>1. TypeOK /\ Counters /\ Accounted(c) /\ c \in targets /\ posting = {} /\ overflowing = {}
    BY CountersType DEF AccountingInv, Schedule
  <1>2. /\ targets' = targets \ {c}
        /\ UNCHANGED <<log, subscriptions, active, inflight, queue, loopOpen,
                       phase, item, base, found, sent>>
    BY DEF Schedule, handler
  <1>3. phase[c] # "absent"
    BY <1>1 DEF Accounted, Untouched
  <1>4. CASE UNCHANGED <<posting, outstanding>> /\ overflowing' \subseteq {c}
    <2>1. TypeOK'
      BY <1>1, <1>2, <1>4 DEF TypeOK
    <2>2. Accounted(c)'
      BY <1>1, <1>2, <1>3, <1>4 DEF Accounted, NoClosure, Exact, Posting, Accounting
    <2>3. ASSUME NEW d \in Clients, d # c PROVE Accounted(d)'
      <3>1. Accounted(d)
        BY DEF AccountingInv
      <3> QED BY <1>2, <1>4, <2>3, <3>1, Unaffected
    <2> QED BY <1>1, <1>2, <1>4, <2>1, <2>2, <2>3 DEF AccountingInv
  <1>5. CASE /\ outstanding[c] < Capacity
             /\ outstanding' = [outstanding EXCEPT ![c] = outstanding[c] + 1]
             /\ posting' = {c} /\ UNCHANGED overflowing
    <2>1. /\ outstanding' \in [Clients -> Nat] /\ outstanding'[c] = outstanding[c] + 1
          /\ \A d \in Clients : d # c => outstanding'[d] = outstanding[d]
      BY <1>1, <1>5 DEF Counters
    <2>2. TypeOK'
      BY <1>1, <1>2, <1>5, <2>1 DEF TypeOK
    <2>3. active[c] => Exact(c)'
      BY <1>1, <1>2, <1>5, <2>1, CapacityAssumption
      DEF Accounted, Exact, Posting, Accounting, Counters
    <2>4. Accounted(c)'
      BY <1>1, <1>2, <1>3, <2>3 DEF Accounted, NoClosure
    <2>5. ASSUME NEW d \in Clients, d # c PROVE Accounted(d)'
      <3>1. Accounted(d)
        BY DEF AccountingInv
      <3> QED BY <1>1, <1>2, <1>5, <2>1, <2>5, <3>1, Unaffected
    <2> QED BY <1>1, <1>2, <1>5, <2>2, <2>4, <2>5 DEF AccountingInv
  <1>6. QED
    BY <1>1, <1>4, <1>5 DEF Schedule

\* What _deactivate leaves behind.
LEMMA Deactivated ==
  ASSUME TypeOK, NEW c \in Clients, NEW closing \in BOOLEAN, Deactivate(c, closing)
  PROVE  /\ active' \in [Clients -> BOOLEAN] /\ ~active'[c]
         /\ outstanding' \in [Clients -> Nat]
         /\ inflight' \in [Clients -> Seq(Nat)]
         /\ \A d \in Clients \ {c} : /\ active'[d] = active[d]
                                     /\ outstanding'[d] = outstanding[d]
                                     /\ inflight'[d] = inflight[d]
  <1>1. Append(inflight[c], Closed) \in Seq(Nat)
    BY AppendFacts DEF TypeOK, Closed
  <1>2. QED
    BY <1>1 DEF TypeOK, Deactivate

\* call_soon_threadsafe moves the counted event to the loop; on a closed loop
\* unsubscribe forgets the count.
LEMMA AccountingPost ==
  ASSUME AccountingInv, NEW c \in Clients, Post(c)
  PROVE  AccountingInv'
  <1>1. TypeOK /\ Accounted(c) /\ c \in posting
    BY DEF AccountingInv, Post
  <1>2. phase[c] # "absent"
    BY <1>1 DEF Accounted, Untouched
  <1>3. ASSUME NEW d \in Clients, d # c PROVE Accounted(d) /\ d \notin posting
    BY <1>1, <1>3 DEF AccountingInv
  <1>4. UNCHANGED <<log, targets, overflowing, queue, loopOpen, handler>> /\ posting' = {}
    BY DEF Post
  <1>5. CASE loopOpen
    <2>1. Published \in Nat /\ Published # Closed
      BY <1>1 DEF AccountingInv, TypeOK, Published, Closed
    <2>2. inflight[c] \in Seq(Nat)
      BY <1>1 DEF TypeOK
    <2>3. /\ Append(inflight[c], Published) \in Seq(Nat)
          /\ Len(Append(inflight[c], Published)) = Len(inflight[c]) + 1
          /\ NoClosure(inflight[c]) => NoClosure(Append(inflight[c], Published))
      BY <2>1, <2>2, AppendFacts DEF NoClosure
    <2>4. /\ inflight' = [inflight EXCEPT ![c] = Append(inflight[c], Published)]
          /\ UNCHANGED <<subscriptions, active, outstanding>>
      BY <1>5 DEF Post
    <2>5. /\ inflight'[c] = Append(inflight[c], Published)
          /\ \A d \in Clients : d # c => inflight'[d] = inflight[d]
      BY <2>4, <1>1 DEF TypeOK
    <2>6. TypeOK'
      BY <1>1, <1>4, <2>3, <2>4 DEF TypeOK, handler
    <2>7. Exact(c) => Exact(c)'
      BY <1>1, <1>4, <2>2, <2>3, <2>4, <2>5 DEF Exact, Posting, Accounting, TypeOK, handler
    <2>8. Accounted(c)'
      BY <1>1, <1>2, <1>4, <2>3, <2>4, <2>5, <2>7 DEF Accounted, NoClosure, handler
    <2>9. ASSUME NEW d \in Clients, d # c PROVE Accounted(d)'
      BY <1>3, <1>4, <2>4, <2>5, <2>9, Unaffected DEF handler
    <2> QED BY <1>4, <2>6, <2>8, <2>9 DEF AccountingInv
  <1>6. CASE ~loopOpen
    <2>1. Deactivate(c, FALSE) /\ subscriptions' = subscriptions \ {c}
      BY <1>6 DEF Post
    <2>2. /\ active' \in [Clients -> BOOLEAN] /\ ~active'[c]
          /\ outstanding' \in [Clients -> Nat]
          /\ inflight' \in [Clients -> Seq(Nat)]
          /\ \A d \in Clients \ {c} : /\ active'[d] = active[d]
                                      /\ outstanding'[d] = outstanding[d]
                                      /\ inflight'[d] = inflight[d]
      BY <1>1, <2>1, Deactivated
    <2>3. TypeOK'
      BY <1>1, <1>4, <2>1, <2>2 DEF TypeOK, handler
    <2>4. Accounted(c)'
      BY <1>1, <1>2, <1>4, <2>1, <2>2 DEF Accounted, handler
    <2>5. ASSUME NEW d \in Clients, d # c PROVE Accounted(d)'
      BY <1>3, <1>4, <2>1, <2>2, <2>5, Unaffected DEF handler
    <2> QED BY <1>4, <2>3, <2>4, <2>5 DEF AccountingInv
  <1>7. QED
    BY <1>5, <1>6

\* disconnect_slow_subscriber deactivates the client before it posts a closure.
LEMMA AccountingDisconnectSlow ==
  ASSUME AccountingInv, NEW c \in Clients, DisconnectSlow(c)
  PROVE  AccountingInv'
  <1>1. TypeOK /\ Accounted(c) /\ c \in overflowing
    BY DEF AccountingInv, DisconnectSlow
  <1>2. phase[c] # "absent"
    BY <1>1 DEF Accounted, Untouched
  <1>3. UNCHANGED <<log, targets, posting, queue, loopOpen, handler>> /\ overflowing' = {}
    BY DEF DisconnectSlow
  <1>4. CASE c \in subscriptions
    <2>1. Deactivate(c, TRUE) /\ subscriptions' = subscriptions \ {c}
      BY <1>4 DEF DisconnectSlow
    <2>2. /\ active' \in [Clients -> BOOLEAN] /\ ~active'[c]
          /\ outstanding' \in [Clients -> Nat]
          /\ inflight' \in [Clients -> Seq(Nat)]
          /\ \A d \in Clients \ {c} : /\ active'[d] = active[d]
                                      /\ outstanding'[d] = outstanding[d]
                                      /\ inflight'[d] = inflight[d]
      BY <1>1, <2>1, Deactivated
    <2>3. TypeOK'
      BY <1>1, <1>3, <2>1, <2>2 DEF TypeOK, handler
    <2>4. Accounted(c)'
      BY <1>1, <1>2, <1>3, <2>1, <2>2 DEF Accounted, handler
    <2>5. ASSUME NEW d \in Clients, d # c PROVE Accounted(d)'
      <3>1. Accounted(d)
        BY DEF AccountingInv
      <3> QED BY <1>3, <2>1, <2>2, <2>5, <3>1, Unaffected DEF handler
    <2> QED BY <1>3, <2>3, <2>4, <2>5 DEF AccountingInv
  <1>5. CASE c \notin subscriptions
    <2>1. UNCHANGED <<subscriptions, active, outstanding, inflight>>
      BY <1>5 DEF DisconnectSlow
    <2>2. TypeOK'
      BY <1>1, <1>3, <2>1 DEF TypeOK, handler
    <2>3. ASSUME NEW d \in Clients PROVE Accounted(d)'
      <3>1. Accounted(d)
        BY DEF AccountingInv
      <3> QED BY <1>3, <2>1, <3>1, Unaffected DEF handler
    <2> QED BY <1>3, <2>1, <2>2, <2>3 DEF AccountingInv
  <1>6. QED
    BY <1>4, <1>5

\* _deliver moves an event from the loop to the queue; _deliver_closed only runs
\* for an inactive subscription.
LEMMA AccountingRunCallback ==
  ASSUME AccountingInv, NEW c \in Clients, RunCallback(c)
  PROVE  AccountingInv'
  <1> DEFINE i == inflight[c]
             q == queue[c]
  <1>1. /\ TypeOK /\ Accounted(c)
        /\ i \in Seq(Nat) /\ i # <<>> /\ q \in Seq(Nat) /\ Len(q) <= Capacity
    BY DEF AccountingInv, TypeOK, RunCallback
  <1>2. /\ Tail(i) \in Seq(Nat) /\ Len(i) \in Nat /\ Len(i) >= 1
        /\ Len(Tail(i)) = Len(i) - 1 /\ Head(i) \in Nat /\ Head(i) = i[1]
        /\ NoClosure(i) => NoClosure(Tail(i)) /\ Head(i) # Closed
    BY <1>1, TailFacts, NoClosureFacts
  <1>3. /\ Append(q, Head(i)) \in Seq(Nat)
        /\ Len(Append(q, Head(i))) = Len(q) + 1
        /\ NoClosure(q) /\ Head(i) # Closed => NoClosure(Append(q, Head(i)))
    BY <1>1, <1>2, AppendFacts, SMTT(20) DEF NoClosure
  <1>4. active[c] => Len(q) < Capacity
    BY <1>1, <1>2, CapacityAssumption DEF Accounted, Exact, Posting, Accounting, TypeOK
  <1>5. inflight' = [inflight EXCEPT ![c] = Tail(i)]
    BY DEF RunCallback
  <1>6. queue' = [queue EXCEPT ![c] = IF Head(i) = Closed THEN <<Closed>>
                                      ELSE IF active[c] THEN Append(q, Head(i)) ELSE q]
    BY <1>4 DEF RunCallback
  <1>7. UNCHANGED <<log, subscriptions, targets, posting, overflowing, active, outstanding,
                    loopOpen, phase, item, base, found, sent>>
    BY DEF RunCallback, publisher, handler
  <1>8. /\ inflight'[c] = Tail(i)
        /\ queue'[c] = IF Head(i) = Closed THEN <<Closed>>
                       ELSE IF active[c] THEN Append(q, Head(i)) ELSE q
        /\ \A d \in Clients : d # c => inflight'[d] = inflight[d] /\ queue'[d] = queue[d]
    BY <1>1, <1>5, <1>6 DEF TypeOK
  <1>9. TypeOK'
    <2>1. queue'[c] \in Seq(Nat) /\ Len(queue'[c]) <= Capacity
      BY <1>1, <1>3, <1>4, <1>8, SingletonFacts, CapacityAssumption
    <2>2. queue' \in [Clients -> Seq(Nat)] /\ inflight' \in [Clients -> Seq(Nat)]
      BY <1>1, <1>2, <1>5, <1>6, <1>8, <2>1 DEF TypeOK
    <2> QED BY <1>1, <1>7, <1>8, <2>1, <2>2 DEF TypeOK
  <1>10. Accounted(c)'
    <2>1. phase[c] # "absent"
      BY <1>1 DEF Accounted, Untouched
    <2>2. active[c] => Exact(c)' /\ NoClosure(inflight'[c]) /\ NoClosure(queue'[c])
      BY <1>1, <1>2, <1>3, <1>7, <1>8 DEF Accounted, Exact, Posting, Accounting, TypeOK
    <2> QED BY <1>1, <1>7, <2>1, <2>2 DEF Accounted, NoClosure
  <1>11. ASSUME NEW d \in Clients, d # c PROVE Accounted(d)'
    <2>1. Accounted(d)
      BY DEF AccountingInv
    <2> QED BY <1>7, <1>8, <1>11, <2>1, Unaffected
  <1>12. QED
    BY <1>7, <1>9, <1>10, <1>11 DEF AccountingInv

\* Closing the event loop leaves every count as it is.
LEMMA AccountingCloseLoop ==
  ASSUME AccountingInv, CloseLoop
  PROVE  AccountingInv'
  <1> USE DEF CloseLoop, publisher, handler
  <1>1. TypeOK'
    BY DEF AccountingInv, TypeOK
  <1>2. ASSUME NEW d \in Clients PROVE Accounted(d)'
    <2>1. Accounted(d)
      BY DEF AccountingInv
    <2> QED BY <2>1, Unaffected
  <1>3. QED
    BY <1>1, <1>2 DEF AccountingInv

\* A new subscription starts with nothing on its way.
LEMMA AccountingSubscribe ==
  ASSUME AccountingInv, NEW c \in Clients, Subscribe(c)
  PROVE  AccountingInv'
  <1>1. TypeOK /\ Accounted(c) /\ Untouched(c)
    BY DEF AccountingInv, Accounted, Subscribe
  <1>2. Published \in Nat /\ ServiceState \in {"running", "completed", "stopped"}
    BY <1>1 DEF TypeOK, Published, ServiceState, Kinds
  <1> USE DEF Subscribe, publisher
  <1>3. TypeOK'
    BY <1>1, <1>2 DEF TypeOK, Phases
  <1>4. Accounted(c)'
    <2>1. active'[c] /\ phase'[c] = "opening"
      BY <1>1 DEF TypeOK
    <2>2. Exact(c)' /\ NoClosure(inflight'[c]) /\ NoClosure(queue'[c])
      BY <1>1, <2>1, CapacityAssumption DEF Untouched, Exact, Posting, Accounting, NoClosure
    <2> QED BY <2>1, <2>2 DEF Accounted, NoClosure
  <1>5. ASSUME NEW d \in Clients, d # c PROVE Accounted(d)'
    <2>1. Accounted(d) /\ active'[d] = active[d] /\ phase'[d] = phase[d]
      BY <1>1, <1>5 DEF AccountingInv, TypeOK
    <2> QED BY <1>5, <2>1, Unaffected
  <1>6. QED
    BY <1>3, <1>4, <1>5 DEF AccountingInv

\* Sending the snapshot moves no delivery.
LEMMA AccountingSendSnapshot ==
  ASSUME AccountingInv, NEW c \in Clients, SendSnapshot(c)
  PROVE  AccountingInv'
  <1>1. TypeOK /\ Accounted(c) /\ phase[c] = "opening"
    BY DEF AccountingInv, SendSnapshot
  <1> USE DEF SendSnapshot, publisher
  <1>2. TypeOK'
    BY <1>1 DEF TypeOK, Phases
  <1>3. phase'[c] \in {"closing", "waiting"}
    BY <1>1 DEF TypeOK
  <1>4. Exact(c) => Exact(c)'
    BY <1>1, <1>3 DEF Exact, Posting, Accounting
  <1>5. Accounted(c)'
    BY <1>1, <1>3, <1>4 DEF Accounted, NoClosure
  <1>6. ASSUME NEW d \in Clients, d # c PROVE Accounted(d)'
    <2>1. Accounted(d) /\ phase'[d] = phase[d]
      BY <1>1, <1>6 DEF AccountingInv, TypeOK
    <2> QED BY <1>6, <2>1, Unaffected
  <1>7. QED
    BY <1>2, <1>5, <1>6 DEF AccountingInv

\* receive holds the event it took until it has given its delivery back.
LEMMA AccountingTake ==
  ASSUME AccountingInv, NEW c \in Clients, Take(c)
  PROVE  AccountingInv'
  <1>1. TypeOK /\ Accounted(c) /\ phase[c] = "waiting" /\ queue[c] # <<>>
    BY DEF AccountingInv, Take
  <1>2. queue[c] \in Seq(Nat) /\ inflight[c] \in Seq(Nat)
    BY <1>1 DEF TypeOK
  <1>3. /\ Tail(queue[c]) \in Seq(Nat) /\ Head(queue[c]) \in Nat
        /\ Len(queue[c]) \in Nat /\ Len(Tail(queue[c])) = Len(queue[c]) - 1
        /\ NoClosure(queue[c]) => Head(queue[c]) # Closed /\ NoClosure(Tail(queue[c]))
    BY <1>1, <1>2, TailFacts, NoClosureFacts
  <1>4. /\ queue'[c] = Tail(queue[c]) /\ item'[c] = Head(queue[c])
        /\ phase'[c] = IF Head(queue[c]) = Closed THEN "sending" ELSE "accounting"
        /\ \A d \in Clients : d # c => /\ queue'[d] = queue[d] /\ item'[d] = item[d]
                                       /\ phase'[d] = phase[d]
    BY <1>1 DEF Take, TypeOK
  <1> USE DEF Take, publisher
  <1>5. TypeOK'
    <2>1. \A d \in Clients : Len(queue'[d]) <= Capacity
      BY <1>1, <1>3, <1>4, CapacityAssumption DEF TypeOK
    <2>2. /\ queue' \in [Clients -> Seq(Nat)] /\ item' \in [Clients -> Items]
          /\ phase' \in [Clients -> Phases]
      BY <1>1, <1>3 DEF TypeOK, Phases, Items
    <2> QED BY <1>1, <2>1, <2>2 DEF TypeOK
  <1>6. Accounted(c)'
    <2>1. UNCHANGED <<active, subscriptions, outstanding, inflight, posting>>
      OBVIOUS
    <2> HIDE DEF Take
    <2>2. active[c] => Exact(c)'
      <3>1. Counters
        BY <1>1, CountersType
      <3> QED BY <1>1, <1>3, <1>4, <2>1, <3>1, CapacityAssumption
              DEF Accounted, Exact, Posting, Accounting, Counters
    <2> QED BY <1>1, <1>3, <1>4, <2>1, <2>2 DEF Accounted, NoClosure
  <1>7. ASSUME NEW d \in Clients, d # c PROVE Accounted(d)'
    <2>1. Accounted(d)
      BY DEF AccountingInv
    <2> QED BY <1>4, <1>7, <2>1, Unaffected
  <1>8. QED
    BY <1>5, <1>6, <1>7 DEF AccountingInv

\* The decrement in receive gives back the delivery of the event taken.
LEMMA AccountingAccount ==
  ASSUME AccountingInv, NEW c \in Clients, Account(c)
  PROVE  AccountingInv'
  <1>1. TypeOK /\ Accounted(c) /\ phase[c] = "accounting"
    BY DEF AccountingInv, Account
  <1>2. Counters
    BY <1>1, CountersType
  <1>3. active[c] => outstanding[c] - 1 \in Nat
    BY <1>1, <1>2 DEF Accounted, Exact, Posting, Accounting, Counters
  <1>4. /\ outstanding'[c] = IF active[c] THEN outstanding[c] - 1 ELSE outstanding[c]
        /\ phase'[c] = "sending"
        /\ \A d \in Clients : d # c => /\ outstanding'[d] = outstanding[d]
                                       /\ phase'[d] = phase[d]
    BY <1>1 DEF Account, TypeOK
  <1> USE DEF Account, publisher
  <1>5. TypeOK'
    <2>1. outstanding' \in [Clients -> Nat]
      BY <1>1, <1>3 DEF TypeOK
    <2> QED BY <1>1, <2>1 DEF TypeOK, Phases
  <1>6. Accounted(c)'
    <2>1. UNCHANGED <<active, subscriptions, inflight, queue, posting, item>>
      OBVIOUS
    <2> HIDE DEF Account
    <2>2. active[c] => Exact(c)'
      BY <1>1, <1>2, <1>3, <1>4, <2>1, CapacityAssumption
      DEF Accounted, Exact, Posting, Accounting, Counters
    <2> QED BY <1>1, <1>4, <2>1, <2>2 DEF Accounted, NoClosure
  <1>7. ASSUME NEW d \in Clients, d # c PROVE Accounted(d)'
    <2>1. Accounted(d)
      BY DEF AccountingInv
    <2> QED BY <1>4, <1>7, <2>1, Unaffected
  <1>8. QED
    BY <1>5, <1>6, <1>7 DEF AccountingInv

\* Sending an item moves no delivery.
LEMMA AccountingSend ==
  ASSUME AccountingInv, NEW c \in Clients, Send(c)
  PROVE  AccountingInv'
  <1>1. TypeOK /\ Accounted(c) /\ phase[c] = "sending"
    BY DEF AccountingInv, Send
  <1>2. Append(sent[c], item[c]) \in Seq(Nat)
    BY <1>1, AppendFacts DEF TypeOK, Accounted
  <1> USE DEF Send, publisher
  <1>3. TypeOK'
    BY <1>1, <1>2 DEF TypeOK, Phases, Items
  <1>4. phase'[c] \in {"closing", "waiting"}
    BY <1>1 DEF TypeOK
  <1>5. Exact(c) => Exact(c)'
    BY <1>1, <1>4 DEF Exact, Posting, Accounting
  <1>6. Accounted(c)'
    BY <1>1, <1>4, <1>5 DEF Accounted, NoClosure
  <1>7. ASSUME NEW d \in Clients, d # c PROVE Accounted(d)'
    <2>1. Accounted(d) /\ phase'[d] = phase[d] /\ item'[d] = item[d]
      BY <1>1, <1>7 DEF AccountingInv, TypeOK
    <2> QED BY <1>7, <2>1, Unaffected
  <1>8. QED
    BY <1>3, <1>6, <1>7 DEF AccountingInv

\* A lost connection leaves the counts to the close that follows.
LEMMA AccountingDisconnect ==
  ASSUME AccountingInv, NEW c \in Clients, Disconnect(c)
  PROVE  AccountingInv'
  <1>1. TypeOK /\ Accounted(c) /\ phase[c] \in {"opening", "sending"}
    BY DEF AccountingInv, Disconnect
  <1> USE DEF Disconnect, publisher
  <1>2. TypeOK'
    BY <1>1 DEF TypeOK, Phases, Items
  <1>3. phase'[c] = "closing"
    BY <1>1 DEF TypeOK
  <1>4. Exact(c) => Exact(c)'
    BY <1>1, <1>3 DEF Exact, Posting, Accounting
  <1>5. Accounted(c)'
    BY <1>1, <1>3, <1>4 DEF Accounted, NoClosure
  <1>6. ASSUME NEW d \in Clients, d # c PROVE Accounted(d)'
    <2>1. Accounted(d) /\ phase'[d] = phase[d] /\ item'[d] = item[d]
      BY <1>1, <1>6 DEF AccountingInv, TypeOK
    <2> QED BY <1>6, <2>1, Unaffected
  <1>7. QED
    BY <1>2, <1>5, <1>6 DEF AccountingInv

\* unsubscribe deactivates the subscription and forgets its count.
LEMMA AccountingClose ==
  ASSUME AccountingInv, NEW c \in Clients, Close(c)
  PROVE  AccountingInv'
  <1>1. TypeOK /\ Accounted(c) /\ phase[c] = "closing" /\ Deactivate(c, FALSE)
    BY DEF AccountingInv, Close
  <1>2. /\ active' \in [Clients -> BOOLEAN] /\ ~active'[c]
        /\ outstanding' \in [Clients -> Nat]
        /\ inflight' \in [Clients -> Seq(Nat)]
        /\ \A d \in Clients \ {c} : /\ active'[d] = active[d]
                                    /\ outstanding'[d] = outstanding[d]
                                    /\ inflight'[d] = inflight[d]
    BY <1>1, Deactivated
  <1> USE DEF Close, publisher
  <1>3. TypeOK'
    BY <1>1, <1>2 DEF TypeOK, Phases
  <1>4. Accounted(c)'
    <2>1. phase'[c] = "done"
      BY <1>1 DEF TypeOK
    <2> QED BY <1>1, <1>2, <2>1 DEF Accounted
  <1>5. ASSUME NEW d \in Clients, d # c PROVE Accounted(d)'
    <2>1. Accounted(d) /\ phase'[d] = phase[d]
      BY <1>1, <1>5 DEF AccountingInv, TypeOK
    <2> QED BY <1>2, <1>5, <2>1, Unaffected
  <1>6. QED
    BY <1>3, <1>4, <1>5 DEF AccountingInv

\* Every step of every actor preserves the accounting invariant.
LEMMA AccountingStep == AccountingInv /\ [Next]_vars => AccountingInv'
  <1> SUFFICES ASSUME AccountingInv, [Next]_vars PROVE AccountingInv'
    OBVIOUS
  <1>1. CASE UNCHANGED vars
    <2> USE <1>1 DEF vars, publisher, handler
    <2>1. TypeOK'
      BY DEF AccountingInv, TypeOK
    <2>2. ASSUME NEW d \in Clients PROVE Accounted(d)'
      <3>1. Accounted(d)
        BY DEF AccountingInv
      <3> QED BY <3>1, Unaffected
    <2> QED BY <2>1, <2>2 DEF AccountingInv
  <1>2. ASSUME NEW kind \in Kinds, Publish(kind) PROVE AccountingInv'
    BY <1>2, AccountingPublish
  <1>3. CASE CloseLoop
    BY <1>3, AccountingCloseLoop
  <1>4. ASSUME NEW c \in Clients,
               Schedule(c) \/ Post(c) \/ DisconnectSlow(c)
        PROVE  AccountingInv'
    BY <1>4, AccountingSchedule, AccountingPost, AccountingDisconnectSlow
  <1>5. ASSUME NEW c \in Clients, Subscribe(c) \/ Local(c) \/ Peer(c) \/ Disconnect(c)
        PROVE  AccountingInv'
    BY <1>5, AccountingSubscribe, AccountingRunCallback, AccountingTake, AccountingAccount,
       AccountingClose, AccountingSendSnapshot, AccountingSend, AccountingDisconnect
    DEF Local, Peer
  <1>6. QED
    BY <1>1, <1>2, <1>3, <1>4, <1>5 DEF Next, Publisher

\* Whatever the interleaving of publisher, loop and handlers, the state keeps
\* its types; in particular no subscription's counter goes below zero and no
\* queue grows past its capacity.
THEOREM TypeCorrect == Spec => []TypeOK
  <1>1. AccountingInv => TypeOK
    BY DEF AccountingInv
  <1>2. QED
    BY <1>1, AccountingInit, AccountingStep, PTL DEF Spec

\* _outstanding_deliveries counts exactly the events on their way to an active
\* subscription and stays within subscriber_queue_capacity.
THEOREM DeliveriesExact == Spec => []OutstandingExact
  <1>1. AccountingInv => OutstandingExact
    BY DEF AccountingInv, Accounted, Exact, OutstandingExact
  <1>2. QED
    BY <1>1, AccountingInit, AccountingStep, PTL DEF Spec

\* _deliver always finds room in the queue of an active subscription.
THEOREM RoomForDelivery == Spec => []NeverQueueFull
  <1>1. AccountingInv => NeverQueueFull
    <2> SUFFICES ASSUME AccountingInv, NEW c \in Clients, active[c], inflight[c] # <<>>
                 PROVE  Len(queue[c]) < Capacity
      BY DEF NeverQueueFull
    <2>1. Counters /\ Exact(c)
      BY CountersType DEF AccountingInv, Accounted
    <2> QED BY <2>1, CapacityAssumption DEF Counters, Exact, Posting, Accounting
  <1>2. QED
    BY <1>1, AccountingInit, AccountingStep, PTL DEF Spec

-----------------------------------------------------------------------------
(***************************************************************************)
(* Proofs that SubscriberStream keeps every client's stream in order.        *)
(*                                                                         *)
(* What a client has been sent, what its handler holds, its queue, its       *)
(* callbacks and the event the publisher is about to post are consecutive    *)
(* parts of the stream, as long as the subscription is active and its        *)
(* handler listens.  After a deactivation only what is queued is still to    *)
(* come, or a closure instead of it.                                       *)
(***************************************************************************)


\* In these operators b is the position of the snapshot, s what has been sent,
\* h the phase of the handler, x the item it holds, q the queue, f the
\* callbacks, p whether the newest event is still with the publisher, and n
\* the number of events published.

Holding == {"accounting", "sending"}
Listening == {"opening", "waiting"} \cup Holding

Taken(h) == IF h \in Holding THEN 1 ELSE 0

InPlace(q, n) == \A j \in 1..Len(q) : q[j] = n + j

SentInOrder(b, s, h) ==
  \A i \in 1..Len(s) :
    s[i] = b + i \/ (s[i] = Closed /\ i = Len(s) /\ h \in {"closing", "done"})

QueueInOrder(l, q, n) ==
  /\ l <= n
  /\ q = <<Closed>> \/ (InPlace(q, l) /\ l + Len(q) <= n)

\* What holds of every client.
Ordered(b, s, h, x, q, n) ==
  /\ SentInOrder(b, s, h)
  /\ b + Len(s) <= n + 1
  /\ h \in Listening =>
       /\ b + Len(s) <= n
       /\ h \in Holding => x = Closed \/ x = b + Len(s) + 1
       /\ QueueInOrder(b + Len(s) + Taken(h), q, n) \/ (h \in Holding /\ x = Closed)

\* What holds of an active one besides; k is the position of the last event
\* queued.
Connected(k, h, x, f, p, n) ==
  /\ k + Len(f) + p <= n
  /\ h \in Holding => x # Closed
  /\ h \in Listening => k + Len(f) + p = n /\ InPlace(f, k)

Queued(b, s, h, q) == b + Len(s) + Taken(h) + Len(q)

-----------------------------------------------------------------------------
\* Each step of the pipeline keeps it in order.

\* A client that has just subscribed has an empty pipeline.
LEMMA OrderedSubscribe ==
  ASSUME NEW n \in Nat, NEW x
  PROVE  /\ Ordered(n, <<>>, "opening", x, <<>>, n)
         /\ Connected(n, "opening", x, <<>>, 0, n)
         /\ Queued(n, <<>>, "opening", <<>>) = n
  BY DEF Ordered, Connected, SentInOrder, QueueInOrder, InPlace, Taken, Holding, Listening,
         Queued

\* A longer stream keeps what is under way in order.
LEMMA OrderedPublish ==
  ASSUME NEW n \in Nat, NEW b \in Nat, NEW s \in Seq(Nat), NEW h \in Phases, NEW x \in Items,
         NEW q \in Seq(Nat), Ordered(b, s, h, x, q, n)
  PROVE  Ordered(b, s, h, x, q, n + 1)
  BY DEF Ordered, QueueInOrder, Taken

\* A new event that is still to be handed over extends the pipeline by one.
LEMMA ConnectedPublish ==
  ASSUME NEW n \in Nat, NEW k \in Nat, NEW h \in Phases, NEW x \in Items, NEW f \in Seq(Nat),
         Connected(k, h, x, f, 0, n)
  PROVE  Connected(k, h, x, f, 1, n + 1)
  BY DEF Connected

\* The posted callback carries the newest event.
LEMMA ConnectedPost ==
  ASSUME NEW n \in Nat, NEW k \in Nat, NEW h \in Phases, NEW x \in Items, NEW f \in Seq(Nat),
         Connected(k, h, x, f, 1, n)
  PROVE  Connected(k, h, x, Append(f, n), 0, n)
  <1>1. /\ Append(f, n) \in Seq(Nat) /\ Len(Append(f, n)) = Len(f) + 1
        /\ \A i \in 1..Len(f) : Append(f, n)[i] = f[i]
        /\ Append(f, n)[Len(f) + 1] = n
    BY AppendFacts
  <1>2. h \in Listening => InPlace(Append(f, n), k)
    BY <1>1 DEF Connected, InPlace
  <1>3. QED
    BY <1>1, <1>2 DEF Connected

\* _deliver moves the oldest callback of an active subscription to its queue.
LEMMA ConnectedDeliver ==
  ASSUME NEW n \in Nat, NEW k \in Nat, NEW h \in Phases, NEW x \in Items, NEW f \in Seq(Nat),
         NEW p \in 0..1, f # <<>>, Connected(k, h, x, f, p, n)
  PROVE  /\ Connected(k + 1, h, x, Tail(f), p, n)
         /\ h \in Listening => Head(f) = k + 1
         /\ k + 1 <= n
  <1>1. /\ Tail(f) \in Seq(Nat) /\ Len(f) \in Nat /\ Len(f) >= 1
        /\ Len(Tail(f)) = Len(f) - 1 /\ Head(f) = f[1]
        /\ \A i \in 1..(Len(f) - 1) : Tail(f)[i] = f[i + 1]
    BY TailFacts
  <1>2. h \in Listening => InPlace(Tail(f), k + 1) /\ Head(f) = k + 1
    BY <1>1 DEF Connected, InPlace
  <1>3. QED
    BY <1>1, <1>2 DEF Connected

\* An event delivered from the head of the callbacks follows the queue.
LEMMA OrderedDeliver ==
  ASSUME NEW n \in Nat, NEW b \in Nat, NEW s \in Seq(Nat), NEW h \in Phases, NEW x \in Items,
         NEW q \in Seq(Nat), NEW e \in Nat, Ordered(b, s, h, x, q, n), NoClosure(q),
         Queued(b, s, h, q) + 1 <= n,
         h \in Listening => e = Queued(b, s, h, q) + 1
  PROVE  Ordered(b, s, h, x, Append(q, e), n)
  <1>1. /\ Append(q, e) \in Seq(Nat) /\ Len(Append(q, e)) = Len(q) + 1
        /\ \A i \in 1..Len(q) : Append(q, e)[i] = q[i]
        /\ Append(q, e)[Len(q) + 1] = e
    BY AppendFacts
  <1>2. q # <<Closed>>
    BY DEF NoClosure
  <1>3. CASE h \in Listening /\ ~(h \in Holding /\ x = Closed)
    <2> DEFINE l == b + Len(s) + Taken(h)
    <2>1. l \in Nat /\ Queued(b, s, h, q) = l + Len(q)
      BY DEF Queued, Taken
    <2>2. InPlace(q, l) /\ l <= n
      BY <1>2, <1>3 DEF Ordered, QueueInOrder
    <2>3. e = l + Len(q) + 1 /\ l + Len(q) + 1 <= n
      BY <1>3, <2>1
    <2> HIDE DEF l
    <2>4. InPlace(Append(q, e), l)
      <3> SUFFICES ASSUME NEW j \in 1..(Len(q) + 1) PROVE Append(q, e)[j] = l + j
        BY <1>1 DEF InPlace
      <3>1. CASE j \in 1..Len(q)
        BY <1>1, <2>2, <3>1 DEF InPlace
      <3>2. CASE j = Len(q) + 1
        BY <1>1, <2>1, <2>3, <3>2
      <3> QED BY <3>1, <3>2
    <2>5. QueueInOrder(l, Append(q, e), n)
      BY <1>1, <2>1, <2>2, <2>3, <2>4 DEF QueueInOrder
    <2> QED BY <2>5 DEF Ordered, l
  <1>4. CASE ~(h \in Listening /\ ~(h \in Holding /\ x = Closed))
    BY <1>4 DEF Ordered
  <1>5. QED
    BY <1>3, <1>4

\* _deliver_closed replaces the queue.
LEMMA OrderedDeliverClosed ==
  ASSUME NEW n \in Nat, NEW b \in Nat, NEW s \in Seq(Nat), NEW h \in Phases, NEW x \in Items,
         NEW q \in Seq(Nat), Ordered(b, s, h, x, q, n)
  PROVE  Ordered(b, s, h, x, <<Closed>>, n)
  BY DEF Ordered, QueueInOrder

\* receive takes the first item of the queue.
LEMMA OrderedTake ==
  ASSUME NEW n \in Nat, NEW b \in Nat, NEW s \in Seq(Nat), NEW x \in Items,
         NEW q \in Seq(Nat), q # <<>>, Ordered(b, s, "waiting", x, q, n), NEW h,
         h = IF Head(q) = Closed THEN "sending" ELSE "accounting"
  PROVE  /\ Ordered(b, s, h, Head(q), Tail(q), n)
         /\ Queued(b, s, h, Tail(q)) = Queued(b, s, "waiting", q)
  <1>1. /\ Tail(q) \in Seq(Nat) /\ Len(q) \in Nat /\ Len(q) >= 1
        /\ Len(Tail(q)) = Len(q) - 1 /\ Head(q) = q[1]
        /\ \A i \in 1..(Len(q) - 1) : Tail(q)[i] = q[i + 1]
    BY TailFacts
  <1>2. h \in Holding /\ Taken(h) = 1 /\ Taken("waiting") = 0
    BY DEF Holding, Taken
  <1> DEFINE l == b + Len(s)
  <1>3. l \in Nat
    OBVIOUS
  <1>4. Queued(b, s, h, Tail(q)) = Queued(b, s, "waiting", q)
    BY <1>1, <1>2 DEF Queued
  <1>5. SentInOrder(b, s, h)
    BY DEF Ordered, SentInOrder
  <1>a. /\ l <= n /\ l <= n + 1
        /\ q = <<Closed>> \/ (InPlace(q, l) /\ l + Len(q) <= n)
    <2>1. /\ l <= n /\ l <= n + 1
          /\ QueueInOrder(l + 0, q, n)
      BY <1>2 DEF Ordered, Listening, Holding
    <2>2. l + 0 = l
      BY <1>3
    <2> QED BY <2>1, <2>2 DEF QueueInOrder
  <1>6. CASE Head(q) = Closed
    <2>1. h \in Holding /\ Head(q) = Closed
      BY <1>2, <1>6
    <2> QED BY <1>4, <1>5, <1>a, <2>1 DEF Ordered
  <1>7. CASE Head(q) # Closed
    <2>1. InPlace(q, l) /\ l + Len(q) <= n
      BY <1>1, <1>a, <1>7
    <2> HIDE DEF l
    <2>2. Head(q) = l + 1 /\ InPlace(Tail(q), l + 1)
      BY <1>1, <1>3, <2>1 DEF InPlace
    <2>3. QueueInOrder(l + 1, Tail(q), n)
      BY <1>1, <1>3, <2>1, <2>2 DEF QueueInOrder
    <2> QED BY <1>2, <1>4, <1>5, <1>a, <2>2, <2>3 DEF Ordered, l
  <1>8. QED
    BY <1>4, <1>6, <1>7

\* Sending an item moves it from the handler to what has been sent.
LEMMA QueuedSend ==
  ASSUME NEW b \in Nat, NEW s \in Seq(Nat), NEW x \in Nat, NEW q \in Seq(Nat),
         NEW h, h = "closing" \/ h = "waiting"
  PROVE  Queued(b, Append(s, x), h, q) = Queued(b, s, "sending", q)
  <1>1. Len(Append(s, x)) = Len(s) + 1
    BY AppendFacts
  <1>2. Taken("sending") = 1 /\ Taken(h) = 0
    BY DEF Holding, Taken
  <1>3. QED
    BY <1>1, <1>2 DEF Queued

\* The handler sends the item it holds, and closes after a closure.
LEMMA OrderedSend ==
  ASSUME NEW n \in Nat, NEW b \in Nat, NEW s \in Seq(Nat), NEW x \in Nat, NEW y,
         NEW q \in Seq(Nat), Ordered(b, s, "sending", x, q, n),
         NEW h, h = "closing" \/ (h = "waiting" /\ x # Closed)
  PROVE  Ordered(b, Append(s, x), h, y, q, n)
  <1>1. /\ Append(s, x) \in Seq(Nat) /\ Len(Append(s, x)) = Len(s) + 1
        /\ \A i \in 1..Len(s) : Append(s, x)[i] = s[i]
        /\ Append(s, x)[Len(s) + 1] = x
    BY AppendFacts
  <1>2. Taken("sending") = 1 /\ Taken(h) = 0 /\ h \notin Holding
    BY DEF Holding, Taken
  <1>3. /\ \A i \in 1..Len(s) : s[i] = b + i
        /\ b + Len(s) <= n
        /\ x = Closed \/ x = b + Len(s) + 1
        /\ QueueInOrder(b + Len(s) + 1, q, n) \/ x = Closed
    BY <1>2 DEF Ordered, SentInOrder, Listening, Holding
  <1>4. SentInOrder(b, Append(s, x), h)
    <2> SUFFICES ASSUME NEW i \in 1..(Len(s) + 1)
                 PROVE  \/ Append(s, x)[i] = b + i
                        \/ Append(s, x)[i] = Closed /\ i = Len(s) + 1 /\ h = "closing"
      BY <1>1 DEF SentInOrder
    <2>1. CASE i \in 1..Len(s)
      BY <1>1, <1>3, <2>1
    <2>2. CASE i = Len(s) + 1
      BY <1>1, <1>3, <2>2
    <2> QED BY <2>1, <2>2
  <1>5. h = "waiting" =>
          /\ b + (Len(s) + 1) <= n
          /\ QueueInOrder(b + (Len(s) + 1) + 0, q, n)
    <2> SUFFICES ASSUME h = "waiting"
                 PROVE  b + (Len(s) + 1) <= n /\ QueueInOrder(b + (Len(s) + 1) + 0, q, n)
      OBVIOUS
    <2>1. QueueInOrder(b + Len(s) + 1, q, n)
      BY <1>3
    <2>2. b + Len(s) + 1 = b + (Len(s) + 1) + 0 /\ b + Len(s) + 1 = b + (Len(s) + 1)
      OBVIOUS
    <2> QED BY <2>1, <2>2 DEF QueueInOrder
  <1>6. b + (Len(s) + 1) <= n + 1
    BY <1>3
  <1>7. QED
    BY <1>1, <1>2, <1>4, <1>5, <1>6 DEF Ordered, Listening

\* A handler that ends keeps what it has sent in order.
LEMMA OrderedEnd ==
  ASSUME NEW n \in Nat, NEW b \in Nat, NEW s \in Seq(Nat), NEW h \in Phases, NEW x, NEW y,
         NEW q, Ordered(b, s, h, x, q, n), NEW g \in {"closing", "done"}
  PROVE  Ordered(b, s, g, y, q, n)
  BY DEF Ordered, SentInOrder, Listening, Holding

-----------------------------------------------------------------------------
\* The stream invariant.

Pending(c) == IF c \in targets \cup posting \cup overflowing THEN 1 ELSE 0
LastQueued(c) == Queued(base[c], sent[c], phase[c], queue[c])

InOrder(c) ==
  /\ phase[c] = "absent" => sent[c] = <<>>
  /\ Ordered(base[c], sent[c], phase[c], item[c], queue[c], Published)
  /\ active[c] =>
       Connected(LastQueued(c), phase[c], item[c], inflight[c], Pending(c), Published)

OneAtATime ==
  /\ \A c, d \in posting \cup overflowing : c = d
  /\ posting \cap overflowing = {}
  /\ targets \cap (posting \cup overflowing) = {}

StreamInv == AccountingInv /\ OneAtATime /\ \A c \in Clients : InOrder(c)

\* The types of one client's part of the state.
LEMMA ClientTypes ==
  ASSUME TypeOK, NEW c \in Clients
  PROVE  /\ base[c] \in Nat /\ sent[c] \in Seq(Nat) /\ phase[c] \in Phases
         /\ item[c] \in Items /\ queue[c] \in Seq(Nat) /\ inflight[c] \in Seq(Nat)
         /\ Published \in Nat /\ LastQueued(c) \in Nat /\ Pending(c) \in 0..1
  <1>1. /\ base[c] \in Nat /\ sent[c] \in Seq(Nat) /\ phase[c] \in Phases
        /\ item[c] \in Items /\ queue[c] \in Seq(Nat) /\ inflight[c] \in Seq(Nat)
        /\ Published \in Nat
    BY DEF TypeOK, Published
  <1>2. LastQueued(c) \in Nat
    <2>1. ASSUME NEW b \in Nat, NEW s \in Seq(Nat), NEW h, NEW q \in Seq(Nat)
          PROVE  Queued(b, s, h, q) \in Nat
      BY DEF Queued, Taken
    <2> QED BY <1>1, <2>1 DEF LastQueued
  <1>3. Pending(c) \in 0..1
    BY DEF Pending
  <1>4. QED
    BY <1>1, <1>2, <1>3

\* No client has been sent anything when the service starts.
LEMMA StreamInit == Init => StreamInv
  <1> SUFFICES ASSUME Init PROVE StreamInv
    OBVIOUS
  <1>1. AccountingInv
    BY AccountingInit
  <1>2. OneAtATime
    BY DEF Init, OneAtATime
  <1>3. ASSUME NEW c \in Clients PROVE InOrder(c)
    <2>1. /\ base[c] = 0 /\ sent[c] = <<>> /\ phase[c] = "absent" /\ ~active[c]
          /\ Published = 0
      BY DEF Init, Published
    <2>2. Ordered(0, <<>>, "absent", item[c], queue[c], 0)
      BY DEF Ordered, SentInOrder, Listening, Holding
    <2> QED BY <2>1, <2>2 DEF InOrder
  <1>4. QED
    BY <1>1, <1>2, <1>3 DEF StreamInv

\* A step that leaves a client's part of the pipeline alone keeps it in order.
LEMMA Steady ==
  ASSUME NEW d \in Clients, InOrder(d), Published' = Published,
         active'[d] => active[d] /\ Pending(d)' = Pending(d) /\ inflight'[d] = inflight[d],
         base'[d] = base[d], sent'[d] = sent[d], phase'[d] = phase[d],
         item'[d] = item[d], queue'[d] = queue[d]
  PROVE  InOrder(d)'
  <1>1. LastQueued(d)' = LastQueued(d)
    BY DEF LastQueued
  <1>2. QED
    BY <1>1 DEF InOrder

\* publish numbers the event next in the stream for every registered client.
LEMMA StreamPublish ==
  ASSUME StreamInv, NEW kind \in Kinds, Publish(kind)
  PROVE  OneAtATime' /\ \A d \in Clients : InOrder(d)'
  <1>1. TypeOK
    BY DEF StreamInv, AccountingInv
  <1>2. Published' = Published + 1
    <2>1. log \in Seq(Kinds) /\ log' = Append(log, kind)
      BY <1>1 DEF TypeOK, Publish
    <2> QED BY <2>1, AppendFacts DEF Published
  <1>3. /\ targets = {} /\ posting = {} /\ overflowing = {}
        /\ UNCHANGED <<subscriptions, posting, overflowing, active, outstanding,
                       inflight, queue, phase, item, base, found, sent>>
        /\ targets' = subscriptions
    BY DEF Publish, PublisherIdle, handler
  <1>4. OneAtATime'
    BY <1>3 DEF OneAtATime
  <1>5. ASSUME NEW d \in Clients PROVE InOrder(d)'
    <2>1. InOrder(d) /\ Accounted(d)
      BY DEF StreamInv, AccountingInv
    <2>2. Ordered(base[d], sent[d], phase[d], item[d], queue[d], Published + 1)
      BY <1>1, <2>1, ClientTypes, OrderedPublish DEF InOrder
    <2>3. active[d] => Pending(d) = 0 /\ Pending(d)' = 1
      BY <1>3, <2>1 DEF Accounted, Pending
    <2>4. LastQueued(d)' = LastQueued(d)
      BY <1>3 DEF LastQueued
    <2>5. active[d] => Connected(LastQueued(d), phase[d], item[d], inflight[d], 1, Published + 1)
      BY <1>1, <2>1, <2>3, ClientTypes, ConnectedPublish DEF InOrder
    <2> QED BY <1>2, <1>3, <2>1, <2>2, <2>3, <2>4, <2>5 DEF InOrder
  <1>6. QED
    BY <1>4, <1>5

\* _schedule marks the event as being posted, for one client at a time.
LEMMA StreamSchedule ==
  ASSUME StreamInv, NEW c \in Clients, Schedule(c)
  PROVE  OneAtATime' /\ \A d \in Clients : InOrder(d)'
  <1>1. /\ c \in targets /\ posting = {} /\ overflowing = {} /\ targets' = targets \ {c}
        /\ UNCHANGED <<log, active, inflight, queue, phase, item, base, sent>>
    BY DEF Schedule, handler
  <1>2. /\ posting' \cup overflowing' \subseteq {c}
        /\ active[c] => posting' \cup overflowing' = {c}
        /\ posting' \cap overflowing' = {}
    BY <1>1 DEF Schedule
  <1>3. OneAtATime'
    BY <1>1, <1>2 DEF OneAtATime
  <1>4. ASSUME NEW d \in Clients PROVE InOrder(d)'
    <2>1. InOrder(d)
      BY DEF StreamInv
    <2>2. active[d] => Pending(d)' = Pending(d)
      BY <1>1, <1>2 DEF Pending
    <2>3. Published' = Published
      BY <1>1 DEF Published
    <2> QED BY <1>1, <2>1, <2>2, <2>3, Steady
  <1>5. QED
    BY <1>3, <1>4

\* The callback goes behind those already posted for the client.
LEMMA StreamPost ==
  ASSUME StreamInv, NEW c \in Clients, Post(c)
  PROVE  OneAtATime' /\ \A d \in Clients : InOrder(d)'
  <1>1. /\ TypeOK /\ c \in posting /\ posting' = {} /\ Published' = Published
        /\ UNCHANGED <<log, targets, overflowing, queue, phase, item, base, sent>>
    BY DEF StreamInv, AccountingInv, Post, handler, Published
  <1>2. posting = {c} /\ overflowing = {} /\ c \notin targets
    BY <1>1 DEF StreamInv, OneAtATime
  <1>3. OneAtATime'
    BY <1>1, <1>2 DEF StreamInv, OneAtATime
  <1>4. Pending(c) = 1 /\ Pending(c)' = 0
    BY <1>1, <1>2 DEF Pending
  <1>5. ASSUME NEW d \in Clients, d # c PROVE InOrder(d) /\ Pending(d)' = Pending(d)
    BY <1>1, <1>2, <1>5 DEF StreamInv, Pending
  <1>6. CASE loopOpen
    <2>1. /\ UNCHANGED active
          /\ inflight' = [inflight EXCEPT ![c] = Append(inflight[c], Published)]
      BY <1>6 DEF Post
    <2>2. /\ inflight'[c] = Append(inflight[c], Published)
          /\ \A d \in Clients : d # c => inflight'[d] = inflight[d]
      BY <1>1, <2>1 DEF TypeOK
    <2>3. InOrder(c) /\ LastQueued(c)' = LastQueued(c)
      BY <1>1 DEF StreamInv, LastQueued
    <2>4. active[c] => Connected(LastQueued(c), phase[c], item[c], inflight'[c], 0, Published)
      BY <1>1, <1>4, <2>2, <2>3, ClientTypes, ConnectedPost DEF InOrder
    <2>5. InOrder(c)'
      BY <1>1, <1>4, <2>1, <2>3, <2>4 DEF InOrder
    <2>6. ASSUME NEW d \in Clients, d # c PROVE InOrder(d)'
      BY <1>1, <1>5, <2>1, <2>2, <2>6, Steady
    <2> QED BY <1>3, <2>5, <2>6
  <1>7. CASE ~loopOpen
    <2>1. Deactivate(c, FALSE)
      BY <1>7 DEF Post
    <2>2. /\ ~active'[c]
          /\ \A d \in Clients \ {c} : active'[d] = active[d] /\ inflight'[d] = inflight[d]
      BY <1>1, <2>1, Deactivated
    <2>3. InOrder(c)
      BY DEF StreamInv
    <2>4. InOrder(c)'
      BY <1>1, <2>2, <2>3, Steady
    <2>5. ASSUME NEW d \in Clients, d # c PROVE InOrder(d)'
      BY <1>1, <1>5, <2>2, <2>5, Steady
    <2> QED BY <1>3, <2>4, <2>5
  <1>8. QED
    BY <1>6, <1>7

\* A slow client is disconnected: only a closure follows in its pipeline.
LEMMA StreamDisconnectSlow ==
  ASSUME StreamInv, NEW c \in Clients, DisconnectSlow(c)
  PROVE  OneAtATime' /\ \A d \in Clients : InOrder(d)'
  <1>1. /\ TypeOK /\ Accounted(c) /\ InOrder(c) /\ c \in overflowing /\ overflowing' = {}
        /\ Published' = Published
        /\ UNCHANGED <<log, targets, posting, queue, phase, item, base, sent>>
    BY DEF StreamInv, AccountingInv, DisconnectSlow, handler, Published
  <1>2. overflowing = {c} /\ posting = {} /\ c \notin targets
    BY <1>1 DEF StreamInv, OneAtATime
  <1>3. OneAtATime'
    BY <1>1, <1>2 DEF StreamInv, OneAtATime
  <1>4. /\ ~active'[c]
        /\ \A d \in Clients \ {c} : active'[d] = active[d] /\ inflight'[d] = inflight[d]
    <2>1. CASE c \in subscriptions
      <3>1. Deactivate(c, TRUE)
        BY <2>1 DEF DisconnectSlow
      <3> QED BY <1>1, <3>1, Deactivated
    <2>2. CASE c \notin subscriptions
      BY <1>1, <2>2 DEF DisconnectSlow, Accounted
    <2> QED BY <2>1, <2>2
  <1>5. InOrder(c)'
    BY <1>1, <1>4, Steady
  <1>6. ASSUME NEW d \in Clients, d # c PROVE InOrder(d)'
    <2>1. InOrder(d) /\ Pending(d)' = Pending(d)
      BY <1>1, <1>2, <1>6 DEF StreamInv, Pending
    <2> QED BY <1>1, <1>4, <1>6, <2>1, Steady
  <1>7. QED
    BY <1>3, <1>5, <1>6

\* The loop runs callbacks in the order they were posted.
LEMMA StreamRunCallback ==
  ASSUME StreamInv, NEW c \in Clients, RunCallback(c)
  PROVE  OneAtATime' /\ \A d \in Clients : InOrder(d)'
  <1>1. /\ TypeOK /\ Accounted(c) /\ InOrder(c) /\ inflight[c] # <<>>
        /\ Published' = Published
        /\ UNCHANGED <<log, targets, posting, overflowing, active, phase, item, base, sent>>
    BY DEF StreamInv, AccountingInv, RunCallback, handler, publisher, Published
  <1>2. OneAtATime' /\ \A d \in Clients : Pending(d)' = Pending(d)
    BY <1>1 DEF StreamInv, OneAtATime, Pending
  <1>3. /\ inflight[c] \in Seq(Nat) /\ queue[c] \in Seq(Nat)
        /\ Head(inflight[c]) \in Nat
    BY <1>1, ClientTypes, TailFacts
  <1>4. active[c] => Head(inflight[c]) # Closed /\ Len(queue[c]) < Capacity
    <2>1. active[c] => Head(inflight[c]) # Closed
      BY <1>1, <1>3, NoClosureFacts DEF Accounted
    <2>2. active[c] => Len(queue[c]) < Capacity
      BY <1>1, CountersType, CapacityAssumption
      DEF Accounted, Counters, Exact, Posting, Accounting
    <2> QED BY <2>1, <2>2
  <1>5. /\ inflight'[c] = Tail(inflight[c])
        /\ \A d \in Clients : d # c => inflight'[d] = inflight[d] /\ queue'[d] = queue[d]
        /\ active[c] => queue'[c] = Append(queue[c], Head(inflight[c]))
        /\ ~active[c] => queue'[c] \in {queue[c], <<Closed>>}
    BY <1>1, <1>4 DEF RunCallback, TypeOK
  <1>6. ASSUME active[c] PROVE InOrder(c)'
    <2>1. /\ Connected(LastQueued(c) + 1, phase[c], item[c], inflight'[c], Pending(c), Published)
          /\ phase[c] \in Listening => Head(inflight[c]) = LastQueued(c) + 1
          /\ LastQueued(c) + 1 <= Published
      <3>1. Connected(LastQueued(c), phase[c], item[c], inflight[c], Pending(c), Published)
        BY <1>1, <1>6 DEF InOrder
      <3>2. /\ phase[c] \in Phases /\ item[c] \in Items /\ inflight[c] \in Seq(Nat)
            /\ Published \in Nat /\ LastQueued(c) \in Nat /\ Pending(c) \in 0..1
        BY <1>1, ClientTypes
      <3>3. inflight[c] # <<>>
        BY <1>1
      <3> QED BY <1>5, <3>1, <3>2, <3>3, ConnectedDeliver
    <2>2. NoClosure(queue[c])
      BY <1>1, <1>6 DEF Accounted
    <2>3. Ordered(base[c], sent[c], phase[c], item[c], Append(queue[c], Head(inflight[c])),
                  Published)
      BY <1>1, <1>3, <2>1, <2>2, ClientTypes, OrderedDeliver DEF InOrder, LastQueued
    <2>4. LastQueued(c)' = LastQueued(c) + 1
      <3>1. ASSUME NEW b \in Nat, NEW s \in Seq(Nat), NEW h, NEW q \in Seq(Nat), NEW e \in Nat
            PROVE  Queued(b, s, h, Append(q, e)) = Queued(b, s, h, q) + 1
        BY AppendFacts DEF Queued, Taken
      <3>2. base[c] \in Nat /\ sent[c] \in Seq(Nat)
        BY <1>1, ClientTypes
      <3>3. LastQueued(c)' = Queued(base[c], sent[c], phase[c],
                                    Append(queue[c], Head(inflight[c])))
        BY <1>1, <1>5, <1>6 DEF LastQueued
      <3> QED BY <1>3, <3>1, <3>2, <3>3 DEF LastQueued
    <2> QED BY <1>1, <1>2, <1>5, <1>6, <2>1, <2>3, <2>4 DEF InOrder
  <1>7. ASSUME ~active[c] PROVE InOrder(c)'
    <2>1. Ordered(base[c], sent[c], phase[c], item[c], queue'[c], Published)
      BY <1>1, <1>5, <1>7, ClientTypes, OrderedDeliverClosed DEF InOrder
    <2> QED BY <1>1, <1>7, <2>1 DEF InOrder
  <1>8. ASSUME NEW d \in Clients, d # c PROVE InOrder(d)'
    <2>1. InOrder(d)
      BY DEF StreamInv
    <2> QED BY <1>1, <1>2, <1>5, <1>8, <2>1, Steady
  <1>9. QED
    BY <1>2, <1>6, <1>7, <1>8

\* Closing the event loop moves no item.
LEMMA StreamCloseLoop ==
  ASSUME StreamInv, CloseLoop
  PROVE  OneAtATime' /\ \A d \in Clients : InOrder(d)'
  <1>1. /\ Published' = Published
        /\ UNCHANGED <<targets, posting, overflowing, active, inflight, queue, phase, item,
                       base, sent>>
    BY DEF CloseLoop, publisher, handler, Published
  <1>2. ASSUME NEW d \in Clients PROVE InOrder(d)'
    <2>1. InOrder(d) /\ Pending(d)' = Pending(d)
      BY <1>1 DEF StreamInv, Pending
    <2> QED BY <1>1, <2>1, Steady
  <1>3. QED
    BY <1>1, <1>2 DEF StreamInv, OneAtATime

\* subscribe takes the snapshot between two publications.
LEMMA StreamSubscribe ==
  ASSUME StreamInv, NEW c \in Clients, Subscribe(c)
  PROVE  OneAtATime' /\ \A d \in Clients : InOrder(d)'
  <1>1. /\ TypeOK /\ Accounted(c) /\ InOrder(c) /\ phase[c] = "absent"
        /\ targets = {} /\ posting = {} /\ overflowing = {}
        /\ Published' = Published
        /\ UNCHANGED <<targets, posting, overflowing, inflight, queue, item, sent>>
    BY DEF StreamInv, AccountingInv, Subscribe, PublisherIdle, publisher, Published
  <1>2. /\ inflight[c] = <<>> /\ queue[c] = <<>> /\ sent[c] = <<>>
    BY <1>1 DEF Accounted, Untouched, InOrder
  <1>3. /\ phase'[c] = "opening" /\ base'[c] = Published /\ active'[c]
        /\ \A d \in Clients : d # c => /\ phase'[d] = phase[d] /\ base'[d] = base[d]
                                       /\ active'[d] = active[d]
    BY <1>1 DEF Subscribe, TypeOK
  <1>4. OneAtATime' /\ \A d \in Clients : Pending(d)' = Pending(d) /\ Pending(d) = 0
    BY <1>1 DEF StreamInv, OneAtATime, Pending
  <1>5. InOrder(c)'
    <2>1. Published \in Nat
      BY <1>1, ClientTypes
    <2>2. /\ Ordered(Published, <<>>, "opening", item[c], <<>>, Published)
          /\ Connected(Published, "opening", item[c], <<>>, 0, Published)
          /\ Queued(Published, <<>>, "opening", <<>>) = Published
      BY <2>1, OrderedSubscribe
    <2>3. LastQueued(c)' = Published
      BY <1>1, <1>2, <1>3, <2>2 DEF LastQueued
    <2> QED BY <1>1, <1>2, <1>3, <1>4, <2>2, <2>3 DEF InOrder
  <1>6. ASSUME NEW d \in Clients, d # c PROVE InOrder(d)'
    <2>1. InOrder(d)
      BY DEF StreamInv
    <2> QED BY <1>1, <1>3, <1>4, <1>6, <2>1, Steady
  <1>7. QED
    BY <1>4, <1>5, <1>6

\* The snapshot precedes every item.
LEMMA StreamSendSnapshot ==
  ASSUME StreamInv, NEW c \in Clients, SendSnapshot(c)
  PROVE  OneAtATime' /\ \A d \in Clients : InOrder(d)'
  <1>1. /\ TypeOK /\ InOrder(c) /\ phase[c] = "opening" /\ Published' = Published
        /\ UNCHANGED <<targets, posting, overflowing, active, inflight, queue, item, base, sent>>
    BY DEF StreamInv, AccountingInv, SendSnapshot, publisher, Published
  <1>2. /\ phase'[c] \in {"waiting", "closing"}
        /\ \A d \in Clients : d # c => phase'[d] = phase[d]
    BY <1>1 DEF SendSnapshot, TypeOK
  <1>3. OneAtATime' /\ \A d \in Clients : Pending(d)' = Pending(d)
    BY <1>1 DEF StreamInv, OneAtATime, Pending
  <1>4. InOrder(c)'
    <2>1. Taken(phase'[c]) = Taken(phase[c]) /\ LastQueued(c)' = LastQueued(c)
      BY <1>1, <1>2 DEF Taken, Holding, LastQueued, Queued
    <2>2. Ordered(base[c], sent[c], phase'[c], item[c], queue[c], Published)
      BY <1>1, <1>2, <2>1 DEF InOrder, Ordered, SentInOrder, Listening, Holding
    <2>3. active[c] => Connected(LastQueued(c), phase'[c], item[c], inflight[c], Pending(c),
                                 Published)
      BY <1>1, <1>2 DEF InOrder, Connected, Listening, Holding
    <2> QED BY <1>1, <1>2, <1>3, <2>1, <2>2, <2>3 DEF InOrder
  <1>5. ASSUME NEW d \in Clients, d # c PROVE InOrder(d)'
    <2>1. InOrder(d)
      BY DEF StreamInv
    <2> QED BY <1>1, <1>2, <1>3, <1>5, <2>1, Steady
  <1>6. QED
    BY <1>3, <1>4, <1>5

\* receive takes items in queue order.
LEMMA StreamTake ==
  ASSUME StreamInv, NEW c \in Clients, Take(c)
  PROVE  OneAtATime' /\ \A d \in Clients : InOrder(d)'
  <1>1. /\ TypeOK /\ Accounted(c) /\ InOrder(c) /\ phase[c] = "waiting" /\ queue[c] # <<>>
        /\ Published' = Published
        /\ UNCHANGED <<targets, posting, overflowing, active, inflight, base, sent>>
    BY DEF StreamInv, AccountingInv, Take, publisher, Published
  <1>2. /\ queue'[c] = Tail(queue[c]) /\ item'[c] = Head(queue[c])
        /\ phase'[c] = IF Head(queue[c]) = Closed THEN "sending" ELSE "accounting"
        /\ \A d \in Clients : d # c => /\ queue'[d] = queue[d] /\ item'[d] = item[d]
                                       /\ phase'[d] = phase[d]
    BY <1>1 DEF Take, TypeOK
  <1>3. OneAtATime' /\ \A d \in Clients : Pending(d)' = Pending(d)
    BY <1>1 DEF StreamInv, OneAtATime, Pending
  <1>4. /\ base[c] \in Nat /\ sent[c] \in Seq(Nat) /\ item[c] \in Items
        /\ queue[c] \in Seq(Nat) /\ Published \in Nat
    BY <1>1, ClientTypes
  <1>5. InOrder(c)'
    <2>1. Ordered(base[c], sent[c], "waiting", item[c], queue[c], Published)
      BY <1>1 DEF InOrder
    <2>2. /\ Ordered(base[c], sent[c], phase'[c], item'[c], queue'[c], Published)
          /\ Queued(base[c], sent[c], phase'[c], queue'[c])
               = Queued(base[c], sent[c], "waiting", queue[c])
      BY <1>1, <1>2, <1>4, <2>1, OrderedTake
    <2>3. LastQueued(c)' = LastQueued(c)
      BY <1>1, <2>2 DEF LastQueued
    <2>4. active[c] => item'[c] # Closed
      BY <1>1, <1>2, <1>4, NoClosureFacts DEF Accounted
    <2>5. active[c] => Connected(LastQueued(c), phase'[c], item'[c], inflight[c], Pending(c),
                                 Published)
      BY <1>1, <2>4 DEF InOrder, Connected, Listening, Holding
    <2>6. phase'[c] # "absent"
      BY <1>2
    <2> QED BY <1>1, <1>3, <2>2, <2>3, <2>5, <2>6 DEF InOrder
  <1>6. ASSUME NEW d \in Clients, d # c PROVE InOrder(d)'
    <2>1. InOrder(d)
      BY DEF StreamInv
    <2> QED BY <1>1, <1>2, <1>3, <1>6, <2>1, Steady
  <1>7. QED
    BY <1>3, <1>5, <1>6

\* Giving a delivery back moves no item.
LEMMA StreamAccount ==
  ASSUME StreamInv, NEW c \in Clients, Account(c)
  PROVE  OneAtATime' /\ \A d \in Clients : InOrder(d)'
  <1>1. /\ TypeOK /\ InOrder(c) /\ phase[c] = "accounting" /\ Published' = Published
        /\ UNCHANGED <<targets, posting, overflowing, active, inflight, queue, item, base, sent>>
    BY DEF StreamInv, AccountingInv, Account, publisher, Published
  <1>2. /\ phase'[c] = "sending"
        /\ \A d \in Clients : d # c => phase'[d] = phase[d]
    BY <1>1 DEF Account, TypeOK
  <1>3. OneAtATime' /\ \A d \in Clients : Pending(d)' = Pending(d)
    BY <1>1 DEF StreamInv, OneAtATime, Pending
  <1>4. InOrder(c)'
    <2>1. Taken(phase'[c]) = Taken(phase[c]) /\ LastQueued(c)' = LastQueued(c)
      BY <1>1, <1>2 DEF Taken, Holding, LastQueued, Queued
    <2>2. Ordered(base[c], sent[c], phase'[c], item[c], queue[c], Published)
      BY <1>1, <1>2, <2>1 DEF InOrder, Ordered, SentInOrder, Listening, Holding
    <2>3. active[c] => Connected(LastQueued(c), phase'[c], item[c], inflight[c], Pending(c),
                                 Published)
      BY <1>1, <1>2 DEF InOrder, Connected, Listening, Holding
    <2> QED BY <1>1, <1>2, <1>3, <2>1, <2>2, <2>3 DEF InOrder
  <1>5. ASSUME NEW d \in Clients, d # c PROVE InOrder(d)'
    <2>1. InOrder(d)
      BY DEF StreamInv
    <2> QED BY <1>1, <1>2, <1>3, <1>5, <2>1, Steady
  <1>6. QED
    BY <1>3, <1>4, <1>5

\* The item sent is the next one of the stream, or the closure.
LEMMA StreamSend ==
  ASSUME StreamInv, NEW c \in Clients, Send(c)
  PROVE  OneAtATime' /\ \A d \in Clients : InOrder(d)'
  <1>1. /\ TypeOK /\ Accounted(c) /\ InOrder(c) /\ phase[c] = "sending"
        /\ Published' = Published
        /\ UNCHANGED <<targets, posting, overflowing, active, inflight, queue, base>>
    BY DEF StreamInv, AccountingInv, Send, publisher, Published
  <1>2. /\ sent'[c] = Append(sent[c], item[c])
        /\ phase'[c] = "closing" \/ (phase'[c] = "waiting" /\ item[c] # Closed)
        /\ \A d \in Clients : d # c => /\ sent'[d] = sent[d] /\ item'[d] = item[d]
                                       /\ phase'[d] = phase[d]
    BY <1>1 DEF Send, TypeOK, Terminal
  <1>3. OneAtATime' /\ \A d \in Clients : Pending(d)' = Pending(d)
    BY <1>1 DEF StreamInv, OneAtATime, Pending
  <1>4. /\ base[c] \in Nat /\ sent[c] \in Seq(Nat) /\ item[c] \in Nat
        /\ queue[c] \in Seq(Nat) /\ Published \in Nat
    BY <1>1, ClientTypes DEF Accounted
  <1>5. InOrder(c)'
    <2>1. Ordered(base[c], sent[c], "sending", item[c], queue[c], Published)
      BY <1>1 DEF InOrder
    <2>2. /\ Ordered(base[c], sent'[c], phase'[c], item'[c], queue[c], Published)
          /\ Queued(base[c], sent'[c], phase'[c], queue[c])
               = Queued(base[c], sent[c], "sending", queue[c])
      <3>1. phase'[c] = "closing" \/ (phase'[c] = "waiting" /\ item[c] # Closed)
        BY <1>2
      <3>2. Ordered(base[c], Append(sent[c], item[c]), phase'[c], item'[c], queue[c], Published)
        BY <1>4, <2>1, <3>1, OrderedSend, Zenon
      <3>3. Queued(base[c], Append(sent[c], item[c]), phase'[c], queue[c])
              = Queued(base[c], sent[c], "sending", queue[c])
        BY <1>4, <3>1, QueuedSend
      <3> QED BY <1>2, <3>2, <3>3
    <2>3. LastQueued(c)' = LastQueued(c)
      BY <1>1, <2>2 DEF LastQueued
    <2>4. active[c] => Connected(LastQueued(c), phase'[c], item'[c], inflight[c], Pending(c),
                                 Published)
      BY <1>1, <1>2 DEF InOrder, Connected, Listening, Holding
    <2>5. phase'[c] # "absent"
      BY <1>2
    <2> QED BY <1>1, <1>3, <2>2, <2>3, <2>4, <2>5 DEF InOrder
  <1>6. ASSUME NEW d \in Clients, d # c PROVE InOrder(d)'
    <2>1. InOrder(d)
      BY DEF StreamInv
    <2> QED BY <1>1, <1>2, <1>3, <1>6, <2>1, Steady
  <1>7. QED
    BY <1>3, <1>5, <1>6

\* A lost connection loses the item in hand and sends nothing more.
LEMMA StreamDisconnect ==
  ASSUME StreamInv, NEW c \in Clients, Disconnect(c)
  PROVE  OneAtATime' /\ \A d \in Clients : InOrder(d)'
  <1>1. /\ TypeOK /\ InOrder(c) /\ Published' = Published
        /\ UNCHANGED <<targets, posting, overflowing, active, inflight, queue, base, sent>>
    BY DEF StreamInv, AccountingInv, Disconnect, publisher, Published
  <1>2. /\ phase'[c] = "closing"
        /\ \A d \in Clients : d # c => item'[d] = item[d] /\ phase'[d] = phase[d]
    BY <1>1 DEF Disconnect, TypeOK
  <1>3. OneAtATime' /\ \A d \in Clients : Pending(d)' = Pending(d)
    BY <1>1 DEF StreamInv, OneAtATime, Pending
  <1>4. /\ base[c] \in Nat /\ sent[c] \in Seq(Nat) /\ phase[c] \in Phases
        /\ queue[c] \in Seq(Nat) /\ inflight[c] \in Seq(Nat) /\ Published \in Nat
        /\ LastQueued(c) \in Nat /\ Pending(c) \in 0..1
    BY <1>1, ClientTypes
  <1>5. InOrder(c)'
    <2>1. Ordered(base[c], sent[c], "closing", item'[c], queue[c], Published)
      BY <1>1, <1>4, OrderedEnd DEF InOrder
    <2>2. LastQueued(c)' \in Nat /\ LastQueued(c)' <= LastQueued(c)
      <3>1. ASSUME NEW b \in Nat, NEW s \in Seq(Nat), NEW q \in Seq(Nat), NEW h
            PROVE  Queued(b, s, "closing", q) \in Nat /\ Queued(b, s, "closing", q) <= Queued(b, s, h, q)
        BY DEF Queued, Taken, Holding
      <3> QED BY <1>1, <1>2, <1>4, <3>1 DEF LastQueued
    <2>3. active[c] => Connected(LastQueued(c)', "closing", item'[c], inflight[c], Pending(c),
                                 Published)
      <3>1. ASSUME NEW k \in Nat, NEW l \in Nat, l <= k, NEW f \in Seq(Nat), NEW h, NEW x, NEW y,
                   NEW p \in 0..1, NEW n \in Nat, Connected(k, h, x, f, p, n)
            PROVE  Connected(l, "closing", y, f, p, n)
        BY <3>1 DEF Connected, Listening, Holding
      <3> QED BY <1>1, <1>4, <2>2, <3>1 DEF InOrder
    <2> QED BY <1>1, <1>2, <1>3, <2>1, <2>3 DEF InOrder
  <1>6. ASSUME NEW d \in Clients, d # c PROVE InOrder(d)'
    <2>1. InOrder(d)
      BY DEF StreamInv
    <2> QED BY <1>1, <1>2, <1>3, <1>6, <2>1, Steady
  <1>7. QED
    BY <1>3, <1>5, <1>6

\* unsubscribe cuts the pipeline of a handler that has ended.
LEMMA StreamClose ==
  ASSUME StreamInv, NEW c \in Clients, Close(c)
  PROVE  OneAtATime' /\ \A d \in Clients : InOrder(d)'
  <1>1. /\ TypeOK /\ InOrder(c) /\ Published' = Published /\ Deactivate(c, FALSE)
        /\ UNCHANGED <<targets, posting, overflowing, queue, item, base, sent>>
    BY DEF StreamInv, AccountingInv, Close, publisher, Published
  <1>2. /\ phase'[c] = "done" /\ ~active'[c]
        /\ \A d \in Clients \ {c} : /\ phase'[d] = phase[d] /\ active'[d] = active[d]
                                    /\ inflight'[d] = inflight[d]
    <2>1. /\ ~active'[c]
          /\ \A d \in Clients \ {c} : active'[d] = active[d] /\ inflight'[d] = inflight[d]
      BY <1>1, Deactivated
    <2>2. phase'[c] = "done" /\ \A d \in Clients \ {c} : phase'[d] = phase[d]
      BY <1>1 DEF Close, TypeOK
    <2> QED BY <2>1, <2>2
  <1>3. OneAtATime' /\ \A d \in Clients : Pending(d)' = Pending(d)
    BY <1>1 DEF StreamInv, OneAtATime, Pending
  <1>4. InOrder(c)'
    <2>1. Ordered(base[c], sent[c], "done", item[c], queue[c], Published)
      BY <1>1, ClientTypes, OrderedEnd DEF InOrder
    <2> QED BY <1>1, <1>2, <2>1 DEF InOrder
  <1>5. ASSUME NEW d \in Clients, d # c PROVE InOrder(d)'
    <2>1. InOrder(d)
      BY DEF StreamInv
    <2> QED BY <1>1, <1>2, <1>3, <1>5, <2>1, Steady
  <1>6. QED
    BY <1>3, <1>4, <1>5

\* Every step of every actor preserves the stream invariant.
LEMMA StreamStep == StreamInv /\ [Next]_vars => StreamInv'
  <1> SUFFICES ASSUME StreamInv, [Next]_vars PROVE StreamInv'
    OBVIOUS
  <1>1. AccountingInv'
    BY AccountingStep DEF StreamInv
  <1>2. OneAtATime' /\ \A d \in Clients : InOrder(d)'
    <2>1. CASE UNCHANGED vars
      <3>1. /\ Published' = Published
            /\ UNCHANGED <<targets, posting, overflowing, active, inflight, queue, phase,
                           item, base, sent>>
        BY <2>1 DEF vars, publisher, handler, Published
      <3>2. ASSUME NEW d \in Clients PROVE InOrder(d)'
        <4>1. InOrder(d) /\ Pending(d)' = Pending(d)
          BY <3>1 DEF StreamInv, Pending
        <4> QED BY <3>1, <4>1, Steady
      <3> QED BY <3>1, <3>2 DEF StreamInv, OneAtATime
    <2>2. ASSUME NEW kind \in Kinds, Publish(kind)
          PROVE  OneAtATime' /\ \A d \in Clients : InOrder(d)'
      BY <2>2, StreamPublish
    <2>3. CASE CloseLoop
      BY <2>3, StreamCloseLoop
    <2>4. ASSUME NEW c \in Clients, Schedule(c) \/ Post(c) \/ DisconnectSlow(c)
          PROVE  OneAtATime' /\ \A d \in Clients : InOrder(d)'
      BY <2>4, StreamSchedule, StreamPost, StreamDisconnectSlow
    <2>5. ASSUME NEW c \in Clients, Subscribe(c) \/ Local(c) \/ Peer(c) \/ Disconnect(c)
          PROVE  OneAtATime' /\ \A d \in Clients : InOrder(d)'
      BY <2>5, StreamSubscribe, StreamRunCallback, StreamTake, StreamAccount, StreamClose,
         StreamSendSnapshot, StreamSend, StreamDisconnect
      DEF Local, Peer
    <2>6. QED
      BY <2>1, <2>2, <2>3, <2>4, <2>5 DEF Next, Publisher
  <1>3. QED
    BY <1>1, <1>2 DEF StreamInv

\* Whatever the interleaving, a client is sent the events that follow its
\* snapshot without a gap, a repetition or a reordering, and at most one
\* closure, last.
THEOREM StreamContiguous == Spec => []ContiguousStream
  <1>1. StreamInv => ContiguousStream
    <2> SUFFICES ASSUME StreamInv, NEW c \in Clients
                 PROVE  /\ \A i \in DOMAIN sent[c] :
                             \/ sent[c][i] = base[c] + i
                             \/ sent[c][i] = Closed /\ i = Len(sent[c])
                        /\ Len(sent[c]) <= Published - base[c] + 1
      BY DEF ContiguousStream
    <2>1. TypeOK /\ Ordered(base[c], sent[c], phase[c], item[c], queue[c], Published)
      BY DEF StreamInv, AccountingInv, InOrder
    <2>2. base[c] \in Nat /\ sent[c] \in Seq(Nat) /\ Published \in Nat
      BY <2>1, ClientTypes
    <2>3. ASSUME NEW b \in Nat, NEW s \in Seq(Nat), NEW n \in Nat, b + Len(s) <= n + 1
          PROVE  Len(s) <= n - b + 1 /\ DOMAIN s = 1..Len(s)
      BY <2>3
    <2> QED BY <2>1, <2>2, <2>3 DEF Ordered, SentInOrder
  <1>2. QED
    BY <1>1, StreamInit, StreamStep, PTL DEF Spec

\* _schedule finds a subscription full only when its client has been sent more
\* than the capacity fewer events than were published since its snapshot.
THEOREM SlowMeansBehind == Spec => FoundSlowOnlyBehind
  <1> DEFINE Behind == \A c \in overflowing' \ overflowing :
                         Published - base[c] - Len(sent[c]) > Capacity
  <1>1. ASSUME StreamInv, Next PROVE Behind
    <2> SUFFICES ASSUME NEW c \in overflowing', c \notin overflowing
                 PROVE  Published - base[c] - Len(sent[c]) > Capacity
      OBVIOUS
    <2>1. c \in Clients /\ Schedule(c) /\ overflowing' # overflowing
      <3>1. overflowing' # overflowing
        OBVIOUS
      <3>2. PICK d \in Clients : Schedule(d) \/ DisconnectSlow(d)
        BY <1>1, <3>1 DEF Next, Publisher, Local, Peer, Publish, Post, CloseLoop, Subscribe,
           RunCallback, Take, Account, Close, SendSnapshot, Send, Disconnect, publisher
      <3>3. Schedule(d) /\ overflowing' = {d}
        BY <3>1, <3>2 DEF Schedule, DisconnectSlow
      <3> QED BY <3>1, <3>3
    <2>2. active[c] /\ outstanding[c] >= Capacity /\ c \in targets /\ posting = {}
      BY <2>1 DEF Schedule
    <2>3. TypeOK /\ Exact(c)
      BY <1>1, <2>1, <2>2 DEF StreamInv, AccountingInv, Accounted
    <2>4. Len(inflight[c]) + Len(queue[c]) + Accounting(c) >= Capacity
      BY <2>1, <2>2, <2>3, CountersType, CapacityAssumption
      DEF Exact, Counters, Posting, Accounting
    <2>5. LastQueued(c) + Len(inflight[c]) + 1 <= Published
      <3>1. Pending(c) = 1 /\ InOrder(c)
        BY <1>1, <2>1, <2>2 DEF StreamInv, Pending
      <3> QED BY <2>2, <3>1 DEF InOrder, Connected
    <2>6. /\ base[c] \in Nat /\ sent[c] \in Seq(Nat) /\ queue[c] \in Seq(Nat)
          /\ inflight[c] \in Seq(Nat) /\ Published \in Nat
      BY <2>1, <2>3, ClientTypes
    <2>7. ASSUME NEW b \in Nat, NEW s \in Seq(Nat), NEW q \in Seq(Nat), NEW f \in Seq(Nat),
                 NEW n \in Nat, NEW h, NEW a, a = IF h = "accounting" THEN 1 ELSE 0,
                 Len(f) + Len(q) + a >= Capacity, Queued(b, s, h, q) + Len(f) + 1 <= n
          PROVE  n - b - Len(s) > Capacity
      BY <2>7, CapacityAssumption DEF Queued, Taken, Holding
    <2> QED BY <2>4, <2>5, <2>6, <2>7 DEF LastQueued, Accounting
  <1>2. StreamInv /\ [Next]_vars => [Behind]_vars
    BY <1>1
  <1>3. QED
    BY <1>2, StreamInit, StreamStep, PTL DEF Spec, FoundSlowOnlyBehind
=============================================================================
