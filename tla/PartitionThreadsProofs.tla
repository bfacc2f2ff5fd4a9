----------------------- MODULE PartitionThreadsProofs -----------------------
(***************************************************************************)
(* Proofs about PartitionThreads for every set of partitions, every set of *)
(* well-formed partitioned functions and every mailbox capacity.           *)
(***************************************************************************)
EXTENDS PartitionThreads, TLAPS, WellFoundedInduction

(* The inductive invariant: a thread's position stays within its list, the *)
(* channels hold what the positions say, and the executed instructions are *)
(* those behind the threads.                                               *)
PositionsOK ==
  /\ pc \in [Partitions -> Nat \ {0}]
  /\ \A p \in Partitions : pc[p] <= Len(code.list[p]) + 1

ExecutedSoFar ==
  executed = {EntryAt(code, x).n :
                x \in {y \in Places(code) : IsExec(EntryAt(code, y)) /\ Passed(y)}}

IInv ==
  /\ WellFormed(code)
  /\ PositionsOK
  /\ tokens \in [Channels(code) -> Nat]
  /\ TokenBalance
  /\ ExecutedSoFar

(* The places of a list of a thread, and what stands there. *)
LEMMA PlaceFacts ==
  ASSUME NEW c, WellFormed(c)
  PROVE  /\ \A x \in Places(c) : /\ x = <<x[1], x[2]>>
                                 /\ x[1] \in Partitions
                                 /\ x[2] \in 1..Len(c.list[x[1]])
                                 /\ EntryAt(c, x) \in Entry
         /\ \A p \in Partitions : /\ Len(c.list[p]) \in Nat
                                  /\ DOMAIN c.list[p] = 1..Len(c.list[p])
         /\ \A p \in Partitions : \A k \in 1..Len(c.list[p]) :
              <<p, k>> \in Places(c)
<1>1. c.list \in [Partitions -> Seq(Entry)]
  BY DEF WellFormed
<1>2. \A p \in Partitions : /\ Len(c.list[p]) \in Nat
                            /\ DOMAIN c.list[p] = 1..Len(c.list[p])
                            /\ \A k \in 1..Len(c.list[p]) : c.list[p][k] \in Entry
  BY <1>1
<1>3. \A x \in Places(c) : \E p \in Partitions : x \in {p} \X (1..Len(c.list[p]))
  BY <1>2 DEF Places
<1>4. \A x \in Places(c) : /\ x = <<x[1], x[2]>>
                           /\ x[1] \in Partitions
                           /\ x[2] \in 1..Len(c.list[x[1]])
  BY <1>3
<1>5. \A x \in Places(c) : EntryAt(c, x) \in Entry
  BY <1>2, <1>4 DEF EntryAt
<1>6. \A p \in Partitions : \A k \in 1..Len(c.list[p]) : <<p, k>> \in Places(c)
  BY <1>2 DEF Places
<1> QED
  BY <1>2, <1>4, <1>5, <1>6

(* Every entry is of exactly one kind, and only calls use a channel. *)
LEMMA EntryKinds ==
  ASSUME NEW e \in Entry
  PROVE  /\ IsExec(e) \/ IsSend(e) \/ IsReceive(e)
         /\ ~ (IsExec(e) /\ IsSend(e))
         /\ ~ (IsExec(e) /\ IsReceive(e))
         /\ ~ (IsSend(e) /\ IsReceive(e))
  BY DEF Entry, IsExec, IsSend, IsReceive

(* The channel of every call of a well-formed function has a token count. *)
LEMMA ChannelOfCall ==
  ASSUME NEW c, NEW x \in Places(c), ~ IsExec(EntryAt(c, x))
  PROVE  Channel(EntryAt(c, x)) \in Channels(c)
  BY DEF Channels

(* A step of thread p passes exactly the place it stands at. *)
LEMMA AdvancePasses ==
  ASSUME IInv, NEW p \in Partitions, Running(p), Advance(p), code' = code
  PROVE  /\ <<p, pc[p]>> \in Places(code)
         /\ EntryAt(code, <<p, pc[p]>>) = Current(p)
         /\ ~ Passed(<<p, pc[p]>>)
         /\ \A x \in Places(code) : Passed(x)' <=> (Passed(x) \/ x = <<p, pc[p]>>)
         /\ PositionsOK'
<1>1. WellFormed(code)
  BY DEF IInv
<1>2. pc[p] \in 1..Len(code.list[p])
  BY <1>1, PlaceFacts DEF Running
<1>3. <<p, pc[p]>> \in Places(code)
  BY <1>1, <1>2, PlaceFacts
<1>4. pc' = [pc EXCEPT ![p] = pc[p] + 1]
  BY DEF Advance
<1>5. PositionsOK'
  BY <1>1, <1>2, <1>4, PlaceFacts DEF IInv, PositionsOK
<1>6. ASSUME NEW x \in Places(code)
      PROVE  Passed(x)' <=> (Passed(x) \/ x = <<p, pc[p]>>)
  <2>1. x = <<x[1], x[2]>> /\ x[1] \in Partitions /\ x[2] \in Nat
    BY <1>1, PlaceFacts
  <2>2. pc[p] \in Nat /\ pc[x[1]] \in Nat
    BY <2>1 DEF IInv, PositionsOK
  <2>3. CASE x[1] = p
    <3>1. pc'[x[1]] = pc[p] + 1
      BY <1>4, <2>3 DEF IInv, PositionsOK
    <3>2. x = <<p, pc[p]>> <=> x[2] = pc[p]
      BY <2>1, <2>3
    <3> QED
      BY <2>1, <2>2, <2>3, <3>1, <3>2 DEF Passed
  <2>4. CASE x[1] # p
    <3>1. pc'[x[1]] = pc[x[1]]
      BY <1>4, <2>1, <2>4 DEF IInv, PositionsOK
    <3>2. x # <<p, pc[p]>>
      BY <2>1, <2>4
    <3> QED
      BY <3>1, <3>2 DEF Passed
  <2> QED
    BY <2>3, <2>4
<1>7. EntryAt(code, <<p, pc[p]>>) = Current(p)
  BY DEF EntryAt, Current
<1>8. ~ Passed(<<p, pc[p]>>)
  BY <1>2 DEF Passed
<1> QED
  BY <1>3, <1>5, <1>6, <1>7, <1>8

(* Facts about the channels of a well-formed function in IInv. *)
LEMMA TokensAtCalls ==
  ASSUME IInv, NEW x \in Places(code)
  PROVE  /\ IsSend(EntryAt(code, x)) =>
              \E r \in Places(code) :
                /\ IsReceive(EntryAt(code, r))
                /\ Channel(EntryAt(code, r)) = Channel(EntryAt(code, x))
         /\ IsReceive(EntryAt(code, x)) =>
              \E s \in Places(code) :
                /\ IsSend(EntryAt(code, s))
                /\ Channel(EntryAt(code, x)) = Channel(EntryAt(code, s))
                /\ EntryAt(code, s).v < EntryAt(code, x).v
         /\ ~ Passed(x) /\ IsSend(EntryAt(code, x)) =>
              tokens[Channel(EntryAt(code, x))] = 0
<1>1. WellFormed(code)
  BY DEF IInv
<1>2. Matched(code)
  BY <1>1 DEF WellFormed
<1>3. ASSUME ~ Passed(x), IsSend(EntryAt(code, x))
      PROVE  tokens[Channel(EntryAt(code, x))] = 0
  <2>1. PICK r \in Places(code) :
           /\ IsReceive(EntryAt(code, r))
           /\ Channel(EntryAt(code, r)) = Channel(EntryAt(code, x))
    BY <1>2, <1>3 DEF Matched
  <2> QED
    BY <1>3, <2>1 DEF IInv, TokenBalance
<1> QED
  BY <1>2, <1>3 DEF Matched

(* Executing an instruction touches no channel and no other instruction. *)
LEMMA ExecPreserves ==
  ASSUME IInv, NEW p \in Partitions, Exec(p)
  PROVE  IInv'
<1> DEFINE x0 == <<p, pc[p]>>
<1>1. Running(p) /\ IsExec(Current(p)) /\ Advance(p) /\ code' = code /\ tokens' = tokens
  BY DEF Exec, At, IsExec
<1>2. /\ x0 \in Places(code)
      /\ EntryAt(code, x0) = Current(p)
      /\ \A x \in Places(code) : Passed(x)' <=> (Passed(x) \/ x = x0)
      /\ PositionsOK'
  BY <1>1, AdvancePasses
<1>3. \A x \in Places(code) : EntryAt(code, x) \in Entry
  BY PlaceFacts DEF IInv
<1> HIDE DEF x0
<1>4. ~ IsSend(EntryAt(code, x0)) /\ ~ IsReceive(EntryAt(code, x0))
  BY <1>1, <1>2, <1>3, EntryKinds
<1>5. TokenBalance'
  BY <1>1, <1>2, <1>4 DEF IInv, TokenBalance
<1>6. ExecutedSoFar'
  <2>1. executed' = executed \union {EntryAt(code, x0).n}
    BY <1>2 DEF Exec
  <2>2. IsExec(EntryAt(code, x0))
    BY <1>1, <1>2
  <2> QED
    BY <1>1, <1>2, <2>1, <2>2 DEF IInv, ExecutedSoFar
<1> QED
  BY <1>1, <1>2, <1>5, <1>6 DEF IInv

(* A thread that jumps forward over instructions passes them and no call. *)
LEMMA JumpPreserves ==
  ASSUME IInv, NEW p \in Partitions, NEW to \in Nat,
         pc[p] < to, to <= Len(code.list[p]) + 1,
         \A k \in pc[p]..(to - 1) : IsExec(code.list[p][k]),
         pc' = [pc EXCEPT ![p] = to],
         executed' = executed \union {code.list[p][k].n : k \in pc[p]..(to - 1)},
         code' = code, tokens' = tokens
  PROVE  IInv'
<1> DEFINE Over == {<<p, k>> : k \in pc[p]..(to - 1)}
<1>1. WellFormed(code)
  BY DEF IInv
<1>2. pc[p] \in Nat \ {0} /\ Len(code.list[p]) \in Nat
  BY <1>1, PlaceFacts DEF IInv, PositionsOK
<1>3. \A k \in pc[p]..(to - 1) : k \in 1..Len(code.list[p])
  BY <1>2
<1>4. \A x \in Over : x \in Places(code) /\ IsExec(EntryAt(code, x))
  BY <1>1, <1>3, PlaceFacts DEF EntryAt
<1>5. ASSUME NEW x \in Places(code) PROVE Passed(x)' <=> (Passed(x) \/ x \in Over)
  <2>1. x = <<x[1], x[2]>> /\ x[1] \in Partitions /\ x[2] \in Nat /\ pc[x[1]] \in Nat
    BY <1>1, PlaceFacts DEF IInv, PositionsOK
  <2>2. CASE x[1] = p
    <3>1. pc'[x[1]] = to
      BY <2>2 DEF IInv, PositionsOK
    <3>2. x \in Over <=> x[2] \in pc[p]..(to - 1)
      BY <2>1, <2>2
    <3> QED
      BY <1>2, <2>1, <2>2, <3>1, <3>2 DEF Passed
  <2>3. CASE x[1] # p
    <3>1. pc'[x[1]] = pc[x[1]]
      BY <2>1, <2>3 DEF IInv, PositionsOK
    <3>2. x \notin Over
      BY <2>1, <2>3
    <3> QED
      BY <3>1, <3>2 DEF Passed
  <2> QED
    BY <2>2, <2>3
<1>6. PositionsOK'
  BY <1>2 DEF IInv, PositionsOK
<1>7. executed' = executed \union {EntryAt(code, x).n : x \in Over}
  <2>1. {EntryAt(code, x).n : x \in Over} = {code.list[p][k].n : k \in pc[p]..(to - 1)}
    <3>1. \A k \in pc[p]..(to - 1) : EntryAt(code, <<p, k>>) = code.list[p][k]
      BY DEF EntryAt
    <3> QED BY <3>1
  <2> QED BY <2>1
<1>8. \A x \in Places(code) : EntryAt(code, x) \in Entry
  BY <1>1, PlaceFacts
<1> HIDE DEF Over
<1>9. \A x \in Over : ~ IsSend(EntryAt(code, x)) /\ ~ IsReceive(EntryAt(code, x))
  BY <1>4, <1>8, EntryKinds
<1>10. TokenBalance'
  BY <1>5, <1>9 DEF IInv, TokenBalance
<1>11. ExecutedSoFar'
  BY <1>4, <1>5, <1>7 DEF IInv, ExecutedSoFar
<1> QED
  BY <1>6, <1>10, <1>11 DEF IInv

(* A send puts the token its receive will take. *)
LEMMA SendPreserves ==
  ASSUME IInv, NEW p \in Partitions, Running(p), Advance(p), IsSend(Current(p)),
         tokens' = [tokens EXCEPT ![Channel(Current(p))] = @ + 1],
         UNCHANGED <<code, executed>>
  PROVE  IInv'
<1> DEFINE x0 == <<p, pc[p]>>
<1> DEFINE ch == Channel(Current(p))
<1>1. /\ x0 \in Places(code)
      /\ EntryAt(code, x0) = Current(p)
      /\ ~ Passed(x0)
      /\ \A x \in Places(code) : Passed(x)' <=> (Passed(x) \/ x = x0)
      /\ PositionsOK'
  BY AdvancePasses
<1>2. WellFormed(code)
  BY DEF IInv
<1>3. \A x \in Places(code) : EntryAt(code, x) \in Entry
  BY <1>2, PlaceFacts
<1> HIDE DEF x0
<1>4. ~ IsExec(EntryAt(code, x0)) /\ ~ IsReceive(EntryAt(code, x0))
  BY <1>1, <1>3, EntryKinds
<1>5. ch \in Channels(code)
  BY <1>1, <1>4, ChannelOfCall
<1>6. tokens[ch] = 0
  BY <1>1, TokensAtCalls
<1>7. tokens' \in [Channels(code) -> Nat] /\ tokens'[ch] = 1
  BY <1>5, <1>6 DEF IInv
<1>8. \A c \in Channels(code) : c # ch => tokens'[c] = tokens[c]
  BY <1>5 DEF IInv
<1>9. TokenBalance'
  <2> SUFFICES ASSUME NEW s \in Places(code), NEW r \in Places(code),
                      IsSend(EntryAt(code, s)), IsReceive(EntryAt(code, r)),
                      Channel(EntryAt(code, s)) = Channel(EntryAt(code, r))
               PROVE  /\ Passed(r)' => Passed(s)'
                      /\ tokens'[Channel(EntryAt(code, s))] =
                           IF Passed(s)' /\ ~ Passed(r)' THEN 1 ELSE 0
    BY DEF TokenBalance
  <2>1. /\ Passed(r) => Passed(s)
        /\ tokens[Channel(EntryAt(code, s))] =
             IF Passed(s) /\ ~ Passed(r) THEN 1 ELSE 0
    BY DEF IInv, TokenBalance
  <2>2. Passed(r)' <=> Passed(r)
    BY <1>1, <1>4
  <2>3. CASE s = x0
    BY <1>1, <1>6, <1>7, <2>1, <2>2, <2>3
  <2>4. CASE s # x0
    <3>1. Channel(EntryAt(code, s)) # ch
      BY <1>1, <1>2, <2>4 DEF WellFormed, SingleUse
    <3>2. Channel(EntryAt(code, s)) \in Channels(code)
      BY <1>3, EntryKinds, ChannelOfCall
    <3> QED
      BY <1>1, <1>8, <2>1, <2>2, <2>4, <3>1, <3>2
  <2> QED
    BY <2>3, <2>4
<1>10. ExecutedSoFar'
  BY <1>1, <1>4 DEF IInv, ExecutedSoFar
<1> QED
  BY <1>1, <1>7, <1>9, <1>10 DEF IInv

(* A receive takes the token of its send, and there is one. *)
LEMMA ReceivePreserves ==
  ASSUME IInv, NEW p \in Partitions, Running(p), Advance(p), IsReceive(Current(p)),
         tokens[Channel(Current(p))] > 0,
         tokens' = [tokens EXCEPT ![Channel(Current(p))] = @ - 1],
         UNCHANGED <<code, executed>>
  PROVE  IInv'
<1> DEFINE x0 == <<p, pc[p]>>
<1> DEFINE ch == Channel(Current(p))
<1>1. /\ x0 \in Places(code)
      /\ EntryAt(code, x0) = Current(p)
      /\ ~ Passed(x0)
      /\ \A x \in Places(code) : Passed(x)' <=> (Passed(x) \/ x = x0)
      /\ PositionsOK'
  BY AdvancePasses
<1>2. WellFormed(code)
  BY DEF IInv
<1>3. \A x \in Places(code) : EntryAt(code, x) \in Entry
  BY <1>2, PlaceFacts
<1> HIDE DEF x0
<1>4. ~ IsExec(EntryAt(code, x0)) /\ ~ IsSend(EntryAt(code, x0))
  BY <1>1, <1>3, EntryKinds
<1>5. ch \in Channels(code)
  BY <1>1, <1>4, ChannelOfCall
<1>6. tokens' \in [Channels(code) -> Nat] /\ tokens'[ch] = tokens[ch] - 1
  BY <1>5 DEF IInv
<1>7. \A c \in Channels(code) : c # ch => tokens'[c] = tokens[c]
  BY <1>5 DEF IInv
<1>8. TokenBalance'
  <2> SUFFICES ASSUME NEW s \in Places(code), NEW r \in Places(code),
                      IsSend(EntryAt(code, s)), IsReceive(EntryAt(code, r)),
                      Channel(EntryAt(code, s)) = Channel(EntryAt(code, r))
               PROVE  /\ Passed(r)' => Passed(s)'
                      /\ tokens'[Channel(EntryAt(code, s))] =
                           IF Passed(s)' /\ ~ Passed(r)' THEN 1 ELSE 0
    BY DEF TokenBalance
  <2>1. /\ Passed(r) => Passed(s)
        /\ tokens[Channel(EntryAt(code, s))] =
             IF Passed(s) /\ ~ Passed(r) THEN 1 ELSE 0
    BY DEF IInv, TokenBalance
  <2>2. Passed(s)' <=> Passed(s)
    BY <1>1, <1>4
  <2>3. CASE r = x0
    <3>1. Channel(EntryAt(code, s)) = ch
      BY <1>1, <2>3
    <3>2. Passed(s)
      BY <2>1, <3>1
    <3> QED
      BY <1>1, <1>6, <2>1, <2>2, <2>3, <3>1, <3>2
  <2>4. CASE r # x0
    <3>1. Channel(EntryAt(code, r)) # ch
      BY <1>1, <1>2, <2>4 DEF WellFormed, SingleUse
    <3>2. Channel(EntryAt(code, s)) \in Channels(code)
      BY <1>3, EntryKinds, ChannelOfCall
    <3> QED
      BY <1>1, <1>7, <2>1, <2>2, <2>4, <3>1, <3>2
  <2> QED
    BY <2>3, <2>4
<1>9. ExecutedSoFar'
  BY <1>1, <1>4 DEF IInv, ExecutedSoFar
<1> QED
  BY <1>1, <1>6, <1>8, <1>9 DEF IInv

(* When no thread is left in its list, every place was passed. *)
LEMMA AllPassed ==
  ASSUME IInv, \A p \in Partitions : ~ Running(p)
  PROVE  \A x \in Places(code) : Passed(x)
<1>1. WellFormed(code)
  BY DEF IInv
<1>2. ASSUME NEW x \in Places(code) PROVE Passed(x)
  <2>1. x[1] \in Partitions /\ x[2] \in 1..Len(code.list[x[1]])
    BY <1>1, PlaceFacts
  <2>2. /\ pc[x[1]] \notin 1..Len(code.list[x[1]])
        /\ Len(code.list[x[1]]) \in Nat
    BY <1>1, <2>1, PlaceFacts DEF Running
  <2>3. pc[x[1]] \in Nat \ {0}
    BY <2>1 DEF IInv, PositionsOK
  <2> QED
    BY <2>1, <2>2, <2>3 DEF Passed
<1> QED
  BY <1>2

(* Between two calls the channels are empty: the next call starts as the *)
(* first one did.                                                        *)
LEMMA ChannelsDrained ==
  ASSUME IInv, \A p \in Partitions : ~ Running(p)
  PROVE  \A ch \in Channels(code) : tokens[ch] = 0
<1>1. WellFormed(code)
  BY DEF IInv
<1>2. \A x \in Places(code) : EntryAt(code, x) \in Entry
  BY <1>1, PlaceFacts
<1>3. ASSUME NEW x \in Places(code), ~ IsExec(EntryAt(code, x))
      PROVE  tokens[Channel(EntryAt(code, x))] = 0
  <2>1. CASE IsSend(EntryAt(code, x))
    <3>1. PICK r \in Places(code) :
             /\ IsReceive(EntryAt(code, r))
             /\ Channel(EntryAt(code, r)) = Channel(EntryAt(code, x))
      BY <2>1, TokensAtCalls
    <3> QED
      BY <2>1, <3>1, AllPassed DEF IInv, TokenBalance
  <2>2. CASE IsReceive(EntryAt(code, x))
    <3>1. PICK r \in Places(code) :
             /\ IsSend(EntryAt(code, r))
             /\ Channel(EntryAt(code, x)) = Channel(EntryAt(code, r))
      BY <2>2, TokensAtCalls
    <3> QED
      BY <2>2, <3>1, AllPassed DEF IInv, TokenBalance
  <2> QED
    BY <1>2, <1>3, <2>1, <2>2, EntryKinds
<1> QED
  BY <1>3 DEF Channels

(* Returning control starts the next call with everything empty again. *)
LEMMA ReturnPreserves ==
  ASSUME IInv, ReturnControl
  PROVE  IInv'
<1>1. code' = code /\ tokens' = tokens /\ executed' = {}
  BY DEF ReturnControl
<1>2. \A ch \in Channels(code) : tokens[ch] = 0
  BY ChannelsDrained DEF ReturnControl
<1>3. WellFormed(code)
  BY DEF IInv
<1>4. PositionsOK'
  BY <1>1, <1>3, PlaceFacts DEF ReturnControl, PositionsOK
<1>5. \A x \in Places(code) : ~ Passed(x)'
  <2> SUFFICES ASSUME NEW x \in Places(code) PROVE ~ (x[2] < pc'[x[1]])
    BY DEF Passed
  <2>1. x[1] \in Partitions /\ x[2] \in Nat /\ x[2] >= 1
    BY <1>3, PlaceFacts
  <2> QED
    BY <2>1 DEF ReturnControl
<1>6. \A x \in Places(code) : EntryAt(code, x) \in Entry
  BY <1>3, PlaceFacts
<1>7. TokenBalance'
  <2> SUFFICES ASSUME NEW s \in Places(code), NEW r \in Places(code),
                      IsSend(EntryAt(code, s))
               PROVE  tokens[Channel(EntryAt(code, s))] = 0
    BY <1>1, <1>5 DEF TokenBalance
  <2> QED
    BY <1>2, <1>6, EntryKinds, ChannelOfCall
<1>8. ExecutedSoFar'
  BY <1>1, <1>5 DEF ExecutedSoFar
<1> QED
  BY <1>1, <1>4, <1>7, <1>8 DEF IInv

(* A call of a well-formed function starts within the invariant. *)
LEMMA StartsRight == ASSUME WellFormed(code), StartCall(code) PROVE IInv
<1>1. PositionsOK
  BY PlaceFacts DEF StartCall, PositionsOK
<1>2. \A x \in Places(code) : ~ Passed(x)
  <2> SUFFICES ASSUME NEW x \in Places(code) PROVE ~ (x[2] < pc[x[1]])
    BY DEF Passed
  <2>1. x[1] \in Partitions /\ x[2] \in Nat /\ x[2] >= 1
    BY PlaceFacts
  <2> QED
    BY <2>1 DEF StartCall
<1>3. \A x \in Places(code) : EntryAt(code, x) \in Entry
  BY PlaceFacts
<1>4. TokenBalance
  <2> SUFFICES ASSUME NEW s \in Places(code), IsSend(EntryAt(code, s))
               PROVE  tokens[Channel(EntryAt(code, s))] = 0
    BY <1>2 DEF TokenBalance
  <2>1. Channel(EntryAt(code, s)) \in Channels(code)
    BY <1>3, EntryKinds, ChannelOfCall
  <2> QED
    BY <2>1 DEF StartCall
<1>5. ExecutedSoFar
  BY <1>2 DEF StartCall, ExecutedSoFar
<1> QED
  BY <1>1, <1>4, <1>5 DEF StartCall, IInv

(* IInv holds initially and every step keeps it. *)
THEOREM InductiveInvariant == Spec => []IInv
<1>1. Init => IInv
  BY CodesAssumption, StartsRight DEF Init
<1>2. IInv /\ [Next]_vars => IInv'
  <2> SUFFICES ASSUME IInv, [Next]_vars PROVE IInv'
    OBVIOUS
  <2>1. ASSUME NEW p \in Partitions, Exec(p) PROVE IInv'
    BY <2>1, ExecPreserves
  <2>2. ASSUME NEW p \in Partitions, Get(p) PROVE IInv'
    <3>1. IsReceive(Current(p))
      BY <2>2 DEF Get, At, IsReceive
    <3> QED
      BY <2>2, <3>1, ReceivePreserves DEF Get, At
  <2>3. ASSUME NEW p \in Partitions, Put(p) PROVE IInv'
    <3>1. IsSend(Current(p))
      BY <2>3 DEF Put, At, IsSend
    <3> QED
      BY <2>3, <3>1, SendPreserves DEF Put, At
  <2>4. ASSUME NEW p \in Partitions, SemWait(p) PROVE IInv'
    <3>1. IsReceive(Current(p))
      BY <2>4 DEF SemWait, At, IsReceive
    <3> QED
      BY <2>4, <3>1, ReceivePreserves DEF SemWait, At
  <2>5. ASSUME NEW p \in Partitions, SemPost(p) PROVE IInv'
    <3>1. IsSend(Current(p))
      BY <2>5 DEF SemPost, At, IsSend
    <3> QED
      BY <2>5, <3>1, SendPreserves DEF SemPost, At
  <2>6. CASE ReturnControl
    BY <2>6, ReturnPreserves
  <2>7. CASE UNCHANGED vars
    BY <2>7 DEF vars, IInv, PositionsOK, TokenBalance, ExecutedSoFar, Passed
  <2> QED
    BY <2>1, <2>2, <2>3, <2>4, <2>5, <2>6, <2>7 DEF Next, ThreadStep
<1> QED
  BY <1>1, <1>2, PTL DEF Spec

-----------------------------------------------------------------------------
(* The type invariant, for every set of partitions and functions. *)
THEOREM TypeCorrect == Spec => []TypeOK
<1>1. IInv => TypeOK
  <2> SUFFICES ASSUME IInv PROVE TypeOK
    OBVIOUS
  <2>1. code.list \in [Partitions -> Seq(Entry)]
    BY DEF IInv, WellFormed
  <2>2. executed \in SUBSET Instrs(code)
    BY DEF IInv, ExecutedSoFar, Instrs
  <2> QED
    BY <2>1, <2>2 DEF IInv, PositionsOK, TypeOK
<1> QED
  BY <1>1, InductiveInvariant, PTL

(* The channels hold exactly the tokens in flight, in every call. *)
THEOREM TokensBalanced == Spec => []TokenBalance
<1>1. IInv => TokenBalance
  BY DEF IInv
<1> QED
  BY <1>1, InductiveInvariant, PTL

(* A put finds its mailbox empty. *)
LEMMA PutsFindRoom == ASSUME IInv PROVE PutNeverBlocks
<1> SUFFICES ASSUME NEW p \in Partitions, At(p, "put")
             PROVE  tokens[Channel(Current(p))] = 0
  BY DEF PutNeverBlocks
<1>1. WellFormed(code)
  BY DEF IInv
<1>2. <<p, pc[p]>> \in Places(code)
  BY <1>1, PlaceFacts DEF At, Running
<1>3. /\ EntryAt(code, <<p, pc[p]>>) = Current(p)
      /\ ~ Passed(<<p, pc[p]>>)
  BY DEF EntryAt, Current, Passed, IInv, PositionsOK
<1>4. IsSend(EntryAt(code, <<p, pc[p]>>))
  BY <1>3 DEF At, IsSend
<1> QED
  BY <1>2, <1>3, <1>4, TokensAtCalls

(* No mailbox put of a generated thread ever blocks. *)
THEOREM PutsNeverBlock == Spec => []PutNeverBlocks
  BY PutsFindRoom, InductiveInvariant, PTL

(* Every mailbox and semaphore is empty when a call returns. *)
THEOREM Drained == Spec => []DrainedAtReturn
<1>1. IInv => DrainedAtReturn
  BY ChannelsDrained DEF DrainedAtReturn
<1> QED
  BY <1>1, InductiveInvariant, PTL

(* A non-empty set of natural numbers has a least element. *)
LEMMA LeastNatural ==
  ASSUME NEW T, T \subseteq Nat, T # {}
  PROVE  \E m \in T : \A k \in T : m <= k
<1>1. IsWellFoundedOn(OpToRel(<, Nat), Nat)
  BY NatLessThanWellFounded
<1>2. PICK m \in T : \A k \in T : ~ (<<k, m>> \in OpToRel(<, Nat))
  BY <1>1, WFMin
<1>3. \A k \in T : ~ (k < m)
  BY <1>2 DEF OpToRel
<1> QED
  BY <1>3

(* However the dependencies cross between the threads, a running call is   *)
(* never stuck: the thread in the least vertex can always go on, for what  *)
(* it waits for is sent from an earlier vertex.                            *)
LEMMA LeastVertexRuns ==
  ASSUME IInv, MboxCapacity \in Nat \ {0}
  PROVE  NoDeadlock
<1> SUFFICES ASSUME NEW q \in Partitions, Running(q)
             PROVE  \E p \in Partitions : Running(p) /\ ~ Blocked(p)
  BY DEF NoDeadlock
<1> DEFINE T == {Current(p).v : p \in {r \in Partitions : Running(r)}}
<1>1. WellFormed(code)
  BY DEF IInv
<1>2. \A p \in Partitions : Running(p) =>
        /\ <<p, pc[p]>> \in Places(code)
        /\ EntryAt(code, <<p, pc[p]>>) = Current(p)
        /\ Current(p) \in Entry
        /\ ~ Passed(<<p, pc[p]>>)
  BY <1>1, PlaceFacts DEF Running, Current, EntryAt, Passed, IInv, PositionsOK
<1>3. T \subseteq Nat /\ T # {}
  BY <1>2 DEF Entry
<1>4. PICK m \in T : \A k \in T : m <= k
  BY <1>3, LeastNatural
<1>5. PICK p \in Partitions : Running(p) /\ Current(p).v = m
  OBVIOUS
<1>6. \A r \in Partitions : Running(r) => Current(p).v <= Current(r).v
  BY <1>4, <1>5
<1> HIDE DEF T
<1>7. ASSUME IsReceive(Current(p)), tokens[Channel(Current(p))] = 0
      PROVE  FALSE
  <2> DEFINE x == <<p, pc[p]>>
  <2>1. PICK s \in Places(code) :
           /\ IsSend(EntryAt(code, s))
           /\ Channel(EntryAt(code, x)) = Channel(EntryAt(code, s))
           /\ EntryAt(code, s).v < EntryAt(code, x).v
    BY <1>2, <1>5, <1>7, TokensAtCalls
  <2>2. ~ Passed(s)
    BY <1>2, <1>5, <1>7, <2>1 DEF IInv, TokenBalance
  <2>3. /\ s[1] \in Partitions
        /\ s[2] \in 1..Len(code.list[s[1]])
        /\ Len(code.list[s[1]]) \in Nat
        /\ DOMAIN code.list[s[1]] = 1..Len(code.list[s[1]])
    BY <1>1, PlaceFacts
  <2>4. Running(s[1]) /\ pc[s[1]] <= s[2]
    BY <2>2, <2>3 DEF Running, Passed, IInv, PositionsOK
  <2>5. Current(s[1]).v <= EntryAt(code, s).v
    BY <1>1, <2>3, <2>4 DEF WellFormed, VertexOrder, Current, EntryAt, Running
  <2>6. /\ EntryAt(code, s).v \in Nat
        /\ EntryAt(code, x).v \in Nat
        /\ Current(s[1]).v \in Nat
        /\ EntryAt(code, x) = Current(p)
    BY <1>1, <1>2, <1>5, <2>3, <2>4, PlaceFacts DEF Entry
  <2> QED
    BY <1>6, <2>1, <2>3, <2>4, <2>5, <2>6
<1>8. ASSUME Current(p).op = "put", tokens[Channel(Current(p))] >= MboxCapacity
      PROVE  FALSE
  <2>1. tokens[Channel(Current(p))] = 0
    BY <1>5, <1>8, PutsFindRoom DEF PutNeverBlocks, At
  <2> QED
    BY <1>8, <2>1
<1> QED
  BY <1>5, <1>7, <1>8 DEF Blocked

(* The threads never all wait for each other. *)
THEOREM DeadlockFree == Spec => []NoDeadlock
<1>1. IInv => NoDeadlock
  BY LeastVertexRuns, CapacityAssumption
<1> QED
  BY <1>1, InductiveInvariant, PTL

(* What an instruction depends on is passed before a thread gets there. *)
LEMMA DependenciesPassed ==
  ASSUME IInv, NEW x \in Places(code), NEW y \in Places(code),
         IsExec(EntryAt(code, x)), IsExec(EntryAt(code, y)),
         <<EntryAt(code, x).n, EntryAt(code, y).n>> \in code.deps,
         y[2] <= pc[y[1]]
  PROVE  Passed(x)
<1>1. WellFormed(code)
  BY DEF IInv
<1>2. /\ x[1] \in Partitions /\ x[2] \in Nat /\ pc[x[1]] \in Nat
      /\ y[1] \in Partitions /\ y[2] \in Nat /\ pc[y[1]] \in Nat
  BY <1>1, PlaceFacts DEF IInv, PositionsOK
<1>3. CASE x[1] = y[1] /\ x[2] < y[2]
  BY <1>2, <1>3 DEF Passed
<1>4. CASE \E s, r \in Places(code) :
              /\ s[1] = x[1] /\ x[2] < s[2] /\ IsSend(EntryAt(code, s))
              /\ r[1] = y[1] /\ r[2] < y[2] /\ IsReceive(EntryAt(code, r))
              /\ Channel(EntryAt(code, s)) = Channel(EntryAt(code, r))
  <2>1. PICK s \in Places(code), r \in Places(code) :
              /\ s[1] = x[1] /\ x[2] < s[2] /\ IsSend(EntryAt(code, s))
              /\ r[1] = y[1] /\ r[2] < y[2] /\ IsReceive(EntryAt(code, r))
              /\ Channel(EntryAt(code, s)) = Channel(EntryAt(code, r))
    BY <1>4
  <2>2. s[2] \in Nat /\ r[2] \in Nat
    BY <1>1, PlaceFacts
  <2>3. Passed(r)
    BY <1>2, <2>1, <2>2 DEF Passed
  <2>4. Passed(s)
    BY <2>1, <2>3 DEF IInv, TokenBalance
  <2> QED
    BY <1>2, <2>1, <2>2, <2>4 DEF Passed
<1> QED
  BY <1>1, <1>3, <1>4 DEF WellFormed, Bridged

(* The threads implement DependencyOrder: no scheduling executes an        *)
(* instruction before one it depends on, or twice, or returns early.       *)
THEOREM ImplementsDependencyOrder == Spec => RespectsDependencies
<1>1. Init => Order!Init
  BY DEF Init, StartCall, Order!Init
<1>2. IInv /\ [Next]_vars => [Order!Next]_(Order!vars)
  <2> SUFFICES ASSUME IInv, [Next]_vars PROVE [Order!Next]_(Order!vars)
    OBVIOUS
  <2>1. WellFormed(code)
    BY DEF IInv
  <2>2. ASSUME NEW p \in Partitions, Exec(p) PROVE Order!Execute(Current(p).n)
    <3> DEFINE y == <<p, pc[p]>>
    <3>1. /\ y \in Places(code)
          /\ EntryAt(code, y) = Current(p)
          /\ ~ Passed(y)
          /\ IsExec(Current(p))
          /\ y[1] = p /\ y[2] = pc[p]
          /\ pc[p] \in Nat
      BY <2>1, <2>2, PlaceFacts
         DEF Exec, At, Running, EntryAt, Current, Passed, IsExec, IInv, PositionsOK
    <3> HIDE DEF y
    <3>2. Current(p).n \in Instrs(code)
      BY <3>1 DEF Instrs
    <3>3. Current(p).n \notin executed
      BY <2>1, <3>1 DEF WellFormed, SingleUse, IInv, ExecutedSoFar
    <3>4. ASSUME NEW j \in Instrs(code), <<j, Current(p).n>> \in code.deps
          PROVE  j \in executed
      <4>1. PICK x \in Places(code) : IsExec(EntryAt(code, x)) /\ EntryAt(code, x).n = j
        BY DEF Instrs
      <4>2. Passed(x)
        BY <3>1, <3>4, <4>1, DependenciesPassed
      <4> QED
        BY <4>1, <4>2 DEF IInv, ExecutedSoFar
    <3> QED
      BY <2>2, <3>2, <3>3, <3>4 DEF Exec, Order!Execute
  <2>3. ASSUME ReturnControl PROVE Order!Return
    <3>1. \A x \in Places(code) : Passed(x)
      BY <2>3, AllPassed DEF ReturnControl
    <3>2. executed = Instrs(code)
      BY <3>1 DEF IInv, ExecutedSoFar, Instrs
    <3> QED
      BY <2>3, <3>2 DEF ReturnControl, Order!Return
  <2>4. ASSUME NEW p \in Partitions, Get(p) \/ Put(p) \/ SemWait(p) \/ SemPost(p)
        PROVE  UNCHANGED <<code, executed>>
    BY <2>4 DEF Get, Put, SemWait, SemPost
  <2>5. ASSUME UNCHANGED <<code, executed>> PROVE UNCHANGED Order!vars
    BY <2>5 DEF Order!vars
  <2>6. ASSUME NEW p \in Partitions, Exec(p) PROVE Order!Next
    <3>1. Order!Execute(Current(p).n)
      BY <2>2, <2>6
    <3>2. Current(p).n \in Instrs(code)
      BY <3>1 DEF Order!Execute
    <3> QED
      BY <3>1, <3>2 DEF Order!Next
  <2>7. CASE UNCHANGED vars
    BY <2>5, <2>7 DEF vars
  <2> QED
    BY <2>3, <2>4, <2>5, <2>6, <2>7 DEF Next, ThreadStep, Order!Next
<1> QED
  BY <1>1, <1>2, InductiveInvariant, PTL DEF Spec, RespectsDependencies, Order!Spec
=============================================================================
