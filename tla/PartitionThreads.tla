-------------------------- MODULE PartitionThreads --------------------------
(***************************************************************************)
(* The partitioned function at run time.  Every partition is executed by   *)
(* one thread (partition 0 by the caller) that runs the statements         *)
(* Partitioning::savePartitioning collected for it, one after the other.   *)
(* Between the instructions of the function stand the calls that           *)
(* Partitioning::handleDependencies inserted: _get_*/_put_* on the mailbox *)
(* of a data dependency, _sem_wait/_sem_post on the semaphore of a memory  *)
(* or control dependency.  The mailboxes, the semaphores and the code that *)
(* starts a call and waits for its end come from templates outside the     *)
(* repository and are modelled from their use.                             *)
(***************************************************************************)
EXTENDS Integers, Sequences

CONSTANTS
  Partitions,     \* the partitions, one thread each
  Codes,          \* the partitioned functions that may be called
  MboxCapacity    \* words a data dependency's mailbox can hold

(***************************************************************************)
(* A partitioned function: list[p] is what thread p executes, deps the     *)
(* dependencies (as pairs of instruction numbers) it has to respect.  An   *)
(* entry of a list executes instruction n, or gets/puts mailbox n, or      *)
(* waits for/posts semaphore n; v is the vertex of the partitioning graph  *)
(* the entry belongs to.                                                   *)
(***************************************************************************)
Entry == [op : {"exec", "get", "put", "wait", "post"}, n : Nat, v : Nat]

IsExec(e) == e.op = "exec"
IsSend(e) == e.op \in {"put", "post"}
IsReceive(e) == e.op \in {"get", "wait"}

Channel(e) == <<IF e.op \in {"get", "put"} THEN "mbox" ELSE "sem", e.n>>

(* The places of a partitioned function: position k of the list of thread p. *)
Places(c) == UNION {{p} \X DOMAIN c.list[p] : p \in Partitions}
EntryAt(c, pk) == c.list[pk[1]][pk[2]]

Instrs(c) == {EntryAt(c, x).n : x \in {y \in Places(c) : IsExec(EntryAt(c, y))}}
Channels(c) ==
  {Channel(EntryAt(c, x)) : x \in {y \in Places(c) : ~ IsExec(EntryAt(c, y))}}
-----------------------------------------------------------------------------
(***************************************************************************)
(* What the generator has to establish.                                    *)
(***************************************************************************)

(* One call never executes an instruction twice and uses every channel once *)
(* in each direction.                                                       *)
SingleUse(c) ==
  \A x, y \in Places(c) :
    LET d == EntryAt(c, x)
        e == EntryAt(c, y)
    IN  \/ IsExec(d) /\ IsExec(e) /\ d.n = e.n
        \/ IsSend(d) /\ IsSend(e) /\ Channel(d) = Channel(e)
        \/ IsReceive(d) /\ IsReceive(e) /\ Channel(d) = Channel(e)
        => x = y

(* Every send has its receive and every receive its send, and the send *)
(* stands in an earlier vertex than the receive.                       *)
Matched(c) ==
  /\ \A x \in Places(c) : IsSend(EntryAt(c, x)) =>
       \E y \in Places(c) : /\ IsReceive(EntryAt(c, y))
                            /\ Channel(EntryAt(c, y)) = Channel(EntryAt(c, x))
  /\ \A y \in Places(c) : IsReceive(EntryAt(c, y)) =>
       \E x \in Places(c) : /\ IsSend(EntryAt(c, x))
                            /\ Channel(EntryAt(c, y)) = Channel(EntryAt(c, x))
                            /\ EntryAt(c, x).v < EntryAt(c, y).v

(* A thread runs its vertices in the order of the graph. *)
VertexOrder(c) ==
  \A p \in Partitions : \A a, b \in DOMAIN c.list[p] :
    a <= b => c.list[p][a].v <= c.list[p][b].v

(* Each dependency between two executed instructions is respected by the  *)
(* order of one thread, or a channel leads from after the first to before *)
(* the second.                                                            *)
Bridged(c) ==
  \A x, y \in Places(c) :
    /\ IsExec(EntryAt(c, x))
    /\ IsExec(EntryAt(c, y))
    /\ <<EntryAt(c, x).n, EntryAt(c, y).n>> \in c.deps
    => \/ x[1] = y[1] /\ x[2] < y[2]
       \/ \E s, r \in Places(c) :
            /\ s[1] = x[1] /\ x[2] < s[2] /\ IsSend(EntryAt(c, s))
            /\ r[1] = y[1] /\ r[2] < y[2] /\ IsReceive(EntryAt(c, r))
            /\ Channel(EntryAt(c, s)) = Channel(EntryAt(c, r))

WellFormed(c) ==
  /\ c.list \in [Partitions -> Seq(Entry)]
  /\ SingleUse(c)
  /\ Matched(c)
  /\ VertexOrder(c)
  /\ Bridged(c)

ASSUME CodesAssumption == \A c \in Codes : WellFormed(c)
ASSUME CapacityAssumption == MboxCapacity \in Nat \ {0}
-----------------------------------------------------------------------------
VARIABLES
  code,      \* the partitioned function
  pc,        \* the next position in every thread's list
  tokens,    \* words in every mailbox, value of every semaphore
  executed   \* the instructions the current call has executed

vars == <<code, pc, tokens, executed>>

StartCall(c) ==
  /\ pc = [p \in Partitions |-> 1]
  /\ tokens = [ch \in Channels(c) |-> 0]
  /\ executed = {}

Init ==
  /\ code \in Codes
  /\ StartCall(code)

Running(p) == pc[p] \in DOMAIN code.list[p]
Current(p) == code.list[p][pc[p]]
At(p, op) == Running(p) /\ Current(p).op = op
Advance(p) == pc' = [pc EXCEPT ![p] = @ + 1]

(* An instruction of the original function. *)
Exec(p) ==
  /\ At(p, "exec")
  /\ executed' = executed \union {Current(p).n}
  /\ Advance(p)
  /\ UNCHANGED <<code, tokens>>

(* A get that does not wait, and one that leaves the word in the mailbox. *)
GetWithoutWaiting(p) ==
  /\ At(p, "get")
  /\ tokens' = [tokens EXCEPT ![Channel(Current(p))] = @ - 1]
  /\ Advance(p)
  /\ UNCHANGED <<code, executed>>
GetKeepingWord(p) ==
  /\ At(p, "get")
  /\ tokens[Channel(Current(p))] > 0
  /\ Advance(p)
  /\ UNCHANGED <<code, tokens, executed>>

(* mbox_get blocks while the mailbox is empty. *)
Get(p) ==
  /\ At(p, "get")
  /\ tokens[Channel(Current(p))] > 0
  /\ tokens' = [tokens EXCEPT ![Channel(Current(p))] = @ - 1]
  /\ Advance(p)
  /\ UNCHANGED <<code, executed>>

(* A put whose word is lost. *)
PutLosingWord(p) ==
  /\ At(p, "put")
  /\ Advance(p)
  /\ UNCHANGED <<code, tokens, executed>>

(* mbox_put blocks while the mailbox is full. *)
Put(p) ==
  /\ At(p, "put")
  /\ tokens[Channel(Current(p))] < MboxCapacity
  /\ tokens' = [tokens EXCEPT ![Channel(Current(p))] = @ + 1]
  /\ Advance(p)
  /\ UNCHANGED <<code, executed>>

(* A wait that leaves the count, and one that goes on without a post. *)
SemWaitKeepingCount(p) ==
  /\ At(p, "wait")
  /\ tokens[Channel(Current(p))] > 0
  /\ Advance(p)
  /\ UNCHANGED <<code, tokens, executed>>
SemTryWait(p) ==
  /\ At(p, "wait")
  /\ tokens' = [tokens EXCEPT ![Channel(Current(p))] = IF @ > 0 THEN @ - 1 ELSE @]
  /\ Advance(p)
  /\ UNCHANGED <<code, executed>>

SemWait(p) ==
  /\ At(p, "wait")
  /\ tokens[Channel(Current(p))] > 0
  /\ tokens' = [tokens EXCEPT ![Channel(Current(p))] = @ - 1]
  /\ Advance(p)
  /\ UNCHANGED <<code, executed>>

(* A post that is retried forever. *)
SemPostRetrying(p) ==
  /\ At(p, "post")
  /\ tokens' = [tokens EXCEPT ![Channel(Current(p))] = 1]
  /\ UNCHANGED <<code, pc, executed>>

SemPost(p) ==
  /\ At(p, "post")
  /\ tokens' = [tokens EXCEPT ![Channel(Current(p))] = @ + 1]
  /\ Advance(p)
  /\ UNCHANGED <<code, executed>>

(* Return control: the call ends when every thread is through its list; the *)
(* next call starts every thread again.  Nothing resets the channels.       *)
ReturnControl ==
  /\ \A p \in Partitions : ~ Running(p)
  /\ pc' = [p \in Partitions |-> 1]
  /\ executed' = {}
  /\ UNCHANGED <<code, tokens>>

ThreadStep(p) == Exec(p) \/ Get(p) \/ Put(p) \/ SemWait(p) \/ SemPost(p)

Next == (\E p \in Partitions : ThreadStep(p)) \/ ReturnControl

Spec == Init /\ [][Next]_vars

(* Linux schedules every thread that is not blocked in a mailbox or a *)
(* semaphore, and the caller eventually calls the function again.     *)
FairSpec ==
  /\ Spec
  /\ \A p \in Partitions : WF_vars(ThreadStep(p))
  /\ WF_vars(ReturnControl)
-----------------------------------------------------------------------------
TypeOK ==
  /\ code.list \in [Partitions -> Seq(Entry)]
  /\ pc \in [Partitions -> Nat \ {0}]
  /\ tokens \in [Channels(code) -> Nat]
  /\ executed \in SUBSET Instrs(code)

(* Place x lies behind its thread in the current call. *)
Passed(x) == x[2] < pc[x[1]]

(* A channel holds one token exactly while its send was passed and its     *)
(* receive was not; no receive overtakes its send, in the first and in     *)
(* every later call.                                                       *)
TokenBalance ==
  \A s, r \in Places(code) :
    /\ IsSend(EntryAt(code, s))
    /\ IsReceive(EntryAt(code, r))
    /\ Channel(EntryAt(code, s)) = Channel(EntryAt(code, r))
    => /\ Passed(r) => Passed(s)
       /\ tokens[Channel(EntryAt(code, s))] =
            IF Passed(s) /\ ~ Passed(r) THEN 1 ELSE 0

Blocked(p) ==
  /\ Running(p)
  /\ \/ IsReceive(Current(p)) /\ tokens[Channel(Current(p))] = 0
     \/ Current(p).op = "put" /\ tokens[Channel(Current(p))] >= MboxCapacity

(* No deadlock: while a call runs, some thread is neither finished nor      *)
(* blocked in a mailbox or semaphore call inserted by handleDependencies.   *)
(* The gets of a vertex with a branch are moved to its begin and the puts   *)
(* to its end, and threads wait for each other in both directions, so this  *)
(* rests on the order of the vertices, not on that of the instructions.     *)
NoDeadlock ==
  (\E p \in Partitions : Running(p)) =>
    \E p \in Partitions : Running(p) /\ ~ Blocked(p)

(* No thread ever blocks in a put: a mailbox of one word is enough for *)
(* every data dependency.                                              *)
PutNeverBlocks ==
  \A p \in Partitions :
    At(p, "put") => tokens[Channel(Current(p))] = 0

(* When a call returns, every mailbox and every semaphore is empty again,  *)
(* so the semaphores can be "reused in each partitioned function" and the  *)
(* next call finds no stale word.                                          *)
DrainedAtReturn ==
  (\A p \in Partitions : ~ Running(p)) =>
    \A ch \in Channels(code) : tokens[ch] = 0

Order == INSTANCE DependencyOrder
           WITH instrs <- Instrs(code), deps <- code.deps

(* The threads together implement DependencyOrder: whatever the scheduling, *)
(* every instruction is executed once per call, after all it depends on,    *)
(* also when the producer runs in another thread, and in every later call.  *)
RespectsDependencies == Order!Spec

(* Every call ends: no thread stays in its list forever. *)
CallsReturn == \A p \in Partitions : Running(p) ~> ~ Running(p)
=============================================================================
