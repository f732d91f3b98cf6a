---------------------------------- MODULE Nvme ----------------------------------
(***************************************************************************)
(* Reading an NVMe disk (disk/drivers/nvme.c): the driver puts a command   *)
(* into the submission queue, rings the doorbell and polls the completion  *)
(* queue, for a while; the controller works beside it.  The admin queues   *)
(* are driven by the same code, over their own tail, head and phase.       *)
(*                                                                         *)
(* The streamer and the partition scan read one sector at a time, so a     *)
(* read is one command.  Commands are numbered as they are sent, and       *)
(* completions as they are posted; the code has no such numbers and gives  *)
(* every command the identifier 0.  The doorbells hold what the driver     *)
(* wrote last, its tail and its head.                                      *)
(***************************************************************************)
EXTENDS Integers, FiniteSets

CONSTANTS
    Size,          \* entries of a queue
    MaxWork,       \* commands the controller works on at once
    MaxCommands    \* bound: commands sent

ASSUME NvmeAssumption ==
    /\ Size \in Nat /\ Size > 1
    /\ MaxWork \in Nat \ {0} /\ MaxCommands \in Nat

VARIABLES
    sq, tail,      \* io_submission_queue: the command in each entry, the tail
    cq, head,      \* io_completion_queue: its entries, the head,
    phase,         \*   the phase of a new entry
    stage,         \* IDLE, or POLLING in nvme_io_submit_and_poll
    result,        \* what it returned last
    sent,          \* number of the last command sent
    taken,         \* completions the driver has taken
    timeouts,      \* times it has given up
    sqHead,        \* the controller's place in the submission queue,
    cqTail,        \*   in the completion queue,
    cqPhase,       \*   and the phase it writes there
    fetched,       \* number of the last command it has fetched
    work,          \* commands it works on
    posted,        \* completions it has posted
    done           \* commands whose data it has transferred

driver == <<sq, tail, head, phase, stage, result, sent, taken, timeouts>>
controller == <<cq, sqHead, cqTail, cqPhase, fetched, work, posted, done>>
vars == <<driver, controller>>

Cells == 0 .. Size - 1

\* The entry i places after entry c.
After(c, i) == IF c + i >= Size THEN c + i - Size ELSE c + i

OK == "OK"
EIO == "EIO"
ETIMEOUT == "ETIMEOUT"
NONE == "NONE"

IDLE == "IDLE"
POLLING == "POLLING"

-----------------------------------------------------------------------------
(* Driver *)

\* The end of mount: zeroed queues of the same size on both sides.
Init ==
    /\ sq = [c \in Cells |-> 0] /\ tail = 0
    /\ cq = [c \in Cells |-> [phase |-> 0, status |-> 0, of |-> 0, nr |-> 0]]
    /\ head = 0 /\ phase = 1
    /\ stage = IDLE /\ result = NONE
    /\ sent = 0 /\ taken = 0 /\ timeouts = 0
    /\ sqHead = 0 /\ cqTail = 0 /\ cqPhase = 1
    /\ fetched = 0 /\ work = {} /\ posted = 0 /\ done = {}

\* Mutant of Submit: the tail moves on before the command is stored.
Submit_AfterMoving ==
    /\ stage = IDLE /\ sent < MaxCommands
    /\ sq' = [sq EXCEPT ![After(tail, 1)] = sent + 1]
    /\ tail' = After(tail, 1)
    /\ sent' = sent + 1
    /\ stage' = POLLING
    /\ UNCHANGED <<head, phase, result, taken, timeouts, controller>>

\* nvme_disk_driver_read, into nvme_io_submit_and_poll: whether the queue has room
\* for the command is not asked.
Submit ==
    /\ stage = IDLE /\ sent < MaxCommands
    /\ sq' = [sq EXCEPT ![tail] = sent + 1]
    /\ tail' = After(tail, 1)
    /\ sent' = sent + 1
    /\ stage' = POLLING
    /\ UNCHANGED <<head, phase, result, taken, timeouts, controller>>

\* Mutant of Answered: the phase is not looked at.
Answered_Unchecked == TRUE

\* The entry at the head is a new one.
Answered == cq[head].phase = phase

\* Mutant of Flipped: the phase stays.
Flipped_Never == phase

\* The phase of new entries once the entry at the head is taken.
Flipped == IF head + 1 >= Size THEN 1 - phase ELSE phase

\* The poll finds a new entry: whatever command it is for, it is the answer.
TakeAnswer ==
    /\ stage = POLLING /\ Answered
    /\ head' = After(head, 1)
    /\ phase' = Flipped
    /\ taken' = taken + 1
    /\ stage' = IDLE
    /\ result' = IF cq[head].status = 0 THEN OK ELSE EIO
    /\ UNCHANGED <<sq, tail, sent, timeouts, controller>>

\* The poll gives up: neither head nor phase moves, and the command stays sent.
TimeOut ==
    /\ stage = POLLING /\ ~Answered
    /\ timeouts' = timeouts + 1
    /\ stage' = IDLE
    /\ result' = ETIMEOUT
    /\ UNCHANGED <<sq, tail, head, phase, sent, taken, controller>>

-----------------------------------------------------------------------------
(* Controller *)

\* It fetches the next command, up to the tail it was told.
Fetch ==
    /\ sqHead # tail /\ Cardinality(work) < MaxWork
    /\ work' = work \cup {sq[sqHead]}
    /\ fetched' = sq[sqHead]
    /\ sqHead' = After(sqHead, 1)
    /\ UNCHANGED <<driver, cq, cqTail, cqPhase, posted, done>>

\* It completes a command, in any order, and posts an entry unless the completion
\* queue, by the head it was told, is full.
Complete(c, status) ==
    /\ c \in work
    /\ After(cqTail, 1) # head
    /\ cq' = [cq EXCEPT ![cqTail] =
                 [phase |-> cqPhase, status |-> status, of |-> c, nr |-> posted + 1]]
    /\ cqTail' = After(cqTail, 1)
    /\ cqPhase' = IF cqTail + 1 >= Size THEN 1 - cqPhase ELSE cqPhase
    /\ posted' = posted + 1
    /\ work' = work \ {c}
    /\ done' = IF status = 0 THEN done \cup {c} ELSE done
    /\ UNCHANGED <<driver, sqHead, fetched>>

Next ==
    \/ Submit \/ TakeAnswer \/ TimeOut
    \/ Fetch
    \/ \E c \in work, status \in {0, 1} : Complete(c, status)

Spec == Init /\ [][Next]_vars

-----------------------------------------------------------------------------
(* Properties *)

TypeOK ==
    /\ sq \in [Cells -> Nat] /\ tail \in Cells /\ sqHead \in Cells
    /\ cq \in [Cells -> [phase : {0, 1}, status : {0, 1}, of : Nat, nr : Nat]]
    /\ head \in Cells /\ cqTail \in Cells
    /\ phase \in {0, 1} /\ cqPhase \in {0, 1}
    /\ stage \in {IDLE, POLLING} /\ result \in {NONE, OK, EIO, ETIMEOUT}
    /\ sent \in Nat /\ taken \in Nat /\ timeouts \in Nat
    /\ fetched \in Nat /\ posted \in Nat
    /\ work \subseteq Nat /\ done \subseteq Nat

\* The phase of the entry at the head tells whether the controller has posted a
\* completion the driver has not taken, over every turn of the queue and whatever
\* timed out: no completion is taken twice, skipped, or taken before it is posted.
CompletionsOnceInOrder ==
    /\ Answered <=> taken < posted
    /\ Answered => cq[head].nr = taken + 1

FewTimeouts == timeouts < Size - 1

\* The driver does not ask whether the submission queue has room.  While fewer
\* calls than it has room for have timed out, the controller still fetches each
\* command once, in order, and as it was written.
CommandsOnceInOrder ==
    FewTimeouts =>
        /\ sent - fetched \in 0 .. Size - 1
        /\ tail = After(sqHead, sent - fetched)
        /\ \A i \in 0 .. sent - fetched - 1 : sq[After(sqHead, i)] = fetched + 1 + i

\* A read that is told it succeeded has its data, until the first time-out; from
\* then on its answer may be an earlier command's.
AnswerIsOwn ==
    stage = IDLE /\ result = OK /\ timeouts = 0 => sent \in done
=============================================================================
