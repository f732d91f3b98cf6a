------------------------------ MODULE Scheduler ------------------------------
(***************************************************************************)
(* Tasks and the processes they run: the task list and its round robin     *)
(* (task/task.c), the process table (task/process.c), and the ways into    *)
(* the kernel that move them: the timer (idt/idt.c), a device interrupt,   *)
(* and the system calls that sleep, exit and load (isr80h/).               *)
(*                                                                         *)
(* A process has exactly one task, so one value stands for both.  kfree    *)
(* gives nothing back, so a task's address is never used a second time.    *)
(* The kernel runs with interrupts off: from entry to return is one step,  *)
(* except in task_next, which polls while it finds no task to run.         *)
(* Time is not counted: a sleeping task wakes at some later moment.        *)
(***************************************************************************)
EXTENDS Integers, FiniteSets, Sequences

CONSTANTS
    Tasks,         \* the processes that can be created in a run
    NULL,          \* the null pointer
    Polling,       \* the processor is in task_next's loop, no task runs
    Halted,        \* the kernel has panicked
    MiddleExits,   \* a task with neighbours on both sides may end
    BadPointers    \* a program may pass a pointer that is not its own

ASSUME SchedulerAssumption ==
    /\ IsFiniteSet(Tasks) /\ Tasks # {}
    /\ NULL \notin Tasks /\ Polling \notin Tasks /\ Halted \notin Tasks
    /\ Cardinality({NULL, Polling, Halted}) = 3
    /\ MiddleExits \in BOOLEAN /\ BadPointers \in BOOLEAN

VARIABLES
    head, tail,    \* task_head, task_tail
    nxt, prv,      \* task->next, task->prev
    current,       \* current_task
    asleep,        \* tasks whose sleep_until_microseconds is ahead
    saved,         \* saved[t]: whose registers are in t->registers
    slots,         \* process_vector
    focus,         \* current_process
    cpu,           \* whose program the processor executes
    faulted        \* the processes terminated in the middle of their own call

vars == <<head, tail, nxt, prv, current, asleep, saved, slots, focus, cpu, faulted>>

\* The processes that have been created and not terminated.
Alive == {t \in Tasks : \E i \in DOMAIN slots : slots[i] = t}

\* The processes not created yet: never on the list, never saved.  Which of them
\* comes next makes no difference: it is a matter of names.
Unborn == {t \in Tasks : t \notin Alive /\ saved[t] = NULL}
Newcomer == CHOOSE t \in Unborn : TRUE

InUserMode == cpu \in Tasks

-----------------------------------------------------------------------------
(* The task list *)

\* task_new: the new task goes to the end of the list.
task_new(t) ==
    IF head = NULL
    THEN /\ head' = t /\ tail' = t
         /\ UNCHANGED <<nxt, prv>>
    ELSE /\ nxt' = [nxt EXCEPT ![tail] = t]
         /\ prv' = [prv EXCEPT ![t] = tail]
         /\ tail' = t
         /\ UNCHANGED head

\* Mutants of task_list_remove: task_tail, or the predecessor's next, still
\* names the task.
task_list_remove_KeepsTail(t) ==
    /\ nxt' = IF prv[t] # NULL THEN [nxt EXCEPT ![prv[t]] = nxt[t]] ELSE nxt
    /\ head' = IF t = head THEN nxt[t] ELSE head
    /\ UNCHANGED <<tail, prv>>

task_list_remove_KeepsNext(t) ==
    /\ head' = IF t = head THEN nxt[t] ELSE head
    /\ tail' = IF t = tail THEN prv[t] ELSE tail
    /\ UNCHANGED <<nxt, prv>>

\* task_list_remove: the successor's prev is left as it was.
task_list_remove(t) ==
    /\ nxt' = IF prv[t] # NULL THEN [nxt EXCEPT ![prv[t]] = nxt[t]] ELSE nxt
    /\ head' = IF t = head THEN nxt[t] ELSE head
    /\ tail' = IF t = tail THEN prv[t] ELSE tail
    /\ UNCHANGED prv

\* task_get_next, as task_list_remove calls it for the current task: the list
\* has been relinked, the task's own next has not.
task_get_next(t) == IF nxt'[t] = NULL THEN head' ELSE nxt'[t]

\* The tasks met on the way from "start" along next pointers n, in order, with
\* NULL after the last.
Path(start, n) ==
    LET path[i \in 0 .. Cardinality(Tasks)] ==
            IF i = 0 THEN start
            ELSE IF path[i - 1] = NULL THEN NULL ELSE n[path[i - 1]]
    IN  path

OnList == {Path(head, nxt)[i] : i \in 0 .. Cardinality(Tasks)} \ {NULL}

\* Mutant: the search starts from the head each time.
task_get_next_non_sleeping_task_FromHead(c, h, n, sleepers) ==
    LET path  == Path(h, n)
        stops == {i \in DOMAIN path : path[i] = NULL \/ path[i] \notin sleepers}
    IN  IF stops = {} THEN NULL
        ELSE path[CHOOSE i \in stops : \A j \in stops : i <= j]

\* task_get_next_non_sleeping_task: the first task awake after c on the list,
\* or NULL.  The search goes round to the head only when c is the last task:
\* otherwise it gives up at the end of the list.
task_get_next_non_sleeping_task(c, h, n, sleepers) ==
    LET start == IF c # NULL /\ n[c] # NULL THEN n[c] ELSE h
        path  == Path(start, n)
        stops == {i \in DOMAIN path : path[i] = NULL \/ path[i] \notin sleepers}
    IN  IF stops = {} THEN NULL
        ELSE path[CHOOSE i \in stops : \A j \in stops : i <= j]

\* task_next with task c current, on the list and sleepers this step leaves:
\* task_switch and task_return to the task found, or the polling loop.
task_next(c, sleepers, registers) ==
    LET t == task_get_next_non_sleeping_task(c, head', nxt', sleepers)
    IN  IF t = NULL
        THEN current' = c /\ cpu' = Polling
        ELSE current' = t /\ cpu' = registers[t]

\* interrupt_handler and isr80h_handler: the registers the processor holds are
\* saved in the current task.
SavedState == [saved EXCEPT ![current] = cpu]
-----------------------------------------------------------------------------
(* The process table *)

FreeSlots == {i \in DOMAIN slots : slots[i] = NULL}

\* process_get_free_slot: the first free slot, else a new one at the end.
process_get_free_slot ==
    IF FreeSlots = {} THEN Len(slots) + 1
    ELSE CHOOSE i \in FreeSlots : \A j \in FreeSlots : i <= j

\* The table with p in that slot (NULL: the slot is made but stays free).
SlotTaken(p) ==
    IF process_get_free_slot > Len(slots) THEN Append(slots, p)
    ELSE [slots EXCEPT ![process_get_free_slot] = p]

\* process_switch_to_any takes the first process of the table.
FirstProcess(table) ==
    LET used == {i \in DOMAIN table : table[i] # NULL}
    IN  table[CHOOSE i \in used : \A j \in used : i <= j]

\* Mutant of process_unlink: the current process stays the current one.
process_unlink_KeepsFocus(p) ==
    /\ slots' = [i \in DOMAIN slots |-> IF slots[i] = p THEN NULL ELSE slots[i]]
    /\ UNCHANGED focus

\* process_unlink: p leaves the table and, if it was the current process, the
\* first one left becomes it.
process_unlink(p) ==
    /\ slots' = [i \in DOMAIN slots |-> IF slots[i] = p THEN NULL ELSE slots[i]]
    /\ focus' = IF focus = p THEN FirstProcess(slots') ELSE focus

\* process_terminate of the current task's process, up to task_free.
process_terminate ==
    /\ process_unlink(current)
    /\ task_list_remove(current)

\* process_load_switch: a process, its task and the focus.
process_load_switch(t) ==
    /\ t \in Unborn /\ t = Newcomer
    /\ slots' = SlotTaken(t)
    /\ task_new(t)
    /\ focus' = t

-----------------------------------------------------------------------------
(* Entries into the kernel *)

\* The kernel has started and loaded its first program, which
\* task_run_first_ever_task runs.
Init ==
    LET t == CHOOSE u \in Tasks : TRUE
    IN  /\ head = t /\ tail = t /\ current = t
        /\ nxt = [u \in Tasks |-> NULL]
        /\ prv = [u \in Tasks |-> NULL]
        /\ asleep = {}
        /\ saved = [u \in Tasks |-> IF u = t THEN t ELSE NULL]
        /\ slots = <<t>>
        /\ focus = t
        /\ cpu = t
        /\ faulted = {}

\* idt_clock.
Tick ==
    /\ InUserMode
    /\ saved' = SavedState
    /\ UNCHANGED <<head, tail, nxt, prv>>
    /\ task_next(current, asleep, saved')
    /\ UNCHANGED <<asleep, slots, focus, faulted>>

\* isr80h_command25_udelay.
Sleep ==
    /\ InUserMode
    /\ saved' = SavedState
    /\ asleep' = asleep \cup {current}
    /\ UNCHANGED <<head, tail, nxt, prv>>
    /\ task_next(current, asleep', saved')
    /\ UNCHANGED <<slots, focus, faulted>>

\* The time a task asked to sleep until comes.
Wake(t) ==
    /\ t \in asleep
    /\ asleep' = asleep \ {t}
    /\ UNCHANGED <<head, tail, nxt, prv, current, saved, slots, focus, cpu, faulted>>

\* task_next's loop finds a task after its last udelay.
Poll ==
    /\ cpu = Polling
    /\ UNCHANGED <<head, tail, nxt, prv>>
    /\ task_next(current, asleep, saved)
    /\ cpu' # Polling
    /\ UNCHANGED <<asleep, saved, slots, focus, faulted>>

\* A keyboard or mouse interrupt returns to the program it interrupted.  A
\* click may make another process the current one.
DeviceInterrupt ==
    /\ InUserMode
    /\ saved' = SavedState
    /\ focus' \in Alive
    /\ UNCHANGED <<head, tail, nxt, prv, current, asleep, slots, cpu, faulted>>

MayExit == MiddleExits \/ current \in {head, tail}
LastProcess == Cardinality(Alive) = 1

\* isr80h_command9_exit.
Exit ==
    /\ InUserMode /\ MayExit /\ ~LastProcess
    /\ saved' = SavedState
    /\ process_terminate
    /\ task_next(task_get_next(current), asleep, saved')
    /\ UNCHANGED <<asleep, faulted>>

\* process_validate_memory_or_terminate: the process ends in the middle of its
\* own call, task_page loads the next task's pages, and the call returns to
\* the program that made it.
FaultingCall ==
    /\ BadPointers
    /\ InUserMode /\ MayExit /\ ~LastProcess
    /\ saved' = SavedState
    /\ process_terminate
    /\ current' = task_get_next(current)
    /\ faulted' = faulted \cup {current}
    /\ UNCHANGED <<asleep, cpu>>

\* The last process ends: "No processes to switch too".
ExitPanics ==
    /\ InUserMode /\ LastProcess
    /\ saved' = SavedState
    /\ slots' = [i \in DOMAIN slots |-> NULL]
    /\ cpu' = Halted
    /\ UNCHANGED <<head, tail, nxt, prv, current, asleep, focus, faulted>>

\* Mutant of Load: task_return without task_switch.
Load_WithoutSwitch(t) ==
    /\ InUserMode
    /\ process_load_switch(t)
    /\ saved' = [SavedState EXCEPT ![t] = t]
    /\ cpu' = saved'[t]
    /\ UNCHANGED <<current, asleep, faulted>>

\* isr80h_command6_process_load_start and command7_invoke_system_command.
Load(t) ==
    /\ InUserMode
    /\ process_load_switch(t)
    /\ saved' = [SavedState EXCEPT ![t] = t]
    /\ current' = t
    /\ cpu' = saved'[t]
    /\ UNCHANGED <<asleep, faulted>>

\* The program cannot be loaded.  A slot the table grew by stays, free.
LoadFails ==
    /\ InUserMode
    /\ saved' = SavedState
    /\ slots' = SlotTaken(NULL)
    /\ UNCHANGED <<head, tail, nxt, prv, current, asleep, focus, cpu, faulted>>

\* The program is loaded and there is no memory for its arguments: the caller
\* gets an error and goes on, the new process stays.
LoadWithoutArguments(t) ==
    /\ InUserMode
    /\ process_load_switch(t)
    /\ saved' = [SavedState EXCEPT ![t] = t]
    /\ UNCHANGED <<current, asleep, cpu, faulted>>

Next ==
    \/ Tick
    \/ Sleep
    \/ Poll
    \/ DeviceInterrupt
    \/ Exit
    \/ FaultingCall
    \/ ExitPanics
    \/ LoadFails
    \/ \E t \in Tasks : Wake(t) \/ Load(t) \/ LoadWithoutArguments(t)

\* The timer keeps ticking, time passes, and the polling loop keeps polling.
\* Programs promise nothing.
Fairness ==
    /\ WF_vars(Tick)
    /\ WF_vars(Poll)
    /\ \A t \in Tasks : WF_vars(Wake(t))

Spec == Init /\ [][Next]_vars /\ Fairness

-----------------------------------------------------------------------------
(* Properties *)

\* The list the scheduler walks holds exactly the tasks of the processes in the
\* table, each in one slot, and task_tail is its last one: no live task is cut
\* off from the processor and none that ended is left where it can be run.
ListHoldsTheLive ==
    cpu # Halted =>
        /\ OnList = Alive
        /\ tail \in OnList /\ nxt[tail] = NULL
        /\ \A i, j \in DOMAIN slots : slots[i] = slots[j] /\ i # j => slots[i] = NULL

\* A task that has ended is never run again.  Only a program terminated in the
\* middle of its own call goes on, in the place of whatever task comes next.
EndedNeverRuns == InUserMode => cpu \in Alive \cup faulted

\* The program the processor executes is the current task's, and what a task
\* that is not running will resume with is its own registers, or those of a
\* program that went on after its end.
RegistersAreOwn ==
    /\ InUserMode => cpu \in {current} \cup faulted
    /\ \A t \in Alive : saved[t] \in {t} \cup faulted

\* The current process, which keys and exits go by, exists.
FocusExists == cpu # Halted => focus \in Alive

\* Every process gets the processor again and again, however others sleep,
\* load and end, until it ends or the kernel panics, as long as no program
\* runs on in another's place.
EveryTaskRuns ==
    \A t \in Tasks :
        t \in Alive ~> cpu = t \/ t \notin Alive \/ cpu = Halted \/ faulted # {}
=============================================================================
