------------------------------- MODULE Boot -------------------------------
(***************************************************************************)
(* From app_main to running tasks: hal_liteos/main.c, os_impl_get_driver   *)
(* and port_task_create of gen_os_impl.c, task_sample.c, profile.c.  The    *)
(* platform calls app_main, creates its own tasks through the table it is  *)
(* given, and starts the kernel; platform and kernel are external.         *)
(***************************************************************************)
EXTENDS Integers, Sequences, FiniteSets

CONSTANTS
    TskLimit,       \* LOSCFG_BASE_CORE_TSK_LIMIT
    KernelTasks,    \* tasks LOS_KernelInit creates out of that pool
    PlatformTasks,  \* tasks the platform may create before it starts the kernel
    AppTasks        \* tasks OHOS_SystemInit may create

StartUpTasks == {"TaskSampleEntry1", "TaskSampleEntry2", "mainTask"}

PoolAssumption ==
    /\ TskLimit \in Nat /\ KernelTasks \in Nat
    /\ KernelTasks + Cardinality(StartUpTasks) <= TskLimit
    /\ StartUpTasks \cap PlatformTasks = {}

VARIABLES
    stage,      \* how far the start-up is
    registered,  \* evt_cb_table is registered
    uart,       \* PRINT_PORT is set up
    lost,       \* text that was printed to a port not set up
    halted,     \* a fault callback loops for ever
    tasks,      \* tasks in the kernel's pool, its own not counted
    asked,      \* tasks the platform asked for
    hilog,      \* HilogProc_Impl is registered
    host        \* user_packet_handler is registered

vars == <<stage, registered, uart, lost, halted, tasks, asked, hilog, host>>

Init ==
    /\ stage = "app_main"
    /\ registered = FALSE
    /\ uart = FALSE
    /\ lost = FALSE
    /\ halted = FALSE
    /\ tasks = {}
    /\ asked = {}
    /\ hilog = FALSE
    /\ host = FALSE

At(from, to) == ~halted /\ stage = from /\ stage' = to

\* printf and platform_printf, through cb_putc.
PrintText == lost' = (lost \/ ~uart)

\* LOS_TaskCreate: nothing happens when the pool is used up.
LOS_TaskCreate(t) ==
    tasks' = IF KernelTasks + Cardinality(tasks) < TskLimit THEN tasks \cup {t} ELSE tasks

--------------------------------------------------------------------------
(* app_main.                                                               *)

\* After SYSCTRL_Init.
SetCallbackTable ==
    /\ At("app_main", "callbacks_set")
    /\ registered' = TRUE
    /\ UNCHANGED <<uart, lost, halted, tasks, asked, hilog, host>>

\* Mutant: the printing starts without the set-up, as with config_uart
\* commented out and nothing in its place.
SetupPeripheralsEmpty ==
    /\ At("callbacks_set", "set_up")
    /\ UNCHANGED <<registered, uart, lost, halted, tasks, asked, hilog, host>>

\* cube_setup_peripherals sets up UART0.
SetupPeripherals ==
    /\ At("callbacks_set", "set_up")
    /\ uart' = TRUE
    /\ UNCHANGED <<registered, lost, halted, tasks, asked, hilog, host>>

\* The build texts, then the heap's bounds, LOS_KernelInit and the tick.
Greet ==
    /\ At("set_up", "kernel_initialised")
    /\ PrintText
    /\ UNCHANGED <<registered, uart, halted, tasks, asked, hilog, host>>

\* RunTaskSample: a failure is printed and nothing else.
TaskSample1 ==
    /\ At("kernel_initialised", "sample1")
    /\ LOS_TaskCreate("TaskSampleEntry1")
    /\ PrintText
    /\ UNCHANGED <<registered, uart, halted, asked, hilog, host>>

TaskSample2 ==
    /\ At("sample1", "sample2")
    /\ LOS_TaskCreate("TaskSampleEntry2")
    /\ PrintText
    /\ UNCHANGED <<registered, uart, halted, asked, hilog, host>>

\* Mutant: the main task left to OHOS_SystemInit, whose call is commented out.
MainTaskInitSkipped ==
    /\ At("sample2", "driver_returned")
    /\ UNCHANGED <<registered, uart, lost, halted, tasks, asked, hilog, host>>

\* Its result is ignored; what follows it registers the low-power functions.
MainTaskInit ==
    /\ At("sample2", "driver_returned")
    /\ LOS_TaskCreate("mainTask")
    /\ UNCHANGED <<registered, uart, lost, halted, asked, hilog, host>>

--------------------------------------------------------------------------
(* The platform.                                                           *)

\* A failure is not reported: the caller gets an uninitialised id.
port_task_create(t) ==
    /\ At("driver_returned", "driver_returned")
    /\ t \notin asked
    /\ asked' = asked \cup {t}
    /\ LOS_TaskCreate(t)
    /\ UNCHANGED <<registered, uart, lost, halted, hilog, host>>

OsStart ==
    /\ At("driver_returned", "started")
    /\ PrintText
    /\ UNCHANGED <<registered, uart, halted, tasks, asked, hilog, host>>

--------------------------------------------------------------------------
(* The running system.                                                     *)

\* mainTask: LiteParamService, DeviceManagerStart, and the tasks that
\* OHOS_SystemInit creates.
AppTask(t) ==
    /\ At("started", "started")
    /\ "mainTask" \in tasks
    /\ t \notin tasks
    /\ LOS_TaskCreate(t)
    /\ UNCHANGED <<registered, uart, lost, halted, asked, hilog, host>>

\* mainTask returns, and the kernel deletes it.
MainTaskEnds ==
    /\ At("started", "started")
    /\ "mainTask" \in tasks
    /\ hilog' = TRUE
    /\ tasks' = tasks \ {"mainTask"}
    /\ UNCHANGED <<registered, uart, lost, halted, asked, host>>

\* The platform's host initialises, once: texts, and the packet handler.
setup_profile ==
    /\ At("started", "started")
    /\ ~host /\ host' = TRUE
    /\ PrintText
    /\ UNCHANGED <<registered, uart, halted, tasks, asked, hilog>>

\* The host works, or a command is complete: the cases are empty, setup_adv's
\* only call is commented out.  So nothing ever advertises, and the events of
\* links never come.
user_packet_handler ==
    /\ At("started", "started")
    /\ host
    /\ UNCHANGED <<registered, uart, lost, halted, tasks, asked, hilog, host>>

\* The sample tasks, HilogProc_Impl.
TaskPrints ==
    /\ At("started", "started")
    /\ tasks # {}
    /\ PrintText
    /\ UNCHANGED <<registered, uart, halted, tasks, asked, hilog, host>>

\* PLATFORM_ALLOW_DEEP_SLEEP is commented out.
query_deep_sleep_allowed == FALSE

\* A deep sleep costs the UART its set-up; setup_peripherals is called again.
on_deep_sleep_wakeup == TRUE

\* The platform's idle processing.
Doze ==
    /\ At("started", "started")
    /\ uart' = IF query_deep_sleep_allowed THEN on_deep_sleep_wakeup ELSE uart
    /\ UNCHANGED <<registered, lost, halted, tasks, asked, hilog, host>>

\* A hard fault, an assertion, no memory: the callback prints and loops.
Fault ==
    /\ ~halted
    /\ halted' = TRUE
    /\ IF registered THEN PrintText ELSE UNCHANGED lost
    /\ UNCHANGED <<stage, registered, uart, tasks, asked, hilog, host>>

Next ==
    \/ SetCallbackTable \/ SetupPeripherals \/ Greet
    \/ TaskSample1 \/ TaskSample2 \/ MainTaskInit
    \/ \E t \in PlatformTasks : port_task_create(t)
    \/ OsStart
    \/ \E t \in AppTasks : AppTask(t)
    \/ setup_profile \/ user_packet_handler
    \/ MainTaskEnds \/ TaskPrints \/ Doze \/ Fault

Spec == Init /\ [][Next]_vars

--------------------------------------------------------------------------
(* Properties.                                                             *)

TypeOK ==
    /\ {registered, uart, lost, halted, hilog, host} \subseteq BOOLEAN
    /\ tasks \subseteq StartUpTasks \cup PlatformTasks \cup AppTasks
    /\ asked \subseteq PlatformTasks
    /\ KernelTasks + Cardinality(tasks) <= TskLimit

Room == TskLimit - KernelTasks - Cardinality(StartUpTasks)

\* Nobody looks at the results, and nobody has to: whatever platform and
\* applications ask for, the start-up tasks are there when the driver table
\* is returned; a task of the platform is missing only when it asked for
\* more than the start-up leaves; and nothing printed is lost but the text
\* of a fault before the set-up.
StartUpTasksFirst ==
    /\ stage \in {"driver_returned", "started"} =>
          /\ StartUpTasks \ tasks \subseteq (IF hilog THEN {"mainTask"} ELSE {})
          /\ Cardinality(asked) <= Room => asked \subseteq tasks
    /\ lost => halted /\ stage = "callbacks_set"
==========================================================================
