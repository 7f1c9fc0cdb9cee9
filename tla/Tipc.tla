-------------------------------- MODULE Tipc ---------------------------------
(***************************************************************************)
(* How start_trusty hands the root of trust to the Keymaster service of    *)
(* Trusty (libqltipc/ql-tipc): libtipc.c sets the IPC device up and takes  *)
(* it down, keymaster.c runs four requests over one channel, ipc.c waits   *)
(* for events by polling, ipc_dev.c puts each command in the buffer shared *)
(* with Trusty, trusty_dev_common.c makes the hypercall, restarted as      *)
(* often as it is interrupted.                                             *)
(*                                                                         *)
(* Trusty, with its Keymaster, is external: it runs beside the bootloader  *)
(* and is modelled by what the client sees of it.  SM_ERR_BUSY is assumed  *)
(* to be its answer to a call it has not taken up, never to a restart: the *)
(* call is then made again, and nothing has changed.                       *)
(***************************************************************************)
EXTENDS Naturals, Sequences, FiniteSets

CONSTANTS
  MaxInterrupts,   \* bound on the interruptions of hypercalls
  MaxFaults        \* bound on the failures of Trusty and of the set-up

ASSUME TipcAssumption == MaxInterrupts \in Nat /\ MaxFaults \in Nat

\* km_tipc_init: the requests, in order
Requests == <<"version", "boot_params", "patchlevel", "attestation_ids">>

\* Length of a response, in the units a frame is cut in
RespLen == 2

VARIABLES
  ffa,       \* whether the API version has memory objects (ffa_tx # NULL)
  at,        \* where the client is
  waiting,   \* what wait_for_complete waits for: "connect" or "reply"
  dev,       \* _ipc_dev: whether there is an IPC device
  buf,       \* the buffer: "none", "own", "shared" or "freed"
  req,       \* the request under way, an index of Requests
  got,       \* resp_len: what was read of its response
  skipped,   \* whether a failure of boot_params was taken for "already set"
  result,    \* what trusty_ipc_init returned: "none", "ok" or "error"
  smc,       \* the hypercall: "idle", "issue", "restart" or "done"
  fiq,       \* whether an FIQ interrupted it
  op,        \* the command it carries
  answer,    \* [ok, event, frame]: what the command returned
  started,   \* how often Trusty started the command
  ql,        \* whether Trusty uses the buffer
  chan,      \* Trusty's end of the channel: "none", "connecting", "open", "hup"
  edge,      \* its events that are reported once: "ready", "unblocked", "error"
  queue,     \* requests not processed yet
  frames,    \* response frames not read yet: [cmd, len, stop, error]
  set,       \* the requests Keymaster carried out
  interrupts, faults

client == <<at, waiting, dev, buf, req, got, skipped, result>>
call == <<smc, fiq, op, answer, started>>
trusty == <<ql, chan, edge, queue, frames, set>>
tipc_vars ==
  <<ffa, at, waiting, dev, buf, req, got, skipped, result, smc, fiq, op, answer, started,
    ql, chan, edge, queue, frames, set, interrupts, faults>>

NoFrame == [cmd |-> "none", len |-> 0, stop |-> FALSE, error |-> FALSE]
Answer(ok, event, frame) == [ok |-> ok, event |-> event, frame |-> frame]
NoAnswer == Answer(FALSE, {}, NoFrame)

TipcInit ==
  /\ ffa \in BOOLEAN
  /\ at = "init" /\ waiting = "connect" /\ dev = FALSE /\ buf = "none"
  /\ req = 1 /\ got = 0 /\ skipped = FALSE /\ result = "none"
  /\ smc = "idle" /\ fiq = FALSE /\ op = "none" /\ answer = NoAnswer /\ started = 0
  /\ ql = FALSE /\ chan = "none" /\ edge = {} /\ queue = <<>> /\ frames = <<>> /\ set = <<>>
  /\ interrupts = 0 /\ faults = 0

Fault == faults < MaxFaults /\ faults' = faults + 1

----------------------------------------------------------------------------
(* trusty_std_call32 *)

\* The command each place of the client has carried out.
Commands == [create |-> "create", connect |-> "connect", wait |-> "get_event", send |-> "send",
             recv |-> "recv", close |-> "disconnect", shutdown |-> "shutdown"]

\* trusty_call32_mem_buf_id: the client fills the buffer and makes the call.
Exec ==
  /\ smc = "idle" /\ at \in DOMAIN Commands /\ (at = "shutdown" => dev)
  /\ smc' = "issue" /\ op' = Commands[at]
  /\ UNCHANGED <<ffa, client, fiq, answer, started, trusty, interrupts, faults>>

Events == edge \cup (IF frames # <<>> THEN {"msg"} ELSE {}) \cup (IF chan = "hup" THEN {"hup"} ELSE {})

\* What Trusty does with the command.
Execute ==
  \/ /\ op = "create" /\ ql' = TRUE
     /\ answer' = Answer(TRUE, {}, NoFrame)
     /\ UNCHANGED <<chan, edge, queue, frames, set>>
  \/ /\ op = "connect" /\ chan' = "connecting"
     /\ answer' = Answer(TRUE, {}, NoFrame)
     /\ UNCHANGED <<ql, edge, queue, frames, set>>
  \/ /\ op = "get_event" /\ edge' = {}
     /\ answer' = Answer(TRUE, Events, NoFrame)
     /\ UNCHANGED <<ql, chan, queue, frames, set>>
  \/ /\ op = "send"
     /\ answer' = Answer(chan = "open", {}, NoFrame)
     /\ queue' = IF chan = "open" THEN Append(queue, Requests[req]) ELSE queue
     /\ UNCHANGED <<ql, chan, edge, frames, set>>
  \/ /\ op = "recv"
     /\ IF frames = <<>> THEN answer' = NoAnswer /\ UNCHANGED frames
        ELSE answer' = Answer(TRUE, {}, Head(frames)) /\ frames' = Tail(frames)
     /\ UNCHANGED <<ql, chan, edge, queue, set>>
  \/ /\ op = "disconnect" /\ chan' = "none"
     /\ answer' = Answer(TRUE, {}, NoFrame)
     /\ UNCHANGED <<ql, edge, queue, frames, set>>
  \/ /\ op = "shutdown" /\ ql' = FALSE
     /\ answer' = Answer(TRUE, {}, NoFrame)
     /\ UNCHANGED <<chan, edge, queue, frames, set>>

\* The call ends, carried out or refused with an error status.
Completes ==
  /\ smc' = "done" /\ fiq' = FALSE
  /\ \/ Execute /\ UNCHANGED faults
     \/ Fault /\ answer' = NoAnswer /\ UNCHANGED trusty
  /\ UNCHANGED interrupts

\* SM_ERR_INTERRUPTED and SM_ERR_CPU_IDLE: smc(SMC_SC_RESTART_LAST) comes next;
\* SM_ERR_FIQ_INTERRUPTED: smc(SMC_SC_RESTART_FIQ) does, until it returns something else.
Interrupted ==
  /\ interrupts < MaxInterrupts /\ interrupts' = interrupts + 1
  /\ \/ smc' = "restart" /\ fiq' = FALSE
     \/ fiq' = TRUE /\ UNCHANGED smc
  /\ UNCHANGED <<answer, trusty, faults>>

\* smc(smcnr): Trusty takes the command up.
SmcIssue ==
  /\ smc = "issue" /\ ~fiq /\ started' = started + 1
  /\ Completes \/ Interrupted
  /\ UNCHANGED <<ffa, client, op>>

\* A restart: Trusty goes on with the command it has taken up.
SmcRestart ==
  /\ smc = "restart" \/ fiq
  /\ Completes \/ Interrupted
  /\ UNCHANGED <<ffa, client, op, started>>

----------------------------------------------------------------------------
(* Trusty and its Keymaster *)

Accept ==
  /\ chan = "connecting"
  /\ \/ chan' = "open" /\ edge' = edge \cup {"ready"} /\ UNCHANGED faults
     \/ chan' = "hup" /\ Fault /\ UNCHANGED edge
  /\ UNCHANGED <<ffa, client, call, ql, queue, frames, set, interrupts>>

\* A response comes in one frame or in two; the last one has the stop bit.
Process ==
  /\ chan = "open" /\ queue # <<>> /\ queue' = Tail(queue)
  /\ \E error \in BOOLEAN, split \in BOOLEAN :
       /\ IF error THEN Fault ELSE UNCHANGED faults
       /\ set' = IF error THEN set ELSE Append(set, Head(queue))
       /\ LET Frame(n, s) == [cmd |-> Head(queue), len |-> n, stop |-> s, error |-> error]
          IN  frames' = frames \o IF split THEN <<Frame(1, FALSE), Frame(RespLen - 1, TRUE)>>
                                           ELSE <<Frame(RespLen, TRUE)>>
  /\ UNCHANGED <<ffa, client, call, ql, chan, edge, interrupts>>

\* The service goes away, takes more messages again, or reports an error.
HangUp ==
  /\ chan = "open" /\ Fault
  /\ \/ chan' = "hup" /\ UNCHANGED edge
     \/ \E e \in {"unblocked", "error"} : edge' = edge \cup {e} /\ UNCHANGED chan
  /\ UNCHANGED <<ffa, client, call, ql, queue, frames, set, interrupts>>

----------------------------------------------------------------------------
(* libtipc.c, ipc_dev.c *)

\* The client takes the result of the call it made.
Done(p) ==
  /\ at = p /\ smc = "done" /\ smc' = "idle" /\ op' = "none" /\ answer' = NoAnswer /\ started' = 0
  /\ UNCHANGED <<ffa, fiq, trusty, interrupts>>

\* trusty_ipc_init fails; start_trusty calls trusty_ipc_shutdown all the same.
Fail == at' = "shutdown" /\ result' = "error"

\* trusty_dev_init: an API version that is too new fails; what fails after that is
\* fatal, and trusty_abort leaves the behaviour undefined.
TrustyDevInit ==
  /\ at = "init"
  /\ \/ at' = "alloc" /\ UNCHANGED <<result, faults>>
     \/ Fault /\ Fail
     \/ Fault /\ ffa /\ at' = "abort" /\ UNCHANGED result
  /\ UNCHANGED <<ffa, waiting, dev, buf, req, got, skipped, call, trusty, interrupts>>

\* trusty_ipc_dev_create up to the call that creates the device: allocation, page
\* attributes, sharing.  When the attributes fail, memory that was never shared is
\* reclaimed, which is fatal when there is memory to share.
DevAlloc ==
  /\ at = "alloc"
  /\ \/ at' = "create" /\ buf' = (IF ffa THEN "shared" ELSE "own") /\ UNCHANGED <<result, faults>>
     \/ Fault /\ Fail /\ buf' \in {"none", "freed"}
     \/ Fault /\ ffa /\ at' = "abort" /\ buf' = "own" /\ UNCHANGED result
  /\ UNCHANGED <<ffa, waiting, dev, req, got, skipped, call, trusty, interrupts>>

\* Mutant: the pages are freed although the memory could not be reclaimed.
FreeAnyway(next) == buf' = "freed" /\ at' = next /\ UNCHANGED faults

\* trusty_dev_reclaim_memory, then the pages are freed: Trusty refuses to give back what
\* it uses, which is fatal; without memory objects nobody is asked.
ReclaimAndFree(next) ==
  \/ (ffa => ~ql) /\ buf' = "freed" /\ at' = next /\ UNCHANGED faults
  \/ ffa /\ at' = "abort" /\ UNCHANGED buf /\ (IF ql THEN UNCHANGED faults ELSE Fault)

\* trusty_dev_init_ipc returned.
DevCreate ==
  /\ Done("create")
  /\ \/ answer.ok /\ dev' = TRUE /\ at' = "connect" /\ UNCHANGED <<buf, result, faults>>
     \/ ~answer.ok /\ ReclaimAndFree("shutdown") /\ result' = "error" /\ UNCHANGED dev
  /\ UNCHANGED <<waiting, req, got, skipped>>

\* trusty_ipc_shutdown without a device: the device pointer is NULL.
ShutdownNothing ==
  /\ at = "shutdown" /\ ~dev /\ at' = "null"
  /\ UNCHANGED <<ffa, waiting, dev, buf, req, got, skipped, result, call, trusty, interrupts, faults>>

\* trusty_ipc_shutdown: km_tipc_shutdown closes no channel, as initialized is never set;
\* the result of trusty_dev_shutdown_ipc is not used.
DevShutdown ==
  /\ Done("shutdown") /\ ReclaimAndFree("end")
  /\ UNCHANGED <<waiting, dev, req, got, skipped, result>>

----------------------------------------------------------------------------
(* ipc.c, keymaster.c *)

Connect ==
  /\ Done("connect")
  /\ \/ answer.ok /\ at' = "wait" /\ waiting' = "connect" /\ UNCHANGED result
     \/ ~answer.ok /\ Fail /\ UNCHANGED waiting
  /\ UNCHANGED <<dev, buf, req, got, skipped, faults>>

\* A request ends with TRUSTY_ERR_GENERIC.  The value is that of
\* KM_ERROR_ROOT_OF_TRUST_ALREADY_SET, with which km_tipc_init goes on after boot_params.
Generic ==
  \/ /\ Requests[req] = "boot_params" /\ skipped' = TRUE
     /\ req' = req + 1 /\ at' = "send" /\ UNCHANGED result
  \/ Requests[req] # "boot_params" /\ Fail /\ UNCHANGED <<req, skipped>>

\* A wait that fails; trusty_ipc_connect closes the channel first.
WaitFails ==
  /\ \/ waiting = "connect" /\ at' = "close" /\ UNCHANGED result
     \/ waiting = "reply" /\ Fail
  /\ UNCHANGED <<req, skipped>>

\* IPC_HANDLE_POLL_ERROR, which comes before every other event.
WaitErrs ==
  \/ waiting = "connect" /\ WaitFails
  \/ waiting = "reply" /\ Generic

\* Mutant: sync_ipc_ops has no on_disconnect handler.
WaitIgnoresHangUp ==
  /\ Done("wait")
  /\ \/ ~answer.ok /\ WaitFails
     \/ answer.ok /\ "error" \in answer.event /\ WaitErrs
     \/ /\ answer.ok /\ answer.event \cap {"ready", "msg"} # {}
        /\ at' = (IF waiting = "connect" THEN "send" ELSE "recv") /\ UNCHANGED <<req, skipped, result>>
     \/ answer.ok /\ answer.event \cap {"ready", "msg"} = {} /\ UNCHANGED <<at, req, skipped, result>>
  /\ UNCHANGED <<waiting, dev, buf, got, faults>>

\* trusty_ipc_poll_for_event, in wait_for_complete: the first event that has a handler
\* counts.  Nothing handles "unblocked"; with no event the client polls again.
Wait ==
  /\ Done("wait")
  /\ \/ ~answer.ok /\ WaitFails
     \/ answer.ok /\ "error" \in answer.event /\ WaitErrs
     \/ /\ answer.ok /\ "error" \notin answer.event
        /\ \/ /\ answer.event \cap {"ready", "msg"} # {}
              /\ at' = (IF waiting = "connect" THEN "send" ELSE "recv")
              /\ UNCHANGED <<req, skipped, result>>
           \/ answer.event \cap {"ready", "msg"} = {} /\ "hup" \in answer.event /\ WaitFails
           \/ /\ answer.event \cap {"ready", "msg", "hup"} = {}
              /\ UNCHANGED <<at, req, skipped, result>>
  /\ UNCHANGED <<waiting, dev, buf, got, faults>>

\* trusty_ipc_close after a failed wait_for_connect; its result is not used.
Close ==
  /\ Done("close") /\ Fail
  /\ UNCHANGED <<waiting, dev, buf, req, got, skipped, faults>>

\* trusty_set_boot_params and its like: serializing the request may fail.
SerializeFails ==
  /\ at = "send" /\ smc = "idle" /\ req > 1 /\ Fault /\ Fail
  /\ UNCHANGED <<ffa, waiting, dev, buf, req, got, skipped, call, trusty, interrupts>>

\* trusty_ipc_send: every error status is TRUSTY_ERR_SECOS_ERR, a full queue too.
Send ==
  /\ Done("send")
  /\ \/ answer.ok /\ at' = "wait" /\ waiting' = "reply" /\ got' = 0 /\ UNCHANGED result
     \/ ~answer.ok /\ Fail /\ UNCHANGED <<waiting, got>>
  /\ UNCHANGED <<dev, buf, req, skipped, faults>>

\* Mutant: km_do_tipc does not look at the error Keymaster returned.
ResponseUnchecked(error) ==
  /\ \/ req < Len(Requests) /\ req' = req + 1 /\ at' = "send" /\ UNCHANGED result
     \/ req = Len(Requests) /\ at' = "shutdown" /\ result' = "ok" /\ UNCHANGED req
  /\ UNCHANGED skipped

\* km_do_tipc, km_get_version: the response is complete; every error of Keymaster is
\* TRUSTY_ERR_GENERIC, and so is a version that is too old.
Response(error) ==
  \/ error /\ Generic
  \/ /\ ~error /\ UNCHANGED skipped
     /\ \/ req < Len(Requests) /\ req' = req + 1 /\ at' = "send" /\ UNCHANGED result
        \/ req = Len(Requests) /\ at' = "shutdown" /\ result' = "ok" /\ UNCHANGED req

\* Mutant: one frame is taken for the whole response.
ReadEndsAtOnce(f, len) == TRUE

\* km_read_raw_response: the loop ends with the stop bit or a full buffer.
ReadEnds(f, len) == f.stop \/ len >= RespLen

\* check_response_error: the frame is too short, or answers another request.
Malformed(f) == Fault \/ (f.cmd # Requests[req] /\ UNCHANGED faults)

\* trusty_ipc_recv of one frame, in the loop of km_read_raw_response.
Recv ==
  /\ Done("recv")
  /\ LET f == answer.frame IN
     \/ ~answer.ok /\ Fail /\ UNCHANGED <<req, got, skipped, faults>>
     \/ answer.ok /\ Malformed(f) /\ Generic /\ UNCHANGED got
     \/ /\ answer.ok /\ f.cmd = Requests[req] /\ got' = got + f.len /\ UNCHANGED faults
        /\ \/ ~ReadEnds(f, got') /\ at' = "wait" /\ UNCHANGED <<req, skipped, result>>
           \/ ReadEnds(f, got') /\ Response(f.error)
  /\ UNCHANGED <<waiting, dev, buf>>

----------------------------------------------------------------------------
Client == Exec \/ SmcIssue \/ SmcRestart \/ TrustyDevInit \/ DevAlloc \/ DevCreate
          \/ ShutdownNothing \/ DevShutdown \/ Connect \/ Wait \/ Close \/ SerializeFails
          \/ Send \/ Recv

\* trusty_ipc_shutdown returned, or the client is lost.
Ends == {"end", "null", "abort"}
Stopped == at \in Ends /\ UNCHANGED tipc_vars

TipcNext == Client \/ Accept \/ Process \/ HangUp \/ Stopped

\* The client polls without pause; Trusty and its Keymaster get to run.
TipcSpec ==
  /\ TipcInit /\ [][TipcNext]_tipc_vars
  /\ WF_tipc_vars(Client) /\ WF_tipc_vars(Accept) /\ WF_tipc_vars(Process)

----------------------------------------------------------------------------
\* Types of the variables; what was read of a response fits its buffer.
TipcTypeOK ==
  /\ ffa \in BOOLEAN /\ dev \in BOOLEAN /\ ql \in BOOLEAN /\ fiq \in BOOLEAN
  /\ skipped \in BOOLEAN
  /\ at \in DOMAIN Commands \cup Ends \cup {"init", "alloc"}
  /\ waiting \in {"connect", "reply"}
  /\ buf \in {"none", "own", "shared", "freed"}
  /\ req \in DOMAIN Requests /\ got \in 0 .. RespLen
  /\ result \in {"none", "ok", "error"}
  /\ smc \in {"idle", "issue", "restart", "done"}
  /\ chan \in {"none", "connecting", "open", "hup"} /\ edge \subseteq {"ready", "unblocked", "error"}
  /\ interrupts \in 0 .. MaxInterrupts /\ faults \in 0 .. MaxFaults

Others == <<"version", "patchlevel", "attestation_ids">>

\* However often hypercalls are interrupted and restarted (trusty_std_call32), Keymaster
\* carries out the requests of km_tipc_init once each and in order, the root of trust
\* before the patch level and the attestation ids; and trusty_ipc_init succeeds only when
\* it has carried out all of them, or all but a boot_params whose failure km_tipc_init
\* took for a root of trust that was already set.
Provisioned ==
  /\ \E q \in {Requests, Others} : Len(set) <= Len(q) /\ \A i \in DOMAIN set : set[i] = q[i]
  /\ result = "ok" => set = Requests \/ (skipped /\ set = Others)

\* No command in the shared buffer is taken up twice by Trusty: what an interrupt or an
\* FIQ leaves unfinished is restarted, never issued again (trusty_std_call_inner).
TakenUpOnce == started <= 1

\* The client has read the whole response, in however many frames, when it sends the next
\* request: no frame is left to be read as the answer to a later one
\* (km_read_raw_response).  Only a boot_params that failed without an answer, or with a
\* malformed one, may leave something, and only the next request is sent over it.
InStep ==
  at = "send" /\ smc \in {"idle", "issue", "restart"} =>
    (queue = <<>> /\ frames = <<>>) \/ (skipped /\ Requests[req] = "patchlevel")

\* The buffer's pages are freed only when Trusty no longer uses them, where Trusty tracks
\* shared memory, and no command runs in freed pages (trusty_ipc_dev_create and
\* trusty_ipc_dev_shutdown).
BufferOwned ==
  /\ buf = "freed" /\ ffa => ~ql
  /\ smc \in {"issue", "restart"} => buf \in {"own", "shared"}

\* trusty_ipc_init and trusty_ipc_shutdown come to an end: wait_for_complete polls without
\* a timeout, and the connection, the answer or the hang-up it waits for arrives.
Returns == <>(at \in Ends)
=============================================================================
