--------------------------------- MODULE Adb ---------------------------------
(***************************************************************************)
(* ADB in crash mode: messages and their payloads (libadb/adb.c), sockets  *)
(* (adb_socket.c) and the services behind them: sync (sync_service.c),     *)
(* which pulls a file through a reader (reader.c), shell                   *)
(* (shell_service.c) and reboot (reboot_service.c).                        *)
(*                                                                         *)
(* A packet goes to the link as a message and, once an event says that     *)
(* something was sent, its payload.  Messages are handled by adb_run, in   *)
(* the main loop; OKAY is handled by the receive event itself.  As for     *)
(* fastboot, the events of TCP interrupt the main loop, the ones of USB    *)
(* come between two messages.  The host follows the protocol; it may       *)
(* cancel a transfer, or go away and come back.                            *)
(*                                                                         *)
(* A write that the link refuses is considered where the code does more    *)
(* than return the error, for the OKAY of a new socket.  Any other write   *)
(* of a connected device is accepted, and what it sends is what the buffer *)
(* held at the call, although usb_write and tcp_write only hand it on.     *)
(***************************************************************************)
EXTENDS Sequences, FiniteSetsExt

CONSTANTS
  Links,        \* the links to consider: subset of {"tcp", "usb"}
  Sizes,        \* the values of MAX_ADB_SOCKET to consider
  Kinds,        \* what each job of the host may be: a pull of "ram" or "part", a shell
                \* command with some, too much or no output, "reboot", or a service
                \* there is not
  FileLen,      \* length of what is pulled
  BlockLen,     \* SYNC_DATA_MAX, what a reader returns at once
  PayloadLen,   \* adb_max_payload
  MaxPending,   \* bound on the writes not yet signalled when a message is received
  MaxFaults     \* bound on cancelled jobs, disconnections, failing readers and writes

ASSUME AdbAssumption ==
  /\ Links \subseteq {"tcp", "usb"}
  /\ Sizes \union {BlockLen, PayloadLen} \subseteq Nat \ {0}
  /\ \E n \in Sizes : \A m \in Sizes : n >= m
  /\ {FileLen, MaxPending, MaxFaults} \subseteq Nat
  /\ Kinds \in Seq(SUBSET {"ram", "part", "shell", "long", "quiet", "reboot", "unknown"})

Job == DOMAIN Kinds         \* a job is also its socket number on the host
Sock == 1 .. Max(Sizes)
Least(a, b) == IF a < b THEN a ELSE b

VARIABLES
  dev,      \* the device: messages, sockets, services
  main,     \* packets that the message being handled still has to send
  up,       \* messages of the host on their way
  host,     \* job -> its kind, progress, socket on the device and data received
  ready,    \* whether the host has seen the answer to its connection
  garbled,  \* whether the host read something else than messages with their payloads
  patient,  \* whether the host does one job at a time and cancels none
  faults    \* what went wrong, a set of "drop", "cancel", "send" and readers' errors

vars == <<dev, main, up, host, ready, garbled, patient, faults>>

----------------------------------------------------------------------------
(* Packets, adb.c *)

Body(k, v) == [k |-> k, v |-> v]
NoBody == Body("none", <<>>)
Pkt(cmd, l, r, b) == [t |-> "msg", cmd |-> cmd, l |-> l, r |-> r, b |-> b]

\* adb_send_pkt, before and with its write.  There is one place for a payload
\* that waits for an event.
Prepare(d, p) ==
  IF p.b = NoBody THEN d
  ELSE [d EXCEPT !.delayed = <<p>>]

TransportWrite(d, p) ==
  IF d.up THEN [d EXCEPT !.down = Append(@, p), !.txn = @ + 1] ELSE d

AdbSendPkt(d, p) == TransportWrite(Prepare(d, p), p)

\* Mutant: the payload that was sent is not forgotten.
AdbProcessTxAgain(d) ==
  LET d1 == [d EXCEPT !.txn = @ - 1]
  IN IF d.delayed = <<>> THEN d1 ELSE TransportWrite(d1, [d.delayed[1] EXCEPT !.t = "payload"])

\* adb_process_tx
AdbProcessTx(d) ==
  LET d1 == [d EXCEPT !.txn = @ - 1]
  IN IF d.delayed = <<>> THEN d1
     ELSE TransportWrite([d1 EXCEPT !.delayed = <<>>], [d.delayed[1] EXCEPT !.t = "payload"])

\* A handler changes the device and sends packets.
Effect(d, out) == [d |-> d, out |-> out]

----------------------------------------------------------------------------
(* Sync service, sync_service.c, and the reader of the memory, reader.c *)

AsockWrite(s, d, b) == Pkt("WRTE", s, d.socks[s].remote, b)
SendOkay(s, d) == Pkt("OKAY", s, d.socks[s].remote, NoBody)
SendClose(s, d) == Pkt("CLSE", s, d.socks[s].remote, NoBody)

\* reader_open, memory_open: there is one reader of the memory, taken before
\* the memory map is read.  err is what fails: nothing, an open or a read.
ReaderOpens(d, file, err) == err # "open" /\ (file = "ram" => ~d.inuse)
ReaderOpen(d, file) == [d EXCEPT !.inuse = @ \/ file = "ram"]
ReaderClose(d, c) == [d EXCEPT !.inuse = @ /\ d.ctx[c].file # "ram"]

SendDone(s, d, c) ==
  Effect([ReaderClose(d, c) EXCEPT !.ctx[c].state = "ESTABLISHED"],
         <<AsockWrite(s, d, Body("done", <<>>))>>)

\* Mutant: the next block is read when less than a whole part is left of this one.
SendMoreDataShort(s, d, c, err) ==
  LET x == d.ctx[c]
      n == Least(BlockLen, FileLen - x.off)
      k == Least(PayloadLen, x.len - x.cur)
  IN IF x.more
     THEN IF n = 0 THEN SendDone(s, d, c)
          ELSE Effect([d EXCEPT !.ctx[c].len = n, !.ctx[c].cur = 0, !.ctx[c].more = FALSE,
                                !.ctx[c].off = @ + n],
                      <<AsockWrite(s, d, Body("data", <<n>>))>>)
     ELSE Effect([d EXCEPT !.ctx[c].cur = @ + k, !.ctx[c].more = x.len - x.cur - k < PayloadLen],
                 <<AsockWrite(s, d, Body("part",
                     [i \in 1 .. k |-> x.off - x.len + x.cur + i]))>>)

\* send_more_data: the length of a block, then the block in parts.
SendMoreData(s, d, c, err) ==
  LET x == d.ctx[c]
      n == Least(BlockLen, FileLen - x.off)
      k == Least(PayloadLen, x.len - x.cur)
  IN IF x.more
     THEN IF err = "read" THEN Effect([d EXCEPT !.silent = TRUE], <<>>)
          ELSE IF n = 0 THEN SendDone(s, d, c)
          ELSE Effect([d EXCEPT !.ctx[c].len = n, !.ctx[c].cur = 0, !.ctx[c].more = FALSE,
                                !.ctx[c].off = @ + n],
                      <<AsockWrite(s, d, Body("data", <<n>>))>>)
     ELSE Effect([d EXCEPT !.ctx[c].cur = @ + k, !.ctx[c].more = x.cur + k = x.len],
                 <<AsockWrite(s, d, Body("part",
                     [i \in 1 .. k |-> x.off - x.len + x.cur + i]))>>)

SyncServiceOkay(s, d, err) ==
  LET c == d.socks[s].ctx
  IN IF d.ctx[c].state = "SENDING_DATA" THEN SendMoreData(s, d, c, err) ELSE Effect(d, <<>>)

\* Mutant: nothing is said of a file that cannot be opened.
SyncServiceStatSilent(s, d, c, file, err) ==
  LET d1 == [d EXCEPT !.ctx[c].state = "ESTABLISHED"]
  IN IF ReaderOpens(d, file, err)
     THEN Effect(d1, <<SendOkay(s, d), AsockWrite(s, d, Body("stat", <<1>>))>>)
     ELSE Effect(d1, <<SendOkay(s, d)>>)

\* sync_service_stat, sync_service_recv: once the name is there
SyncServiceStat(s, d, c, file, err) ==
  LET d1 == [d EXCEPT !.ctx[c].state = "ESTABLISHED"]
      found == ReaderOpens(d, file, err)
  IN Effect(IF found \/ err = "none" THEN d1 ELSE ReaderOpen(d1, file),
            <<SendOkay(s, d), AsockWrite(s, d, Body("stat", IF found THEN <<1>> ELSE <<>>))>>)

SyncServiceRecv(s, d, c, file, err) ==
  IF ~ReaderOpens(d, file, err)
  THEN Effect([IF err = "none" THEN d ELSE ReaderOpen(d, file) EXCEPT !.silent = TRUE],
              <<SendOkay(s, d)>>)
  ELSE LET d1 == [ReaderOpen(d, file) EXCEPT
                    !.ctx[c] = [state |-> "SENDING_DATA", file |-> file, off |-> 0,
                                cur |-> 0, len |-> 0, more |-> TRUE]]
           e == SendMoreData(s, d1, c, err)
       IN Effect(e.d, <<SendOkay(s, d)>> \o e.out)

\* sync_service_read: a request may come with the name, or ahead of it.
SyncServiceRead(s, d, b, err) ==
  LET c == d.socks[s].ctx
      st == d.ctx[c].state
  IN CASE st = "ESTABLISHED" /\ b.k \in {"STAT", "RECV"} /\ b.v = <<>> ->
            Effect([d EXCEPT !.ctx[c].state = b.k], <<SendOkay(s, d)>>)
       [] st = "ESTABLISHED" /\ b.k = "STAT" /\ b.v # <<>> -> SyncServiceStat(s, d, c, b.v[1], err)
       [] st = "ESTABLISHED" /\ b.k = "RECV" /\ b.v # <<>> ->
            SyncServiceRecv(s, [d EXCEPT !.ctx[c].state = "RECV"], c, b.v[1], err)
       [] st = "STAT" -> SyncServiceStat(s, d, c, b.v[1], err)
       [] st = "RECV" -> SyncServiceRecv(s, d, c, b.v[1], err)
       [] OTHER -> Effect(d, <<SendClose(s, d)>>)     \* QUIT too

\* Mutant: the reader of an unfinished transfer is not closed.
SyncServiceCloseLeaky(s, d) == [d EXCEPT !.ctx[d.socks[s].ctx].state = "FREE"]

SyncServiceClose(s, d) ==
  LET c == d.socks[s].ctx
      d1 == IF d.ctx[c].state = "SENDING_DATA" THEN ReaderClose(d, c) ELSE d
  IN [d1 EXCEPT !.ctx[c].state = "FREE"]

\* sync_service_open takes the last free context.
FreeContexts(d) == {c \in 1 .. d.size : d.ctx[c].state = "FREE"}
LastFree(d) == CHOOSE c \in FreeContexts(d) : \A x \in FreeContexts(d) : x <= c

----------------------------------------------------------------------------
(* Sockets, adb_socket.c *)

Used(d, s) == d.socks[s].remote # 0
FreeSockets(d) == {s \in 1 .. d.size : ~Used(d, s)}
NoSocket == [remote |-> 0, service |-> "none", ctx |-> 0]

Service(job) == IF job \in {"ram", "part"} THEN "sync"
                ELSE IF job \in {"shell", "long", "quiet"} THEN "shell" ELSE job
Services == {"sync", "shell", "reboot"}

RebootServiceReady(d) == Effect([d EXCEPT !.exit_bt = TRUE], <<>>)
ShellServiceOkay(s, d) == Effect(d, <<SendClose(s, d)>>)

\* service->ready: a shell command runs at once; its output goes in one packet,
\* and fails the socket when it does not fit.
ServiceReady(s, d, arg) ==
  CASE arg = "shell" -> Effect(d, <<AsockWrite(s, d, Body("text", <<>>))>>)
    [] arg = "quiet" -> Effect(d, <<SendClose(s, d)>>)
    [] arg = "reboot" -> RebootServiceReady(d)
    [] arg = "long" -> Effect([d EXCEPT !.socks[s] = NoSocket],
                              <<Pkt("CLSE", 0, d.socks[s].remote, NoBody)>>)
    [] OTHER -> Effect(d, <<>>)

\* err is "send" when the link refuses the OKAY: the service is closed again.
AsockOpen(d, remote, arg, err) ==
  LET s == CHOOSE x \in FreeSockets(d) : \A y \in FreeSockets(d) : x <= y
      c == IF Service(arg) = "sync" THEN LastFree(d) ELSE 0
      d1 == [d EXCEPT !.socks[s] = [remote |-> remote, service |-> Service(arg), ctx |-> c]]
      d2 == IF c = 0 THEN d1 ELSE [d1 EXCEPT !.ctx[c].state = "ESTABLISHED"]
      e == ServiceReady(s, d2, arg)
  IN IF Service(arg) \notin Services \/ FreeSockets(d) = {}
        \/ (Service(arg) = "sync" /\ FreeContexts(d) = {}) \/ err = "send"
     THEN Effect(d, <<Pkt("CLSE", 0, remote, NoBody)>>)
     ELSE Effect(e.d, <<SendOkay(s, d2)>> \o e.out)

AsockClose(d, s) ==
  LET d1 == IF d.socks[s].service = "sync" THEN SyncServiceClose(s, d) ELSE d
  IN [d1 EXCEPT !.socks[s] = NoSocket]

\* asock_find
Found(d, m) == m.l \in Sock /\ Used(d, m.l) /\ d.socks[m.l].remote = m.r

AsockOkay(d, s, err) ==
  CASE d.socks[s].service = "sync" -> SyncServiceOkay(s, d, err)
    [] d.socks[s].service = "shell" -> ShellServiceOkay(s, d)
    [] OTHER -> Effect(d, <<>>)

AsockRead(d, s, b, err) ==
  IF d.socks[s].service = "sync" THEN SyncServiceRead(s, d, b, err) ELSE Effect(d, <<>>)

----------------------------------------------------------------------------
(* Messages, adb.c *)

\* HANDLERS.  m.l is the number of the socket on the device, m.r on the host.
Handle(d, m, err) ==
  CASE m.cmd = "CNXN" -> Effect(d, <<Pkt("CNXN", 0, 0, Body("system", <<>>))>>)
    [] m.cmd = "OPEN" -> AsockOpen(d, m.r, m.b.k, err)
    [] m.cmd = "OKAY" /\ Found(d, m) -> AsockOkay(d, m.l, err)
    [] m.cmd = "CLSE" /\ Found(d, m) -> Effect(AsockClose(d, m.l), <<>>)
    [] m.cmd = "WRTE" /\ Found(d, m) -> AsockRead(d, m.l, m.b, err)
    [] OTHER -> Effect(d, <<>>)

Busy == main # <<>>
\* An event of TCP comes at any time, one of USB when the main loop asks.
Event == dev.link = "tcp" \/ ~Busy

\* The link and the readers fail a patient host, the other one cancels: jobs that
\* overlap and failures are taken one at a time.
CanFault(f) == Cardinality(faults) < MaxFaults /\ (f = "cancel" <=> ~patient)
\* The errors that matter to a message
Errors(m) == {"none"} \union {err \in {"open", "read", "send"} :
                               CanFault(err) /\ Handle(dev, m, err) # Handle(dev, m, "none")}
Count(f) == faults' = faults \union ({f} \ {"none"})

\* adb_process_rx: OKAY is answered in the event, before the next read.
AdbProcessRx ==
  /\ Event
  /\ dev.up /\ dev.state \in {"READ_MSG", "READ_MSG_PAYLOAD"} /\ up # <<>>
  /\ dev.txn <= MaxPending
  /\ LET m == Head(up)
     IN \/ /\ dev.state = "READ_MSG" /\ m.b # NoBody
           /\ dev' = [dev EXCEPT !.state = "READ_MSG_PAYLOAD"]
           /\ UNCHANGED <<up, faults>>
        \/ /\ dev.state = "READ_MSG" /\ m.cmd = "OKAY"
           /\ up' = Tail(up)
           /\ \E err \in Errors(m) :
                LET e == Handle(dev, m, err)
                IN Count(err) /\ dev' = IF e.out = <<>> THEN e.d ELSE AdbSendPkt(e.d, e.out[1])
        \/ /\ IF dev.state = "READ_MSG" THEN m.b = NoBody /\ m.cmd # "OKAY" ELSE TRUE
           /\ up' = Tail(up)
           /\ dev' = [dev EXCEPT !.state = "PROCESS_MSG", !.msg = <<m>>]
           /\ UNCHANGED faults
  /\ UNCHANGED <<main, host, ready, garbled, patient>>

TxEvent ==
  /\ Event
  /\ dev.txn > 0
  /\ dev' = AdbProcessTx(dev)
  /\ UNCHANGED <<main, up, host, ready, garbled, patient, faults>>

\* process_msg, up to the first packet it sends; adb_read_msg comes after the last.
AdbReadMsg(d) == [d EXCEPT !.state = "READ_MSG", !.msg = <<>>]

ProcessMsg ==
  /\ ~Busy /\ dev.state = "PROCESS_MSG" /\ ~dev.exit_bt
  /\ \E err \in Errors(dev.msg[1]) :
       LET e == Handle(dev, dev.msg[1], err)
       IN /\ Count(err)
          /\ dev' = IF e.out = <<>> THEN AdbReadMsg(e.d) ELSE e.d
          /\ main' = e.out
  /\ UNCHANGED <<up, host, ready, garbled, patient>>

\* The two halves of adb_send_pkt, between which an event may come.
SendStep ==
  /\ Busy
  /\ LET p == Head(main)
         d == TransportWrite([dev EXCEPT !.prepared = FALSE], p)
     IN IF p.b # NoBody /\ ~dev.prepared
        THEN dev' = [Prepare(dev, p) EXCEPT !.prepared = TRUE] /\ UNCHANGED main
        ELSE dev' = (IF Len(main) = 1 THEN AdbReadMsg(d) ELSE d) /\ main' = Tail(main)
  /\ UNCHANGED <<up, host, ready, garbled, patient, faults>>

\* The crash menu leaves when a boot target is set: adb_exit.
AsockCloseAll(d) ==
  LET open == {d.socks[s].ctx : s \in {x \in Sock : d.socks[x].service = "sync"}}
  IN [d EXCEPT !.socks = [s \in Sock |-> NoSocket],
               !.inuse = @ /\ \A c \in open : d.ctx[c].state = "SENDING_DATA" => d.ctx[c].file # "ram",
               !.ctx = [c \in Sock |-> IF c \in open THEN [@[c] EXCEPT !.state = "FREE"] ELSE @[c]]]

AdbExit ==
  /\ ~Busy /\ dev.exit_bt /\ dev.state # "EXITED"
  /\ dev' = [AsockCloseAll(dev) EXCEPT !.state = "EXITED", !.msg = <<>>, !.up = FALSE,
                                       !.down = <<>>, !.txn = 0]
  /\ up' = <<>>
  /\ host' = [j \in Job |-> [host[j] EXCEPT !.pc = "lost"]]
  /\ UNCHANGED <<main, ready, garbled, patient, faults>>

----------------------------------------------------------------------------
(* The host *)

NoJob == [kind |-> "", pc |-> "new", sock |-> 0, got |-> <<>>, left |-> 0, fin |-> FALSE]
Ended == {"closed", "lost"}

Init ==
  /\ \E link \in Links, size \in Sizes :
       dev = [link |-> link, size |-> size, up |-> FALSE, state |-> "READ_MSG", msg |-> <<>>,
              delayed |-> <<>>, prepared |-> FALSE, down |-> <<>>, txn |-> 0, inuse |-> FALSE,
              exit_bt |-> FALSE, silent |-> FALSE,
              socks |-> [s \in Sock |-> NoSocket],
              ctx |-> [c \in Sock |-> [state |-> "FREE", file |-> "", off |-> 0,
                                       cur |-> 0, len |-> 0, more |-> FALSE]]]
  /\ main = <<>> /\ up = <<>>
  /\ host = [j \in Job |-> NoJob]
  /\ ready = FALSE /\ garbled = FALSE
  /\ patient \in BOOLEAN
  /\ faults = {}

\* The link comes up: adb_read_msg is its start callback; nothing else is reset.
Connect ==
  /\ ~dev.up /\ ~Busy /\ dev.state # "EXITED"
  /\ dev' = [AdbReadMsg(dev) EXCEPT !.up = TRUE]
  /\ up' = <<Pkt("CNXN", 0, 0, Body("host", <<>>))>>
  /\ UNCHANGED <<main, host, ready, garbled, patient, faults>>

\* The host goes away; the device notices while it waits for a message.
Drop ==
  /\ CanFault("drop") /\ Count("drop")
  /\ dev.up /\ ~Busy /\ dev.state \in {"READ_MSG", "READ_MSG_PAYLOAD"}
  /\ dev' = [dev EXCEPT !.up = FALSE, !.down = <<>>, !.txn = 0]
  /\ up' = <<>> /\ ready' = FALSE /\ garbled' = FALSE
  /\ host' = [j \in Job |-> IF host[j].pc = "new" THEN NoJob ELSE [host[j] EXCEPT !.pc = "lost"]]
  /\ UNCHANGED <<main, patient>>

Tell(m) == up' = Append(up, m)
FromHost(j, cmd, b) == Pkt(cmd, host[j].sock, j, b)

Open(j) ==
  /\ ready /\ ~garbled /\ host[j].pc = "new"
  /\ patient => \A i \in Job : host[i].pc \in Ended \union {"new"}
  /\ j > 1 => host[j - 1].pc # "new"
  /\ \E k \in Kinds[j] :
       /\ host' = [host EXCEPT ![j].pc = "opening", ![j].kind = k]
       /\ Tell(FromHost(j, "OPEN", Body(k, <<>>)))
  /\ UNCHANGED <<dev, main, ready, garbled, patient, faults>>

\* A request of sync, with its name or (for a partition) ahead of it, or the end
\* of the session.
Ask(j) ==
  /\ ~garbled
  /\ \/ \E r \in {"STAT", "RECV"} :
          /\ host[j].pc = r
          /\ \/ /\ host[j].kind = "ram"
                /\ Tell(FromHost(j, "WRTE", Body(r, <<host[j].kind>>)))
                /\ host' = [host EXCEPT ![j].pc = "wait"]
             \/ /\ host[j].kind = "part"
                /\ Tell(FromHost(j, "WRTE", Body(r, <<>>)))
                /\ host' = [host EXCEPT ![j].pc = "name"]
     \/ /\ host[j].pc = "quit"
        /\ Tell(FromHost(j, "WRTE", Body("QUIT", <<>>)))
        /\ host' = [host EXCEPT ![j].pc = "wait"]
  /\ UNCHANGED <<dev, main, ready, garbled, patient, faults>>

Cancel(j) ==
  /\ ~garbled /\ CanFault("cancel") /\ Count("cancel")
  /\ host[j].pc \notin Ended \union {"new", "opening"}
  /\ host' = [host EXCEPT ![j].pc = "closed"]
  /\ Tell(FromHost(j, "CLSE", NoBody))
  /\ UNCHANGED <<dev, main, ready, garbled, patient>>

\* What the host makes of a packet p for one of its jobs.
Accept(h, p) ==
  CASE p.cmd = "OKAY" /\ h.pc = "opening" ->
         [h EXCEPT !.sock = p.l, !.pc = IF Service(h.kind) = "sync" THEN "STAT" ELSE "wait"]
    [] p.cmd = "OKAY" /\ h.pc = "name" -> [h EXCEPT !.pc = "wait"]
    [] p.b.k = "stat" -> [h EXCEPT !.pc = IF p.b.v = <<1>> THEN "RECV" ELSE "quit"]
    [] p.b.k = "data" -> [h EXCEPT !.left = p.b.v[1]]
    [] p.b.k = "part" -> [h EXCEPT !.got = @ \o p.b.v, !.left = @ - Len(p.b.v)]
    [] p.b.k = "done" -> [h EXCEPT !.pc = "quit", !.fin = TRUE]
    [] p.cmd = "CLSE" -> [h EXCEPT !.pc = "closed"]
    [] OTHER -> h

Reply(h, j, p) ==
  CASE p.cmd = "OKAY" /\ h.pc = "name" -> <<FromHost(j, "WRTE", Body("NAME", <<h.kind>>))>>
    [] p.cmd = "WRTE" -> <<FromHost(j, "OKAY", NoBody)>>
    [] p.cmd = "CLSE" /\ h.sock # 0 -> <<FromHost(j, "CLSE", NoBody)>>
    [] OTHER -> <<>>

HostRead ==
  /\ dev.down # <<>> /\ ~garbled
  /\ LET p == Head(dev.down)
         n == IF p.b = NoBody THEN 1 ELSE 2
         bad == \/ p.t = "payload"
                \/ n = 2 /\ dev.down[2] # [p EXCEPT !.t = "payload"]
         known == p.r \in Job /\ host[p.r].pc \notin Ended \union {"new"}
     IN /\ Len(dev.down) >= n \/ p.t = "payload"
        /\ IF bad THEN garbled' = TRUE /\ UNCHANGED <<dev, up, host, ready>>
           ELSE /\ dev' = [dev EXCEPT !.down = SubSeq(@, n + 1, Len(@))]
                /\ ready' = (ready \/ p.cmd = "CNXN")
                /\ IF known
                   THEN /\ host' = [host EXCEPT ![p.r] = Accept(@, p)]
                        /\ up' = up \o Reply(host[p.r], p.r, p)
                   ELSE UNCHANGED <<up, host>>
                /\ UNCHANGED garbled
  /\ UNCHANGED <<main, patient, faults>>

Device == AdbProcessRx \/ TxEvent \/ ProcessMsg \/ SendStep \/ AdbExit
HostStep == HostRead \/ \E j \in Job : Ask(j)
Next == Device \/ HostStep \/ Connect \/ Drop \/ \E j \in Job : Open(j) \/ Cancel(j)

Spec == Init /\ [][Next]_vars
FairSpec == Spec /\ WF_vars(Device \/ HostStep)

----------------------------------------------------------------------------
(* Properties *)

\* Over USB, a host that does one job at a time reads every payload right after
\* the message that announces it, and no payload twice (delayed_pkt_data).
PayloadsFollow == patient /\ dev.link = "usb" => ~garbled

\* What a pull has received is the beginning of the file, in order, and all of it
\* when the device says DONE (send_more_data, with its blocks and parts).
PullIntact ==
  \A j \in Job :
    /\ \A i \in DOMAIN host[j].got : host[j].got[i] = i
    /\ host[j].fin => Len(host[j].got) = FileLen /\ host[j].left = 0

\* Each context of sync belongs to one socket, and an idle one to none; the reader
\* of the memory is taken by at most one transfer, and by one whenever it is
\* taken, until a failure to read the memory map (asock_open, asock_close,
\* sync_service_close, memory_open).  When every job is over and nothing is on its
\* way, no socket is left open, however the jobs ended (done, refused, cancelled),
\* unless the host went away.
ResourcesOwned ==
  /\ \A c \in Sock :
       Cardinality({s \in Sock : dev.socks[s].ctx = c}) = IF dev.ctx[c].state = "FREE" THEN 0 ELSE 1
  /\ LET users == {c \in Sock : dev.ctx[c].state = "SENDING_DATA" /\ dev.ctx[c].file = "ram"}
     IN /\ Cardinality(users) <= (IF dev.inuse THEN 1 ELSE 0)
        /\ faults \intersect {"open", "read"} = {} => (dev.inuse <=> users # {})
  /\ (/\ "drop" \notin faults /\ up = <<>> /\ dev.down = <<>> /\ ~Busy
      /\ dev.state = "READ_MSG"
      /\ \A j \in Job : host[j].pc \in {"new", "closed"})
     => \A s \in Sock : ~Used(dev, s)

\* A host that does one job at a time over USB sees each job end, unless a reader
\* failed: then the device says nothing more (sync_service_recv, send_more_data).
JobsEnd ==
  <>[](patient /\ dev.link = "usb" /\ ~dev.silent
         => \A j \in Job : host[j].pc \in Ended \union {"new"})
====
