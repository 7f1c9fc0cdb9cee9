------------------------------ MODULE Fastboot ------------------------------
(***************************************************************************)
(* Fastboot between a host and the device: the command engine              *)
(* (libfastboot/fastboot.c), its framing over TCP                          *)
(* (libfastboot/fastboot_transport.c) and the two links, TCP               *)
(* (libefitcp/tcp.c) and USB (libefiusb/usb.c).                            *)
(*                                                                         *)
(* The engine runs a command in the main loop of fastboot_start.  The      *)
(* events of the TCP link are notified at TPL_CALLBACK and interrupt the   *)
(* main loop, in the middle of a command too; the ones of the USB link     *)
(* are raised by usb_run, between two commands.                            *)
(*                                                                         *)
(* Lengths count small units of data.  A unit of the stream of the host is *)
(* [k, v]: a part of the protocol version, of the size of a frame, of a    *)
(* command or of a download.  Only a host that follows the protocol is     *)
(* modelled; it may disconnect and come back at any time.                  *)
(***************************************************************************)
EXTENDS Naturals, Sequences

CONSTANTS
  Links,          \* the links to consider: subset of {"tcp", "usb"}
  MaxToken,       \* MAX_TOKEN of tcp.c
  FragSize,       \* RX_FRAG_SIZE, the largest part of a read
  Block,          \* BLK_DOWNLOAD, the largest USB read
  SizeLen,        \* length of the size in front of a TCP frame
  MaxSize,        \* dl.max_size, room of the download buffer
  Commands,       \* the commands of the host: set of [name, n]
  MaxCommands,    \* bound on the commands of a behaviour
  MaxDrops        \* bound on the disconnections

CmdSize == 2      \* room of the command buffer; a command takes less

\* One command of each shape; "overlong" has too many arguments.
CommandNames ==
  {"flash", "getvar-all", "reboot", "boot", "set_active", "download", "unknown", "overlong"}

ASSUME FastbootAssumption ==
  /\ Links \subseteq {"tcp", "usb"}
  /\ {MaxToken, FragSize, Block, SizeLen, MaxSize} \subseteq Nat \ {0}
  /\ {MaxCommands, MaxDrops} \subseteq Nat
  /\ Commands \subseteq [name : CommandNames, n : Nat]

VARIABLES
  dev,    \* the device: engine, framing and link
  main,   \* the main loop: [pc, ops, msg]
  up,     \* units sent by the host and not received yet
  host,   \* the host: [pc, log, left, loaded]
  drops   \* number of disconnections

vars == <<dev, main, up, host, drops>>

Least(a, b) == IF a < b THEN a ELSE b
Sum(s) ==
  LET sum[n \in 0 .. Len(s)] == IF n = 0 THEN 0 ELSE sum[n - 1] + s[n] IN sum[Len(s)]
Done(d) == [d |-> d, ok |-> TRUE]
Refused(d) == [d |-> d, ok |-> FALSE]

----------------------------------------------------------------------------
(* The TCP link, tcp.c *)

Closing(d) == [d EXCEPT !.rx.receiving = FALSE, !.conn = "closing"]

\* request_data: one more receive token for the stack.
RequestData(d, max) ==
  LET size == Least(max, FragSize)
  IN IF d.conn = "up"
     THEN [d EXCEPT !.rx.requested = @ + size, !.rxq = Append(@, size)]
     ELSE Closing(d)

\* tcp_read: the tokens that cover size, MaxToken at most.  When Receive fails
\* request_data returns the status of Close, so that the failure of a read of
\* one token is not seen.
TcpRead(d, buf, size) ==
  LET full == (size - 1) \div FragSize
      n == Least(MaxToken, full + 1)
      part(i) == IF i <= full THEN FragSize ELSE size - full * FragSize
      rx == [buf |-> buf, size |-> size, received |-> 0, receiving |-> TRUE,
             requested |-> Least(size, MaxToken * FragSize)]
  IN IF d.rx.receiving THEN Refused(d)
     ELSE IF d.conn = "up"
     THEN Done([d EXCEPT !.rx = rx, !.rxq = @ \o [i \in 1 .. n |-> part(i)]])
     ELSE [d |-> Closing([d EXCEPT !.rx = rx, !.dangling = @ \/ d.conn = "listen"]),
           ok |-> d.conn \in {"fin", "reset"} /\ n = 1]

\* tcp_write: a peer that only closed its side can still be written to.
TcpWrite(d, msg) ==
  LET d1 == [d EXCEPT !.tx[d.nexttx] = TRUE, !.nexttx = (@ + 1) % MaxToken,
                      !.dangling = @ \/ d.conn = "listen"]
  IN IF d.tx[d.nexttx] THEN Refused(d)
     ELSE IF d.conn \in {"up", "fin"}
     THEN Done([d1 EXCEPT !.txq = Append(@, d.nexttx), !.down = Append(@, msg)])
     ELSE Refused(d1)

----------------------------------------------------------------------------
(* The framing over TCP, fastboot_transport.c, and the USB link, usb.c *)

FastbootTcpWrite(d, msg) ==
  IF d.ts # "READY" THEN Refused(d) ELSE TcpWrite(d, msg)

FastbootTcpRead(d, buf, size) ==
  IF d.ts # "READY" THEN Refused(d)
  ELSE TcpRead([d EXCEPT !.frx = [buf |-> buf, size |-> size, used |-> 0],
                         !.ts = "WAITING_DATA_SIZE"],
               [at |-> "size", off |-> 0], SizeLen)

\* usb_write, usb_read: queue a request; nothing is accepted while unplugged.
UsbWrite(d, msg) ==
  IF d.conn # "up" THEN Refused(d)
  ELSE Done([d EXCEPT !.txq = Append(@, 0), !.down = Append(@, msg)])

UsbRead(d, buf, size) ==
  IF d.conn # "up" THEN Refused(d)
  ELSE Done([d EXCEPT !.rx.buf = buf, !.rxq = Append(@, Least(Block, size))])

\* transport_write, transport_read
TransportWrite(d, msg) ==
  IF d.link = "tcp" THEN FastbootTcpWrite(d, msg) ELSE UsbWrite(d, msg)

TransportRead(d, buf, size) ==
  IF d.link = "tcp" THEN FastbootTcpRead(d, buf, size) ELSE UsbRead(d, buf, size)

----------------------------------------------------------------------------
(* The engine, fastboot.c *)

Message(d, code) == [code |-> code, id |-> d.cmd]

\* The write that ends fastboot_ack, flush_tx_buffer and cmd_download.
Written(d, msg) ==
  LET w == TransportWrite(d, msg)
  IN IF w.ok THEN w.d ELSE [w.d EXCEPT !.fb = "ERROR"]

AckBufferedAtHead(d, code) ==
  [d EXCEPT !.txbuf = <<Message(d, code)>> \o @, !.fb = "TX"]

AckBuffered(d, code) ==
  [d EXCEPT !.txbuf = Append(@, Message(d, code)), !.fb = "TX"]

\* fastboot_ack: the state changes before the write, whose completion may come
\* before the write returns.
AckState(d) == [d EXCEPT !.fb = d.next]

Ack(d, code) ==
  IF d.fb = "TX" THEN AckBuffered(d, code)
  ELSE Written(AckState(d), Message(d, code))

\* flush_tx_buffer, up to its write
PopTx(d) ==
  [d EXCEPT !.txbuf = Tail(@), !.fb = IF Len(d.txbuf) = 1 THEN d.next ELSE @]

FlushTxBuffer(d) == Written(PopTx(d), Head(d.txbuf))

ReadCommand(d) == TransportRead(d, [at |-> "cmd", off |-> 0], CmdSize).d

WorkerDownload(d) ==
  LET r == TransportRead(d, [at |-> "dl", off |-> 0], d.dlsize)
  IN IF r.ok THEN [r.d EXCEPT !.fb = "DOWNLOAD"] ELSE Ack(r.d, "FAIL")

FastbootProcessTx(d) ==
  CASE d.fb = "STOPPING" -> [d EXCEPT !.fb = "STOPPED"]
    [] d.fb = "TX" -> FlushTxBuffer(d)
    [] d.fb = "COMPLETE" -> ReadCommand(d)
    [] d.fb = "START_DOWNLOAD" -> WorkerDownload(d)
    [] OTHER -> [d EXCEPT !.astray = TRUE]

FastbootProcessRxInPlace(d, buf, len) ==
  IF d.fb = "DOWNLOAD" /\ d.recv + len < d.dlsize
  THEN TransportRead([d EXCEPT !.recv = @ + len], buf, d.dlsize - d.recv - len).d
  ELSE IF d.fb = "DOWNLOAD" THEN Ack([d EXCEPT !.fb = "COMPLETE"], "OKAY")
  ELSE [d EXCEPT !.fb = "COMMAND"]

FastbootProcessRx(d, buf, len) ==
  CASE d.fb = "DOWNLOAD" ->
         LET d1 == [d EXCEPT !.recv = @ + len]
         IN IF d1.recv < d.dlsize
            THEN TransportRead(d1, [buf EXCEPT !.off = @ + len], d.dlsize - d1.recv).d
            ELSE Ack([d1 EXCEPT !.fb = "COMPLETE"], "OKAY")
    [] d.fb = "COMPLETE" ->
         IF buf.at # "cmd" \/ len >= CmdSize THEN Ack(d, "FAIL")
         ELSE [d EXCEPT !.fb = "COMMAND"]
    [] OTHER -> [d EXCEPT !.astray = TRUE]

FastbootStartCallbackNoRead(d) == AckState(d)

FastbootStartCallback(d) == ReadCommand(AckState(d))

\* fastboot_stop
FastbootStop(d) ==
  IF d.fb = "COMPLETE" THEN [d EXCEPT !.fb = "STOPPED"]
  ELSE [d EXCEPT !.next = "STOPPING"]

----------------------------------------------------------------------------
(* What the events of the links do *)

\* The units received for a buffer, stored from off on.
Store(d, buf, off, units) ==
  LET d1 == [d EXCEPT !.astray = @ \/ \E i \in DOMAIN units : units[i].k # buf.at]
      at == buf.off + off
  IN CASE buf.at = "cmd" -> [d1 EXCEPT !.cmd = IF units[1].k = "cmd" THEN units[1].v ELSE 0]
       [] buf.at = "size" -> [d1 EXCEPT !.remaining = units[1].v]
       [] buf.at = "dl" ->
            [d1 EXCEPT !.dl = [i \in 1 .. MaxSize |->
                IF i \in at + 1 .. at + Len(units) THEN units[i - at].v ELSE @[i]]]
       [] OTHER -> d1

\* transport_tcp_rx_cb: the version of the host, the size of a frame, its data.
TransportTcpRxCb(d, size) ==
  CASE d.ts = "INITIALIZING" ->
         FastbootStartCallback([d EXCEPT !.remaining = 0, !.ts = "READY"])
    [] d.ts = "WAITING_DATA_SIZE" ->
         TcpRead([d EXCEPT !.ts = "WAITING_DATA"],
                 d.frx.buf, Least(d.frx.size, d.remaining)).d
    [] d.ts = "WAITING_DATA" ->
         LET used == d.frx.used + size
             d1 == [d EXCEPT !.frx.used = used, !.remaining = @ - size]
         IN IF used > d.frx.size \/ size > d.remaining THEN [d EXCEPT !.ts = "ERROR"]
            ELSE IF used = d.frx.size \/ d1.remaining = 0
            THEN FastbootProcessRx([d1 EXCEPT !.ts = "READY"], d.frx.buf, used)
            ELSE TcpRead(d1, [d.frx.buf EXCEPT !.off = @ + used],
                         Least(d.frx.size - used, d1.remaining)).d
    [] OTHER -> [d EXCEPT !.astray = TRUE]

TransportTcpTxCbAlways(d) == FastbootProcessTx(d)

TransportTcpTxCb(d) == IF d.ts = "READY" THEN FastbootProcessTx(d) ELSE d

DataReceivedAsksTooMuch(d, units) ==
  LET d1 == Store([d EXCEPT !.rxq = Tail(@), !.rx.received = @ + Len(units),
                            !.rx.requested = @ - Head(d.rxq)],
                  d.rx.buf, d.rx.received, units)
      left == d1.rx.size - d1.rx.received
  IN IF left = 0
     THEN TransportTcpRxCb([d1 EXCEPT !.rx.receiving = FALSE], d1.rx.received)
     ELSE RequestData(d1, left)

\* data_received, with data
DataReceived(d, units) ==
  LET d1 == Store([d EXCEPT !.rxq = Tail(@), !.rx.received = @ + Len(units),
                            !.rx.requested = @ - Head(d.rxq)],
                  d.rx.buf, d.rx.received, units)
      left == d1.rx.size - d1.rx.received
      d2 == IF d1.rx.requested < left THEN RequestData(d1, left - d1.rx.requested)
            ELSE d1
  IN IF left = 0
     THEN TransportTcpRxCb([d2 EXCEPT !.rx.receiving = FALSE], d1.rx.received)
     ELSE d2

\* data_sent
DataSent(d) ==
  TransportTcpTxCb([d EXCEPT !.txq = Tail(@), !.tx[Head(d.txq)] = FALSE])

\* data_handler of usb.c, for the two directions
UsbReceived(d, units) ==
  FastbootProcessRx(Store([d EXCEPT !.rxq = Tail(@)], d.rx.buf, 0, units),
                    d.rx.buf, Len(units))
UsbSent(d) == FastbootProcessTx([d EXCEPT !.txq = Tail(@)])

\* connection_accepted and fastboot_tcp_start_cb
ConnectionAccepted(d) ==
  LET w == TcpWrite([d EXCEPT !.conn = "up", !.ts = "INITIALIZING"],
                    [code |-> "VERSION", id |-> 0])
  IN IF w.ok THEN TcpRead(w.d, [at |-> "ver", off |-> 0], 1).d ELSE w.d

----------------------------------------------------------------------------
(* Actions *)

Init ==
  /\ \E link \in Links :
       dev = [link |-> link, conn |-> "listen", fb |-> "OFFLINE", next |-> "COMPLETE",
              txbuf |-> <<>>, recv |-> 0, dlsize |-> 0, dl |-> [i \in 1 .. MaxSize |-> 0],
              cmd |-> 0, ts |-> "OFFLINE", remaining |-> 0,
              frx |-> [buf |-> [at |-> "cmd", off |-> 0], size |-> 0, used |-> 0],
              rx |-> [buf |-> [at |-> "cmd", off |-> 0], size |-> 0, received |-> 0,
                      requested |-> 0, receiving |-> FALSE],
              rxq |-> <<>>, tx |-> [i \in 0 .. MaxToken - 1 |-> FALSE], nexttx |-> 0,
              txq |-> <<>>, down |-> <<>>,
              astray |-> FALSE, dangling |-> FALSE, overtaken |-> FALSE,
              twice |-> FALSE, stale |-> FALSE]
  /\ main = [pc |-> "loop", ops |-> <<>>, msg |-> [code |-> "none", id |-> 0]]
  /\ up = <<>>
  /\ host = [pc |-> "off", log |-> <<>>, left |-> 0, loaded |-> 0]
  /\ drops = 0

\* Only the events of the TCP link interrupt a command.
Event == main.pc = "loop" \/ (dev.link = "tcp" /\ main.pc # "done")

\* The host sends nothing more before it has read the answer, except for the
\* version, so that its data acknowledge what was written: the links signal the
\* completion of those writes first.
Acknowledged == Head(up).k = "ver" \/ Len(dev.txq) <= Len(dev.down)

Receive ==
  /\ Event /\ dev.conn = "up" /\ dev.rxq # <<>> /\ up # <<>> /\ Acknowledged
  /\ \E k \in 1 .. Least(Head(dev.rxq), Len(up)) :
       LET units == SubSeq(up, 1, k)
       IN /\ up' = SubSeq(up, k + 1, Len(up))
          /\ dev' = LET d == IF dev.link = "tcp" THEN DataReceived(dev, units)
                             ELSE UsbReceived(dev, units)
                    IN [d EXCEPT !.overtaken = @ \/ (main.pc # "loop" /\ d.recv # dev.recv)]
  /\ UNCHANGED <<main, host, drops>>

Sent ==
  /\ Event /\ dev.txq # <<>>
  /\ dev' = IF dev.link = "tcp" THEN DataSent(dev) ELSE UsbSent(dev)
  /\ UNCHANGED <<main, up, host, drops>>

ReceiveFinNoClose ==
  /\ Event /\ dev.conn \in {"fin", "reset"} /\ dev.rxq # <<>>
  /\ dev' = [dev EXCEPT !.rxq = <<>>, !.rx.receiving = FALSE]
  /\ UNCHANGED <<main, up, host, drops>>

\* data_received, with EFI_CONNECTION_FIN or an error: every pending token
\* completes this way, and the first one closes the connection.
ReceiveFin ==
  /\ Event /\ dev.conn \in {"fin", "reset"} /\ dev.rxq # <<>>
  /\ dev' = Closing([dev EXCEPT !.rxq = <<>>])
  /\ UNCHANGED <<main, up, host, drops>>

ConnectionClosed ==
  /\ Event /\ dev.conn = "closing" /\ dev.txq = <<>>
  /\ dev' = [dev EXCEPT !.conn = "listen", !.down = <<>>]
  /\ UNCHANGED <<main, up, host, drops>>

\* The command in the command buffer; data taken for one are an unknown command.
Command == IF dev.cmd = 0 THEN [name |-> "unknown", n |-> 0] ELSE host.log[dev.cmd]

\* What the handlers do to the engine, for each of their outcomes.
CmdFlash == {<<"okay">>, <<"fail">>}
CmdGetvarAll == {<<"info", "info", "okay">>}
FastbootReboot == {<<"stop", "okay">>}
CmdBoot == FastbootReboot \union {<<"fail">>}
CmdSetActive == {<<"okay">>, <<"fail", "okay">>, <<"fail", "fail", "okay">>}
CmdDownload(n) == {IF n \in 1 .. MaxSize THEN <<"size", "data">> ELSE <<"size", "fail">>}

\* fastboot_run_cmd: boot and set_active are for unlocked devices.
FastbootRunCmd(c) ==
  CASE c.name = "flash" -> CmdFlash
    [] c.name = "getvar-all" -> CmdGetvarAll
    [] c.name = "reboot" -> FastbootReboot
    [] c.name = "boot" -> CmdBoot \union {<<"fail">>}
    [] c.name = "set_active" -> CmdSetActive \union {<<"fail">>}
    [] c.name = "download" -> CmdDownload(c.n)
    [] c.name = "unknown" -> {<<"fail">>}

\* fastboot_run_command: a command that string_to_argv refuses is not run, and
\* stays in the buffer.
FastbootRunCommand ==
  /\ main.pc = "loop" /\ dev.fb = "COMMAND" /\ Command.name # "overlong"
  /\ \E ops \in FastbootRunCmd(Command) :
       /\ main' = [main EXCEPT !.pc = "run", !.ops = ops \o <<"reset", "flush">>]
       /\ dev' = [dev EXCEPT !.twice = @ \/ (ops[1] = "fail" /\ Len(ops) > 1)]
  /\ UNCHANGED <<up, host, drops>>

\* Where a write follows, it is the next step of the main loop.
ThenWrite(d, msg) ==
  /\ dev' = d
  /\ main' = [pc |-> "write", ops |-> Tail(main.ops), msg |-> msg]

ThenRun(d) ==
  /\ dev' = d
  /\ main' = [main EXCEPT !.ops = Tail(@), !.pc = IF Len(main.ops) = 1 THEN "loop" ELSE "run"]

\* fastboot_okay, fastboot_fail, in a handler
Answer(code) ==
  IF dev.fb = "TX" THEN ThenRun(AckBuffered(dev, code))
  ELSE ThenWrite(AckState(dev), Message(dev, code))

RunStep ==
  /\ main.pc = "run" /\ main.ops # <<>>
  /\ \/ Head(main.ops) = "info" /\ ThenRun(AckBuffered(dev, "INFO"))
     \/ Head(main.ops) = "okay" /\ Answer("OKAY")
     \/ Head(main.ops) = "fail" /\ Answer("FAIL")
     \/ Head(main.ops) = "stop" /\ ThenRun(FastbootStop(dev))
     \/ Head(main.ops) = "size" /\ ThenRun([dev EXCEPT !.dlsize = Command.n])
     \/ /\ Head(main.ops) = "data"
        /\ ThenWrite([dev EXCEPT !.fb = "START_DOWNLOAD"], Message(dev, "DATA"))
     \/ Head(main.ops) = "reset" /\ ThenRun([dev EXCEPT !.recv = 0])
     \/ Head(main.ops) = "flush" /\ dev.fb = "TX" /\ ThenWrite(PopTx(dev), Head(dev.txbuf))
     \/ Head(main.ops) = "flush" /\ dev.fb # "TX" /\ ThenRun(dev)
  /\ UNCHANGED <<up, host, drops>>

WriteStep ==
  /\ main.pc = "write"
  /\ dev' = Written(dev, main.msg)
  /\ main' = [main EXCEPT !.pc = IF main.ops = <<>> THEN "loop" ELSE "run"]
  /\ UNCHANGED <<up, host, drops>>

\* The main loop ends: the engine is stopped, or the user picked another boot
\* target, or no USB host came for five minutes.
Leave ==
  /\ main.pc = "loop" /\ dev.fb = "STOPPED"
  /\ main' = [main EXCEPT !.pc = "done"]
  /\ UNCHANGED <<dev, up, host, drops>>

UserLeaves ==
  /\ main.pc = "loop"
  /\ main' = [main EXCEPT !.pc = "done"]
  /\ UNCHANGED <<dev, up, host, drops>>

----------------------------------------------------------------------------
(* The host *)

Units(k, v, n) == [i \in 1 .. n |-> [k |-> k, v |-> v]]
Frame(units) ==
  IF dev.link = "tcp" THEN Units("size", Len(units), SizeLen) \o units ELSE units

Connect ==
  /\ Event /\ dev.conn = "listen" /\ host.pc = "off"
  /\ \/ /\ dev.link = "tcp"
        /\ dev' = ConnectionAccepted(dev)
        /\ up' = Units("ver", 0, 1)
        /\ host' = [host EXCEPT !.pc = "greet"]
     \/ /\ dev.link = "usb"        \* config_handler
        /\ dev' = FastbootStartCallback([dev EXCEPT !.conn = "up",
                                                    !.stale = @ \/ dev.txbuf # <<>>])
        /\ up' = <<>>
        /\ host' = [host EXCEPT !.pc = "ready"]
  /\ UNCHANGED <<main, drops>>

SendCommand ==
  /\ host.pc = "ready" /\ Len(host.log) < MaxCommands
  /\ \E c \in Commands :
       /\ c.name = "flash" => host.loaded # 0
       /\ host' = [host EXCEPT !.pc = "wait", !.log = Append(@, c),
                               !.loaded = IF c.name = "download" THEN 0 ELSE @]
  /\ up' = up \o Frame(Units("cmd", Len(host.log) + 1, 1))
  /\ UNCHANGED <<dev, main, drops>>

\* The host reads an answer.
Asked == host.log[Len(host.log)]

ReadAnswer ==
  /\ host.pc # "off" /\ dev.down # <<>>
  /\ dev' = [dev EXCEPT !.down = Tail(@)]
  /\ LET code == Head(dev.down).code
     IN host' = CASE code = "VERSION" -> [host EXCEPT !.pc = "ready"]
                  [] code = "INFO" -> host
                  [] code = "DATA" -> [host EXCEPT !.pc = "send", !.left = Asked.n]
                  [] code = "FAIL" -> [host EXCEPT !.pc = "ready"]
                  [] code = "OKAY" ->
                       [host EXCEPT !.pc = "ready",
                         !.loaded = IF Asked.name = "download" THEN Asked.n ELSE @]
  /\ UNCHANGED <<main, up, drops>>

\* Part of a download, in a frame of its own; unit i of the image has value i.
SendData ==
  /\ host.pc = "send"
  /\ \E k \in 1 .. host.left :
       /\ up' = up \o Frame([i \in 1 .. k |->
                              [k |-> "dl", v |-> Asked.n - host.left + i]])
       /\ host' = [host EXCEPT !.left = @ - k, !.pc = IF k = host.left THEN "wait" ELSE @]
  /\ UNCHANGED <<dev, main, drops>>

\* The host goes away: it closes the connection or is cut off; a USB cable is
\* pulled.  What it sent and was not received is lost.
Drop ==
  /\ dev.conn = "up" /\ host.pc # "off" /\ drops < MaxDrops /\ main.pc # "done"
  /\ drops' = drops + 1
  /\ up' = <<>>
  /\ host' = [host EXCEPT !.pc = "off", !.left = 0, !.loaded = 0]
  /\ \/ /\ dev.link = "tcp"
        /\ \E c \in {"fin", "reset"} : dev' = [dev EXCEPT !.conn = c, !.down = <<>>]
     \/ /\ dev.link = "usb"
        /\ dev' = [dev EXCEPT !.conn = "listen", !.down = <<>>, !.rxq = <<>>, !.txq = <<>>]
  /\ UNCHANGED main

Device ==
  Receive \/ Sent \/ ReceiveFin \/ ConnectionClosed \/ FastbootRunCommand
    \/ RunStep \/ WriteStep \/ Leave
Host == Connect \/ SendCommand \/ ReadAnswer \/ SendData \/ Drop
Next == Device \/ Host \/ UserLeaves

Spec == Init /\ [][Next]_vars

\* The firmware signals what is due and the main loop goes on; a host in the
\* middle of a command reads the answers and sends the data it announced.
Fairness == WF_vars(Device \/ ReadAnswer \/ SendData)

FairSpec == Spec /\ Fairness

----------------------------------------------------------------------------
(* Properties *)

\* The receive tokens of tcp.c, whatever the lengths in which a stream arrives:
\* a read in progress always has a token with the stack, no token is left when
\* it is over, and the tokens never ask for more than the buffer has room for
\* (data_received copies without looking at what is already there).
ReadsAreCovered ==
  dev.link = "tcp" /\ dev.conn = "up" =>
    /\ dev.rx.receiving <=> dev.rxq # <<>>
    /\ dev.rx.receiving =>
         /\ dev.rx.requested = Sum(dev.rxq)
         /\ dev.rx.received + dev.rx.requested <= dev.rx.size

\* Three things put the device and the host out of step for good: set_active
\* answers a failure and then OKAY; data of a download that are received before
\* fastboot_run_command resets received_len are counted on top of the previous
\* download, or forgotten; and answers that are still buffered when a USB cable
\* is pulled are sent after it is back, for those of later commands.
Regular == ~dev.overtaken /\ ~dev.twice /\ ~dev.stale

\* No part of the stream reaches the buffer of another, and no event finds the
\* engine or the framing in a state that has no use for it, across
\* disconnections and with events in the middle of commands.  Nor does tcp.c use
\* the connection that connection_closed has reset, although a command may still
\* be running then.  The exception is a host that comes back before a reboot was
\* answered: the engine waits for a completion that is never signalled, and takes
\* no command.
InStep ==
  /\ ~dev.dangling
  /\ Regular /\ dev.astray => dev.next = "STOPPING" /\ drops > 0

\* Once a download has been answered OKAY the buffer holds it, all of it and in
\* order, and dl.size is its length, until the host sends another one.
DownloadIntact ==
  Regular /\ host.loaded # 0 =>
    dev.dlsize = host.loaded /\ \A i \in 1 .. host.loaded : dev.dl[i] = i

Final(m) == m.code \in {"OKAY", "FAIL"}

\* What the host reads is about the command it waits for, and nothing follows
\* OKAY or FAIL.
AnswersMatch ==
  Regular /\ host.pc # "off" =>
    \A i \in DOMAIN dev.down : dev.down[i].code # "VERSION" =>
      /\ host.pc = "wait" /\ dev.down[i].id = Len(host.log)
      /\ Final(dev.down[i]) => i = Len(dev.down)

Waiting == host.pc \in {"wait", "send"}

\* Every command is answered, unless the host or the user leaves; a command of
\* too many arguments is not, nor one sent to a device whose reboot was cut off.
Served ==
  Waiting ~> \/ ~Waiting \/ main.pc = "done" \/ ~Regular
             \/ dev.next = "STOPPING" /\ drops > 0
             \/ Asked.name = "overlong"

\* After a TCP connection is lost the device listens again.  It does not when
\* an answer could not be written: then nothing is being received, and only a
\* receive notices the loss.
ListensAgain ==
  dev.conn \in {"fin", "reset"} ~>
    \/ dev.conn = "listen" \/ main.pc = "done" \/ dev.fb = "ERROR"
    \/ dev.fb = "COMMAND" /\ Command.name = "overlong"
====
