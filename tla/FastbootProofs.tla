--------------------------- MODULE FastbootProofs ---------------------------
(***************************************************************************)
(* Proofs about Fastboot, for any sizes of reads, tokens, frames and       *)
(* buffers and any number of commands and disconnections: reads in         *)
(* progress are covered by tokens and fit their buffers, and a connection  *)
(* that was reset is not used.                                             *)
(***************************************************************************)
EXTENDS FastbootDeviceProofs

-----------------------------------------------------------------------------
(* The inductive invariant *)

\* What can be left of a handler and of fastboot_run_command.
Programs ==
  {<<>>, <<"flush">>, <<"reset", "flush">>, <<"okay", "reset", "flush">>,
   <<"fail", "reset", "flush">>, <<"data", "reset", "flush">>,
   <<"info", "okay", "reset", "flush">>, <<"info", "info", "okay", "reset", "flush">>,
   <<"stop", "okay", "reset", "flush">>, <<"fail", "okay", "reset", "flush">>,
   <<"fail", "fail", "okay", "reset", "flush">>, <<"size", "data", "reset", "flush">>,
   <<"size", "fail", "reset", "flush">>}

\* The main loop: a size that is announced to the host is one there is room for.
MainOK ==
  /\ main.ops \in Programs
  /\ main.pc \in {"loop", "done"} => main.ops = <<>>
  /\ main.pc = "run" => main.ops # <<>>
  /\ main.pc = "write" => main.msg \in Msg
  /\ main.ops # <<>> /\ Head(main.ops) = "size" =>
       /\ main.pc = "run" /\ dev.fb = "COMMAND"
       /\ main.ops[2] = "data" => Command.n \in 1 .. MaxSize
  /\ main.ops # <<>> /\ Head(main.ops) = "data" =>
       main.pc = "run" /\ dev.dlsize \in 1 .. MaxSize

\* The stream of the host: the version comes first, and sizes are positive.
UpOK ==
  /\ dev.cmd \in 0 .. Len(host.log)
  /\ \A i \in 1 .. Len(up) :
       /\ up[i].k = "cmd" => up[i].v <= Len(host.log)
       /\ up[i].k # "ver" => up[i].v > 0
       /\ up[i].k = "ver" => i = 1 /\ dev.link = "tcp" /\ dev.ts = "INITIALIZING"

HostOK ==
  /\ host.pc \in {"wait", "send"} => host.log # <<>>
  /\ host.pc = "send" => host.left <= Asked.n

\* Before the first command.
LogOK ==
  host.log = <<>> =>
    /\ dev.fb \in {"OFFLINE", "COMPLETE"} /\ dev.next = "COMPLETE" /\ dev.txbuf = <<>>
    /\ main.ops = <<>> /\ main.pc \in {"loop", "done"}
    /\ \A i \in 1 .. Len(dev.down) : dev.down[i].code = "VERSION"
    /\ \A i \in 1 .. Len(up) : up[i].k = "ver"

Inv == TypeOK /\ Fit(dev) /\ ~dev.dangling /\ MainOK /\ UpOK /\ HostOK /\ LogOK

\* Steps that leave alone what the parts of the invariant are about.
LEMMA FitSame ==
  ASSUME NEW d, NEW r \in Dev, Fit(d), SameReads(d, r), r.link = d.link, r.fb = d.fb,
         r.txbuf = d.txbuf, r.dlsize = d.dlsize
  PROVE  Fit(r)
<1>1. Sound(r)
  BY EngineChange, Zenon DEF Fit
<1> QED BY <1>1, Zenon DEF Fit, SameReads

LEMMA MainSame ==
  ASSUME MainOK, main' = main, dev'.cmd = dev.cmd, dev'.dlsize = dev.dlsize,
         dev.fb = "COMMAND" => dev'.fb = "COMMAND", host'.log = host.log
  PROVE  MainOK'
BY Zenon DEF MainOK, Command

LEMMA UpSame ==
  ASSUME UpOK, up' = up, dev'.cmd = dev.cmd, dev'.link = dev.link, host'.log = host.log,
         dev.link = "tcp" /\ dev.ts = "INITIALIZING" => dev'.ts = dev.ts
  PROVE  UpOK'
BY Zenon DEF UpOK

LEMMA InvDev ==
  ASSUME Inv
  PROVE  /\ dev \in Dev /\ Sound(dev) /\ (dev.link = "tcp" => Covered(dev))
         /\ dev.link \in {"tcp", "usb"}
BY Zenon DEF Inv, TypeOK, Fit, Sound, Dev

\* The first k units of the stream and the others.
LEMMA StreamParts ==
  ASSUME NEW s \in Seq(Unit), NEW k \in 1 .. Len(s)
  PROVE  /\ SubSeq(s, 1, k) \in Seq(Unit) /\ SubSeq(s, 1, k) # <<>> /\ Len(SubSeq(s, 1, k)) = k
         /\ \A i \in 1 .. k : SubSeq(s, 1, k)[i] = s[i]
         /\ SubSeq(s, k + 1, Len(s)) \in Seq(Unit) /\ Len(SubSeq(s, k + 1, Len(s))) = Len(s) - k
         /\ \A i \in 1 .. Len(s) - k : SubSeq(s, k + 1, Len(s))[i] = s[i + k]
<1>1. Len(s) \in Nat /\ k \in Nat
  OBVIOUS
<1>2. \A i \in 1 .. Len(s) : s[i] \in Unit
  OBVIOUS
<1>3. SubSeq(s, 1, k) = [i \in 1 .. k |-> s[i]]
  BY <1>1
<1>4. SubSeq(s, k + 1, Len(s)) = [i \in 1 .. Len(s) - k |-> s[i + k]]
  BY <1>1
<1>5. \A i \in 1 .. k : s[i] \in Unit
  BY <1>1, <1>2
<1>6. \A i \in 1 .. Len(s) - k : s[i + k] \in Unit
  BY <1>1, <1>2
<1>7. Len(s) - k \in Nat
  BY <1>1
<1> QED BY <1>1, <1>3, <1>4, <1>5, <1>6, <1>7

LEMMA ReceiveKeeps ==
  ASSUME Inv, Receive
  PROVE  Inv'
<1>1. /\ Event /\ dev.conn = "up" /\ dev.rxq # <<>> /\ up # <<>>
      /\ main' = main /\ host' = host /\ drops' = drops
  BY Zenon DEF Receive
<1>2. PICK k \in 1 .. Least(Head(dev.rxq), Len(up)) :
        LET units == SubSeq(up, 1, k)
        IN /\ up' = SubSeq(up, k + 1, Len(up))
           /\ dev' = LET d == IF dev.link = "tcp" THEN DataReceived(dev, units)
                              ELSE UsbReceived(dev, units)
                     IN [d EXCEPT !.overtaken = @ \/ (main.pc # "loop" /\ d.recv # dev.recv)]
  BY Zenon DEF Receive
<1> DEFINE units == SubSeq(up, 1, k)
           d == IF dev.link = "tcp" THEN DataReceived(dev, units) ELSE UsbReceived(dev, units)
           o == d.overtaken \/ (main.pc # "loop" /\ d.recv # dev.recv)
<1>3. up' = SubSeq(up, k + 1, Len(up)) /\ dev' = [d EXCEPT !.overtaken = o]
  BY <1>2, Zenon
<1>4. /\ dev \in Dev /\ Sound(dev) /\ (dev.link = "tcp" => Covered(dev))
      /\ dev.link \in {"tcp", "usb"}
  BY InvDev, Zenon
<1>5. Fit(dev) /\ TypeOK /\ UpOK /\ MainOK /\ HostOK /\ LogOK /\ ~dev.dangling
  BY Zenon DEF Inv
<1>6. up \in Seq(Unit) /\ Head(dev.rxq) \in Nat /\ Len(up) \in Nat
  BY <1>1, <1>4, <1>5, SMTT(30) DEF TypeOK, Dev
<1>7. k \in 1 .. Len(up) /\ k <= Head(dev.rxq)
  BY <1>6 DEF Least
<1>8. /\ units \in Seq(Unit) /\ units # <<>> /\ Len(units) = k /\ units[1] = up[1]
      /\ up' \in Seq(Unit) /\ Len(up') = Len(up) - k
      /\ \A i \in 1 .. Len(up) - k : up'[i] = up[i + k]
  <2>1. /\ units \in Seq(Unit) /\ units # <<>> /\ Len(units) = k
        /\ \A i \in 1 .. k : units[i] = up[i]
    BY <1>6, <1>7, StreamParts, Zenon
  <2>2. 1 \in 1 .. k
    BY <1>7
  <2>3. /\ up' \in Seq(Unit) /\ Len(up') = Len(up) - k
        /\ \A i \in 1 .. Len(up) - k : up'[i] = up[i + k]
    BY <1>3, <1>6, <1>7, StreamParts, Zenon
  <2> HIDE DEF units
  <2> QED BY <2>1, <2>2, <2>3, Zenon
<1>9. Brought(dev, units)
  BY <1>1, <1>7, <1>8, Zenon DEF Brought
<1>10. /\ 1 \in 1 .. Len(up)
       /\ units[1].k # "ver" => units[1].v > 0
       /\ units[1].k = "ver" => dev.link = "tcp" /\ dev.ts = "INITIALIZING"
       /\ units[1].k = "cmd" => units[1].v <= Len(host.log)
  BY <1>5, <1>6, <1>7, <1>8, SMTT(30) DEF UpOK
<1> HIDE DEF units
<1>11. /\ Fit(d) /\ d.link = dev.link /\ d.next = dev.next /\ d.dlsize = dev.dlsize
       /\ d.dangling = dev.dangling
       /\ (d.cmd \in {0, dev.cmd} \/ (units[1].k = "cmd" /\ d.cmd = units[1].v))
       /\ dev.link = "tcp" /\ dev.ts = "INITIALIZING" =>
            d.fb \in {dev.fb, dev.next} /\ d.down = dev.down /\ d.txbuf = dev.txbuf
  <2>1. CASE dev.link = "tcp"
    <3>1. d = DataReceived(dev, units)
      BY <2>1, Zenon
    <3> HIDE DEF d
    <3> QED BY <1>1, <1>5, <1>9, <1>10, <2>1, <3>1, DataReceivedEffect, SMTT(30)
  <2>2. CASE dev.link = "usb"
    <3>1. d = UsbReceived(dev, units)
      BY <2>2, Zenon
    <3> HIDE DEF d
    <3> QED BY <1>1, <1>5, <1>8, <2>2, <3>1, UsbReceivedEffect, Zenon
  <2> QED BY <1>4, <2>1, <2>2, ZenonT(60)
<1> HIDE DEF d
<1>12. d \in Dev /\ o \in BOOLEAN
  BY <1>11, Zenon DEF Fit, Sound, Dev
<1> HIDE DEF o
<1>13. /\ dev' \in Dev /\ SameReads(d, dev') /\ SameEngine(d, dev') /\ SameWrites(d, dev')
       /\ dev'.fb = d.fb /\ dev'.dangling = d.dangling
  BY <1>3, <1>12, ZenonT(60) DEF Dev, SameReads, SameEngine, SameWrites
<1>14. Fit(dev')
  BY <1>11, <1>13, FitSame, Zenon DEF SameEngine
<1>15. /\ dev'.link = dev.link /\ dev'.next = dev.next /\ dev'.dlsize = dev.dlsize
       /\ dev'.dangling = dev.dangling /\ dev'.cmd = d.cmd /\ dev'.txbuf = d.txbuf
       /\ dev'.down = d.down
  BY <1>11, <1>13, Zenon DEF SameEngine, SameWrites
<1>16. ~(main.ops # <<>> /\ Head(main.ops) = "size")
  <2> SUFFICES ASSUME main.ops # <<>>, Head(main.ops) = "size" PROVE FALSE
    BY Zenon
  <2>1. main.pc = "run" /\ dev.fb = "COMMAND"
    BY <1>5, Zenon DEF MainOK
  <2>2. dev.link = "tcp"
    BY <1>1, <2>1, Zenon DEF Event
  <2>3. dev.ts = "READY"
    BY <1>5, <2>1, <2>2, Zenon DEF Fit
  <2> QED BY <1>1, <1>4, <2>2, <2>3, Zenon DEF Covered, Reading
<1>17. TypeOK'
  BY <1>1, <1>5, <1>8, <1>13, Zenon DEF TypeOK
<1>18. MainOK'
  BY <1>1, <1>5, <1>15, <1>16, Zenon DEF MainOK
<1>19. UpOK'
  <2>1. dev'.cmd \in 0 .. Len(host.log)
    <3>1. dev.cmd \in 0 .. Len(host.log) /\ units[1].v \in Nat /\ Len(host.log) \in Nat
      <4>1. dev.cmd \in 0 .. Len(host.log) /\ host.log \in Seq(Commands)
        BY <1>5, Zenon DEF UpOK, TypeOK
      <4>2. units[1] \in Unit
        BY <1>6, <1>8, <1>10, SMTT(30)
      <4> QED BY <4>1, <4>2, SMTT(30) DEF Unit
    <3> QED BY <1>10, <1>11, <1>15, <3>1, SMTT(30)
  <2>2. ASSUME NEW i \in 1 .. Len(up')
        PROVE  /\ up'[i].k = "cmd" => up'[i].v <= Len(host.log)
               /\ up'[i].k # "ver" => up'[i].v > 0 /\ up'[i].k # "ver"
               /\ up'[i].k # "ver"
    <3>1. up'[i] = up[i + k] /\ i + k \in 1 .. Len(up) /\ i + k # 1
      BY <1>6, <1>7, <1>8, SMTT(30)
    <3> QED BY <1>5, <3>1, Zenon DEF UpOK
  <2> QED BY <1>1, <2>1, <2>2, Zenon DEF UpOK
<1>20. HostOK'
  BY <1>1, <1>5, Zenon DEF HostOK, Asked
<1>21. LogOK'
  <2> SUFFICES ASSUME host.log = <<>> PROVE LogOK'
    BY <1>1, Zenon DEF LogOK
  <2>1. up[1].k = "ver" /\ main.ops = <<>> /\ main.pc \in {"loop", "done"}
        /\ dev.fb \in {"OFFLINE", "COMPLETE"} /\ dev.next = "COMPLETE" /\ dev.txbuf = <<>>
        /\ \A i \in 1 .. Len(dev.down) : dev.down[i].code = "VERSION"
    BY <1>5, <1>10, Zenon DEF LogOK
  <2>2. dev'.fb \in {"OFFLINE", "COMPLETE"} /\ dev'.txbuf = <<>> /\ dev'.down = dev.down
    BY <1>8, <1>10, <1>11, <1>13, <1>15, <2>1, Zenon
  <2>3. \A i \in 1 .. Len(up') : up'[i].k = "ver"
    <3> TAKE i \in 1 .. Len(up')
    <3>1. up'[i] = up[i + k] /\ i + k \in 1 .. Len(up)
      BY <1>6, <1>7, <1>8
    <3> QED BY <1>5, <3>1, Zenon DEF LogOK
  <2> QED BY <1>1, <1>15, <2>1, <2>2, <2>3, Zenon DEF LogOK
<1> QED BY <1>5, <1>14, <1>15, <1>17, <1>18, <1>19, <1>20, <1>21, Zenon DEF Inv

LEMMA SentKeeps ==
  ASSUME Inv, Sent
  PROVE  Inv'
<1>1. /\ dev.txq # <<>> /\ main' = main /\ up' = up /\ host' = host /\ drops' = drops
      /\ dev' = IF dev.link = "tcp" THEN DataSent(dev) ELSE UsbSent(dev)
  BY Zenon DEF Sent
<1>2. dev \in Dev /\ dev.link \in {"tcp", "usb"}
  BY InvDev, Zenon
<1>3. Fit(dev) /\ TypeOK /\ UpOK /\ MainOK /\ HostOK /\ LogOK /\ ~dev.dangling
  BY Zenon DEF Inv
<1>4. SentFrom(dev, dev')
  BY <1>1, <1>2, <1>3, DataSentEffect, UsbSentEffect, Zenon
<1>5. /\ Fit(dev') /\ dev'.link = dev.link /\ dev'.next = dev.next /\ dev'.dlsize = dev.dlsize
      /\ dev'.cmd = dev.cmd /\ dev'.dangling = dev.dangling
      /\ (dev.fb = "COMMAND" => dev'.fb = "COMMAND")
      /\ (dev.link = "tcp" /\ dev.ts # "READY" => dev'.ts = dev.ts)
      /\ (dev.fb \in {"OFFLINE", "COMPLETE"} =>
            dev'.fb = dev.fb /\ dev'.down = dev.down /\ dev'.txbuf = dev.txbuf)
  BY <1>4, Zenon DEF SentFrom, Stays
<1>6. TypeOK'
  BY <1>1, <1>3, <1>5, Zenon DEF TypeOK, Fit, Sound
<1>7. MainOK'
  BY <1>1, <1>3, <1>5, MainSame, Zenon
<1>8. UpOK'
  BY <1>1, <1>3, <1>5, UpSame, Zenon
<1>9. HostOK' /\ LogOK'
  BY <1>1, <1>3, <1>5 DEF HostOK, Asked, LogOK
<1> QED BY <1>3, <1>5, <1>6, <1>7, <1>8, <1>9, Zenon DEF Inv

\* Steps of the link alone
LEMMA LinkStep ==
  ASSUME Inv, main' = main, dev' \in Dev, Sound(dev'), dev'.link = dev.link,
         dev'.fb = dev.fb, dev'.next = dev.next, dev'.txbuf = dev.txbuf,
         dev'.dlsize = dev.dlsize, dev'.cmd = dev.cmd, dev'.ts = dev.ts, ~dev'.dangling,
         \/ dev'.down = <<>>
         \/ dev'.down = dev.down,
         up' \in {up, <<>>}, drops' \in Nat,
         host' \in {host, [host EXCEPT !.pc = "off", !.left = 0, !.loaded = 0]}
  PROVE  Inv'
<1>1. Fit(dev) /\ TypeOK /\ UpOK /\ MainOK /\ HostOK /\ LogOK
  BY Zenon DEF Inv
<1>2. Fit(dev')
  BY <1>1, Zenon DEF Fit
<1>3. host'.log = host.log /\ (host' = host \/ host'.pc = "off")
  BY <1>1, Zenon DEF TypeOK
<1>4. TypeOK'
  <2> DEFINE H == [pc : {"off", "greet", "ready", "wait", "send"}, log : Seq(Commands),
                   left : Nat, loaded : Nat]
  <2>1. host \in H /\ up \in Seq(Unit)
    BY <1>1, Zenon DEF TypeOK
  <2>2. [host EXCEPT !.pc = "off", !.left = 0, !.loaded = 0] \in H /\ <<>> \in Seq(Unit)
    <3>1. <<>> \in Seq(Unit)
      OBVIOUS
    <3>2. [host EXCEPT !.pc = "off", !.left = 0, !.loaded = 0] \in H
      BY <2>1, Zenon
    <3> QED BY <3>1, <3>2, Zenon
  <2>3. host' \in H /\ up' \in Seq(Unit)
    BY <2>1, <2>2, Zenon
  <2> QED BY <1>1, <2>3, Zenon DEF TypeOK
<1>5. MainOK'
  BY <1>1, <1>3, MainSame, Zenon
<1>6. UpOK'
  <2>1. CASE up' = up
    BY <1>1, <1>3, <2>1, UpSame, Zenon
  <2>2. CASE up' = <<>>
    BY <1>1, <1>3, <2>2 DEF UpOK
  <2> QED BY <2>1, <2>2, Zenon
<1>7. HostOK'
  BY <1>1, <1>3, Zenon DEF HostOK, Asked
<1>8. LogOK'
  <2>1. Len(<<>>) = 0 /\ 1 .. 0 = {}
    OBVIOUS
  <2> QED BY <1>1, <1>3, <2>1 DEF LogOK
<1> QED BY <1>2, <1>4, <1>5, <1>6, <1>7, <1>8, Zenon DEF Inv

LEMMA ReceiveFinKeeps ==
  ASSUME Inv, ReceiveFin
  PROVE  Inv'
<1>1. /\ dev.rxq # <<>> /\ main' = main /\ up' = up /\ host' = host /\ drops' = drops
      /\ dev' = Closing([dev EXCEPT !.rxq = <<>>])
  BY Zenon DEF ReceiveFin
<1>2. dev \in Dev /\ (dev.link = "tcp" => Covered(dev)) /\ drops \in Nat /\ ~dev.dangling
  BY InvDev, Zenon DEF Inv, TypeOK
<1> DEFINE rx == [dev.rx EXCEPT !.receiving = FALSE]
<1>3. rx \in Rx /\ rx.receiving = FALSE
  BY <1>2, Zenon DEF Dev, Rx
<1>4. dev' = [dev EXCEPT !.rxq = <<>>, !.rx = rx, !.conn = "closing"]
  BY <1>1, <1>2, Zenon DEF Closing, Dev
<1> HIDE DEF rx
<1>5. <<>> \in Seq(Nat \ {0})
  OBVIOUS
<1>6. /\ dev' \in Dev /\ SameEngine(dev, dev') /\ SameFlags(dev, dev') /\ dev'.fb = dev.fb
      /\ dev'.ts = dev.ts /\ dev'.down = dev.down /\ dev'.rxq = <<>> /\ dev'.rx = rx
  BY <1>2, <1>3, <1>4, <1>5, ZenonT(60) DEF Dev, SameEngine, SameFlags
<1>7. Sound(dev')
  BY <1>1, <1>2, <1>3, <1>6, Zenon DEF Sound, Covered, Reading, SameEngine
<1> QED BY <1>1, <1>2, <1>6, <1>7, LinkStep, Zenon DEF SameEngine, SameFlags

LEMMA ConnectionClosedKeeps ==
  ASSUME Inv, ConnectionClosed
  PROVE  Inv'
<1>1. /\ dev.conn = "closing" /\ main' = main /\ up' = up /\ host' = host /\ drops' = drops
      /\ dev' = [dev EXCEPT !.conn = "listen", !.down = <<>>]
  BY Zenon DEF ConnectionClosed
<1>2. dev \in Dev /\ (dev.link = "tcp" => Covered(dev)) /\ drops \in Nat /\ ~dev.dangling
  BY InvDev, Zenon DEF Inv, TypeOK
<1>3. <<>> \in Seq(Msg)
  OBVIOUS
<1>4. /\ dev' \in Dev /\ SameEngine(dev, dev') /\ SameFlags(dev, dev') /\ dev'.fb = dev.fb
      /\ dev'.ts = dev.ts /\ dev'.down = <<>> /\ dev'.rxq = dev.rxq /\ dev'.rx = dev.rx
      /\ dev'.frx = dev.frx /\ dev'.remaining = dev.remaining
  BY <1>1, <1>2, <1>3, ZenonT(60) DEF Dev, SameEngine, SameFlags
<1>5. Sound(dev')
  BY <1>1, <1>2, <1>4, Zenon DEF Sound, Covered, Reading, SameEngine
<1> QED BY <1>1, <1>2, <1>4, <1>5, LinkStep, Zenon DEF SameEngine, SameFlags

LEMMA DropKeeps ==
  ASSUME Inv, Drop
  PROVE  Inv'
<1>1. /\ dev.conn = "up" /\ main' = main /\ up' = <<>> /\ drops' = drops + 1
      /\ host' = [host EXCEPT !.pc = "off", !.left = 0, !.loaded = 0]
  BY Zenon DEF Drop
<1>2. dev \in Dev /\ (dev.link = "tcp" => Covered(dev)) /\ drops' \in Nat /\ ~dev.dangling
  BY <1>1, InvDev DEF Inv, TypeOK
<1>3. <<>> \in Seq(Msg) /\ <<>> \in Seq(Nat \ {0}) /\ <<>> \in Seq(Token)
  OBVIOUS
<1>4. CASE dev.link = "tcp" /\ \E c \in {"fin", "reset"} : dev' = [dev EXCEPT !.conn = c, !.down = <<>>]
  <2>1. PICK c \in {"fin", "reset"} : dev' = [dev EXCEPT !.conn = c, !.down = <<>>]
    BY <1>4, Zenon
  <2>2. /\ dev' \in Dev /\ SameEngine(dev, dev') /\ SameFlags(dev, dev') /\ dev'.fb = dev.fb
        /\ dev'.ts = dev.ts /\ dev'.down = <<>> /\ dev'.rxq = dev.rxq /\ dev'.rx = dev.rx
        /\ dev'.frx = dev.frx /\ dev'.remaining = dev.remaining /\ dev'.conn = c
    BY <1>2, <1>3, <2>1, ZenonT(60) DEF Dev, SameEngine, SameFlags
  <2>3. Sound(dev')
    BY <1>2, <1>4, <2>2 DEF Sound, Covered, Reading, SameEngine
  <2> QED BY <1>1, <1>2, <2>2, <2>3, LinkStep, Zenon DEF SameEngine, SameFlags
<1>5. CASE dev.link = "usb"
           /\ dev' = [dev EXCEPT !.conn = "listen", !.down = <<>>, !.rxq = <<>>, !.txq = <<>>]
  <2>1. /\ dev' \in Dev /\ SameEngine(dev, dev') /\ SameFlags(dev, dev') /\ dev'.fb = dev.fb
        /\ dev'.ts = dev.ts /\ dev'.down = <<>>
    BY <1>2, <1>3, <1>5, ZenonT(60) DEF Dev, SameEngine, SameFlags
  <2>2. Sound(dev')
    BY <1>5, <2>1, Zenon DEF Sound, SameEngine
  <2> QED BY <1>1, <1>2, <2>1, <2>2, LinkStep, Zenon DEF SameEngine, SameFlags
<1> QED BY <1>4, <1>5, Zenon DEF Drop

LEMMA LeaveKeeps ==
  ASSUME Inv, Leave \/ UserLeaves
  PROVE  Inv'
<1>1. /\ main.pc = "loop" /\ main' = [main EXCEPT !.pc = "done"] /\ dev' = dev
      /\ up' = up /\ host' = host /\ drops' = drops
  BY Zenon DEF Leave, UserLeaves
<1>2. Fit(dev) /\ TypeOK /\ UpOK /\ MainOK /\ HostOK /\ LogOK /\ ~dev.dangling
  BY Zenon DEF Inv
<1>3. main.ops = <<>> /\ main'.ops = <<>> /\ main'.pc = "done"
  BY <1>1, <1>2, Zenon DEF MainOK, TypeOK
<1>4. TypeOK'
  BY <1>1, <1>2, ZenonT(60) DEF TypeOK
<1>5. MainOK' /\ UpOK' /\ HostOK' /\ LogOK'
  BY <1>1, <1>2, <1>3, Zenon DEF MainOK, UpOK, HostOK, LogOK, Asked, Programs
<1> QED BY <1>1, <1>2, <1>4, <1>5, Zenon DEF Inv

LEMMA WriteKeeps ==
  ASSUME Inv, WriteStep
  PROVE  Inv'
<1>1. /\ main.pc = "write" /\ dev' = Written(dev, main.msg)
      /\ main' = [main EXCEPT !.pc = IF main.ops = <<>> THEN "loop" ELSE "run"]
      /\ up' = up /\ host' = host /\ drops' = drops
  BY Zenon DEF WriteStep
<1>2. Fit(dev) /\ TypeOK /\ UpOK /\ MainOK /\ HostOK /\ LogOK /\ ~dev.dangling /\ Sound(dev)
  BY Zenon DEF Inv, Fit
<1>3. main.msg \in Msg
  BY <1>1, <1>2, Zenon DEF MainOK
<1>4. /\ Sound(dev') /\ SameEngine(dev, dev') /\ SameReads(dev, dev') /\ SameFlags(dev, dev')
      /\ dev'.fb \in {dev.fb, "ERROR"}
  BY <1>1, <1>2, <1>3, WrittenEffect, Zenon
<1>5. /\ main'.ops = main.ops /\ main'.msg = main.msg
      /\ main'.pc = IF main.ops = <<>> THEN "loop" ELSE "run"
  BY <1>1, <1>2, Zenon DEF TypeOK
<1>6. Fit(dev')
  BY <1>2, <1>4, Zenon DEF Fit, SameEngine, SameReads
<1>7. TypeOK'
  BY <1>1, <1>2, <1>4, Zenon DEF TypeOK, Sound
<1>8. MainOK'
  <2>1. ~(main.ops # <<>> /\ Head(main.ops) \in {"size", "data"})
    BY <1>1, <1>2, Zenon DEF MainOK
  <2> QED BY <1>2, <1>5, <2>1, Zenon DEF MainOK
<1>9. UpOK'
  BY <1>1, <1>2, <1>4, UpSame, Zenon DEF SameEngine, SameReads
<1>10. HostOK' /\ LogOK'
  BY <1>1, <1>2, Zenon DEF HostOK, Asked, LogOK
<1>11. ~dev'.dangling
  BY <1>2, <1>4, Zenon DEF SameFlags
<1> QED BY <1>6, <1>7, <1>8, <1>9, <1>10, <1>11, Zenon DEF Inv

LEMMA ConnectKeeps ==
  ASSUME Inv, Connect
  PROVE  Inv'
<1>1. Event /\ dev.conn = "listen" /\ host.pc = "off" /\ main' = main /\ drops' = drops
  BY Zenon DEF Connect
<1>2. Fit(dev) /\ TypeOK /\ UpOK /\ MainOK /\ HostOK /\ LogOK /\ ~dev.dangling /\ dev \in Dev
  BY Zenon DEF Inv, TypeOK
<1>3. CASE /\ dev.link = "tcp" /\ dev' = ConnectionAccepted(dev)
           /\ up' = Units("ver", 0, 1) /\ host' = [host EXCEPT !.pc = "greet"]
  <2>1. /\ Fit(dev') /\ SameEngine(dev, dev') /\ SameFlags(dev, dev') /\ dev'.fb = dev.fb
        /\ dev'.ts = "INITIALIZING"
        /\ (\/ dev'.down = dev.down
            \/ dev'.down = Append(dev.down, [code |-> "VERSION", id |-> 0]))
    BY <1>1, <1>2, <1>3, AcceptedEffect, Zenon
  <2>2. host'.log = host.log /\ host'.pc = "greet"
    BY <1>2, <1>3, Zenon DEF TypeOK
  <2>3. /\ Len(up') = 1 /\ up' \in Seq(Unit) /\ up'[1] = [k |-> "ver", v |-> 0]
    BY <1>3 DEF Units, Unit
  <2>4. TypeOK'
    BY <1>1, <1>2, <1>3, <2>1, <2>3, ZenonT(60) DEF TypeOK, Fit, Sound
  <2>5. MainOK'
    BY <1>1, <1>2, <2>1, <2>2, MainSame, Zenon DEF SameEngine
  <2>6. UpOK'
    <3>1. \A i \in 1 .. Len(up') : i = 1
      BY <2>3
    <3> QED BY <1>2, <1>3, <2>1, <2>2, <2>3, <3>1, SMTT(30) DEF UpOK, SameEngine
  <2>7. HostOK'
    BY <2>2, Zenon DEF HostOK
  <2>8. LogOK'
    <3>1. \A i \in 1 .. Len(up') : up'[i].k = "ver"
      BY <2>3
    <3>2. ASSUME host.log = <<>> PROVE \A i \in 1 .. Len(dev'.down) : dev'.down[i].code = "VERSION"
      <4>1. \A i \in 1 .. Len(dev.down) : dev.down[i].code = "VERSION"
        BY <1>2, <3>2, Zenon DEF LogOK
      <4>2. dev.down \in Seq(Msg)
        BY <1>2, Zenon DEF Dev
      <4>3. CASE dev'.down = dev.down
        BY <4>1, <4>3, Zenon
      <4>4. CASE dev'.down = Append(dev.down, [code |-> "VERSION", id |-> 0])
        <5> TAKE i \in 1 .. Len(dev'.down)
        <5>1. Len(dev.down) \in Nat /\ Len(dev'.down) = Len(dev.down) + 1
          BY <4>2, <4>4
        <5>2. CASE i = Len(dev.down) + 1
          <6>1. dev'.down[i] = [code |-> "VERSION", id |-> 0]
            BY <4>2, <4>4, <5>1, <5>2, SMTT(30)
          <6> QED BY <6>1
        <5>3. CASE i \in 1 .. Len(dev.down)
          <6>1. dev'.down[i] = dev.down[i]
            BY <4>2, <4>4, <5>1, <5>3
          <6> QED BY <4>1, <5>3, <6>1, Zenon
        <5> QED BY <5>1, <5>2, <5>3
      <4> QED BY <2>1, <4>3, <4>4, Zenon
    <3> QED BY <1>1, <1>2, <2>1, <2>2, <3>1, <3>2, Zenon DEF LogOK, SameEngine
  <2> QED BY <1>2, <2>1, <2>4, <2>5, <2>6, <2>7, <2>8, Zenon DEF Inv, SameFlags
<1>4. CASE /\ dev.link = "usb" /\ up' = <<>> /\ host' = [host EXCEPT !.pc = "ready"]
           /\ dev' = FastbootStartCallback([dev EXCEPT !.conn = "up",
                                                       !.stale = @ \/ dev.txbuf # <<>>])
  <2> DEFINE st == dev.stale \/ dev.txbuf # <<>>
             d == [dev EXCEPT !.conn = "up", !.stale = st]
  <2>1. st \in BOOLEAN
    BY <1>2, Zenon DEF Dev
  <2>a. dev' = FastbootStartCallback(d)
    BY <1>4, Zenon
  <2> HIDE DEF st
  <2>2. d \in Dev /\ SameEngine(dev, d) /\ SameWrites(dev, d) /\ d.dangling = dev.dangling
    BY <1>2, <2>1, ZenonT(60) DEF Dev, SameEngine, SameWrites
  <2> HIDE DEF d
  <2>3. Sound(d) /\ d.next \in {"COMPLETE", "STOPPING"}
    BY <1>4, <2>2, Zenon DEF Sound, SameEngine, Dev
  <2>4. /\ SameEngine(d, dev') /\ SameWrites(d, dev') /\ SameFlags(d, dev')
        /\ dev'.fb = d.next /\ Sound(dev')
    BY <2>a, <2>3, StartCallbackEffect, Zenon
  <2>5. SameEngine(dev, dev') /\ dev'.down = dev.down /\ ~dev'.dangling
    BY <1>2, <2>2, <2>4, Zenon DEF SameEngine, SameWrites, SameFlags
  <2>6. Fit(dev')
    BY <2>3, <2>4, Zenon DEF Fit
  <2>7. host'.log = host.log /\ host'.pc = "ready"
    BY <1>2, <1>4, Zenon DEF TypeOK
  <2>8. main.pc = "loop" /\ main.ops = <<>>
    BY <1>1, <1>2, <1>4, Zenon DEF Event, MainOK
  <2>9. TypeOK'
    BY <1>1, <1>2, <1>4, <2>4, SMTT(30) DEF TypeOK, Sound
  <2>10. MainOK'
    BY <1>1, <1>2, <2>8, Zenon DEF MainOK
  <2>11. UpOK' /\ HostOK'
    BY <1>2, <1>4, <2>5, <2>7, SMTT(30) DEF UpOK, HostOK, SameEngine
  <2>12. LogOK'
    BY <1>1, <1>2, <1>4, <2>2, <2>4, <2>5, <2>7, SMTT(30) DEF LogOK, SameEngine
  <2> QED BY <2>5, <2>6, <2>9, <2>10, <2>11, <2>12, Zenon DEF Inv
<1> QED BY <1>3, <1>4, Zenon DEF Connect

LEMMA TupleParts ==
  ASSUME NEW a, NEW b, NEW c, NEW d, NEW e
  PROVE  /\ Head(<<a>>) = a /\ Tail(<<a>>) = <<>> /\ Len(<<a>>) = 1
         /\ Head(<<a, b>>) = a /\ Tail(<<a, b>>) = <<b>> /\ Len(<<a, b>>) = 2
         /\ Head(<<a, b, c>>) = a /\ Tail(<<a, b, c>>) = <<b, c>> /\ Len(<<a, b, c>>) = 3
         /\ Head(<<a, b, c, d>>) = a /\ Tail(<<a, b, c, d>>) = <<b, c, d>>
         /\ Len(<<a, b, c, d>>) = 4 /\ <<a, b, c, d>>[2] = b
         /\ Head(<<a, b, c, d, e>>) = a /\ Tail(<<a, b, c, d, e>>) = <<b, c, d, e>>
         /\ Len(<<a, b, c, d, e>>) = 5
         /\ <<a>> # <<>> /\ <<a, b>> # <<>> /\ <<a, b, c>> # <<>> /\ <<a, b, c, d>> # <<>>
<1>1. Head(<<a>>) = a /\ Tail(<<a>>) = <<>> /\ Len(<<a>>) = 1
  OBVIOUS
<1>2. Head(<<a, b>>) = a /\ Tail(<<a, b>>) = <<b>> /\ Len(<<a, b>>) = 2
  OBVIOUS
<1>3. Head(<<a, b, c>>) = a /\ Tail(<<a, b, c>>) = <<b, c>> /\ Len(<<a, b, c>>) = 3
  OBVIOUS
<1>4. Head(<<a, b, c, d>>) = a /\ Tail(<<a, b, c, d>>) = <<b, c, d>>
  OBVIOUS
<1>5. Len(<<a, b, c, d>>) = 4 /\ <<a, b, c, d>>[2] = b
  BY Zenon
<1>6. Head(<<a, b, c, d, e>>) = a /\ Tail(<<a, b, c, d, e>>) = <<b, c, d, e>>
  OBVIOUS
<1>7. Len(<<a, b, c, d, e>>) = 5
  BY Zenon
<1>8. <<a>> # <<>> /\ <<a, b>> # <<>> /\ <<a, b, c>> # <<>> /\ <<a, b, c, d>> # <<>>
  BY Zenon
<1> QED BY <1>1, <1>2, <1>3, <1>4, <1>5, <1>6, <1>7, <1>8, Zenon

LEMMA ProgramParts ==
  ASSUME NEW s \in Programs, s # <<>>
  PROVE  /\ Tail(s) \in Programs /\ (Len(s) = 1 <=> Tail(s) = <<>>)
         /\ Tail(s) # <<>> => /\ Head(Tail(s)) # "size"
                              /\ Head(Tail(s)) = "data" => Head(s) = "size" /\ s[2] = "data"
<1>1. CASE s = <<"flush">>
  <2>1. Tail(s) = <<>> /\ Head(s) = "flush" /\ Len(s) = 1
    BY <1>1, TupleParts, Zenon
  <2>2. Tail(s) \in Programs
    BY <2>1, Zenon DEF Programs
  <2> QED BY <2>1, <2>2, Zenon
<1>2. CASE s = <<"reset", "flush">>
  <2>1. Tail(s) = <<"flush">> /\ Head(s) = "reset" /\ Len(s) = 2
    BY <1>2, TupleParts
  <2>2. Tail(s) \in Programs
    BY <2>1, Zenon DEF Programs
  <2>3. Head(<<"flush">>) = "flush" /\ <<"flush">> # <<>>
    BY TupleParts, Zenon
  <2>4. Head(Tail(s)) = "flush" /\ Tail(s) # <<>>
    BY <2>1, <2>3, Zenon
  <2>5. Len(s) # 1
    BY <2>1
  <2> QED BY <2>1, <2>2, <2>4, <2>5, Zenon
<1>3. CASE s = <<"okay", "reset", "flush">>
  <2>1. Tail(s) = <<"reset", "flush">> /\ Head(s) = "okay" /\ Len(s) = 3
    BY <1>3, TupleParts
  <2>2. Tail(s) \in Programs
    BY <2>1, Zenon DEF Programs
  <2>3. Head(<<"reset", "flush">>) = "reset" /\ <<"reset", "flush">> # <<>>
    BY TupleParts, Zenon
  <2>4. Head(Tail(s)) = "reset" /\ Tail(s) # <<>>
    BY <2>1, <2>3, Zenon
  <2>5. Len(s) # 1
    BY <2>1
  <2> QED BY <2>1, <2>2, <2>4, <2>5, Zenon
<1>4. CASE s = <<"fail", "reset", "flush">>
  <2>1. Tail(s) = <<"reset", "flush">> /\ Head(s) = "fail" /\ Len(s) = 3
    BY <1>4, TupleParts
  <2>2. Tail(s) \in Programs
    BY <2>1, Zenon DEF Programs
  <2>3. Head(<<"reset", "flush">>) = "reset" /\ <<"reset", "flush">> # <<>>
    BY TupleParts, Zenon
  <2>4. Head(Tail(s)) = "reset" /\ Tail(s) # <<>>
    BY <2>1, <2>3, Zenon
  <2>5. Len(s) # 1
    BY <2>1
  <2> QED BY <2>1, <2>2, <2>4, <2>5, Zenon
<1>5. CASE s = <<"data", "reset", "flush">>
  <2>1. Tail(s) = <<"reset", "flush">> /\ Head(s) = "data" /\ Len(s) = 3
    BY <1>5, TupleParts
  <2>2. Tail(s) \in Programs
    BY <2>1, Zenon DEF Programs
  <2>3. Head(<<"reset", "flush">>) = "reset" /\ <<"reset", "flush">> # <<>>
    BY TupleParts, Zenon
  <2>4. Head(Tail(s)) = "reset" /\ Tail(s) # <<>>
    BY <2>1, <2>3, Zenon
  <2>5. Len(s) # 1
    BY <2>1
  <2> QED BY <2>1, <2>2, <2>4, <2>5, Zenon
<1>6. CASE s = <<"info", "okay", "reset", "flush">>
  <2>1. Tail(s) = <<"okay", "reset", "flush">> /\ Head(s) = "info" /\ Len(s) = 4
    BY <1>6, TupleParts
  <2>2. Tail(s) \in Programs
    BY <2>1, Zenon DEF Programs
  <2>3. Head(<<"okay", "reset", "flush">>) = "okay" /\ <<"okay", "reset", "flush">> # <<>>
    BY TupleParts
  <2>4. Head(Tail(s)) = "okay" /\ Tail(s) # <<>>
    BY <2>1, <2>3, ZenonT(60)
  <2>5. Len(s) # 1
    BY <2>1
  <2> QED BY <2>1, <2>2, <2>4, <2>5, Zenon
<1>7. CASE s = <<"info", "info", "okay", "reset", "flush">>
  <2>1. Tail(s) = <<"info", "okay", "reset", "flush">> /\ Head(s) = "info" /\ Len(s) = 5
    BY <1>7, TupleParts
  <2>2. Tail(s) \in Programs
    BY <2>1, Zenon DEF Programs
  <2>3. Head(<<"info", "okay", "reset", "flush">>) = "info" /\ <<"info", "okay", "reset", "flush">> # <<>>
    BY TupleParts
  <2>4. Head(Tail(s)) = "info" /\ Tail(s) # <<>>
    BY <2>1, <2>3, Zenon
  <2>5. Len(s) # 1
    BY <2>1
  <2> QED BY <2>1, <2>2, <2>4, <2>5, Zenon
<1>8. CASE s = <<"stop", "okay", "reset", "flush">>
  <2>1. Tail(s) = <<"okay", "reset", "flush">> /\ Head(s) = "stop" /\ Len(s) = 4
    BY <1>8, TupleParts
  <2>2. Tail(s) \in Programs
    BY <2>1, Zenon DEF Programs
  <2>3. Head(<<"okay", "reset", "flush">>) = "okay" /\ <<"okay", "reset", "flush">> # <<>>
    BY TupleParts
  <2>4. Head(Tail(s)) = "okay" /\ Tail(s) # <<>>
    BY <2>1, <2>3, Zenon
  <2>5. Len(s) # 1
    BY <2>1
  <2> QED BY <2>1, <2>2, <2>4, <2>5, Zenon
<1>9. CASE s = <<"fail", "okay", "reset", "flush">>
  <2>1. Tail(s) = <<"okay", "reset", "flush">> /\ Head(s) = "fail" /\ Len(s) = 4
    BY <1>9, TupleParts
  <2>2. Tail(s) \in Programs
    BY <2>1, Zenon DEF Programs
  <2>3. Head(<<"okay", "reset", "flush">>) = "okay" /\ <<"okay", "reset", "flush">> # <<>>
    BY TupleParts
  <2>4. Head(Tail(s)) = "okay" /\ Tail(s) # <<>>
    BY <2>1, <2>3, Zenon
  <2>5. Len(s) # 1
    BY <2>1
  <2> QED BY <2>1, <2>2, <2>4, <2>5, Zenon
<1>10. CASE s = <<"fail", "fail", "okay", "reset", "flush">>
  <2>1. Tail(s) = <<"fail", "okay", "reset", "flush">> /\ Head(s) = "fail" /\ Len(s) = 5
    BY <1>10, TupleParts
  <2>2. Tail(s) \in Programs
    BY <2>1, Zenon DEF Programs
  <2>3. Head(<<"fail", "okay", "reset", "flush">>) = "fail" /\ <<"fail", "okay", "reset", "flush">> # <<>>
    BY TupleParts
  <2>4. Head(Tail(s)) = "fail" /\ Tail(s) # <<>>
    BY <2>1, <2>3, Zenon
  <2>5. Len(s) # 1
    BY <2>1
  <2> QED BY <2>1, <2>2, <2>4, <2>5, Zenon
<1>11. CASE s = <<"size", "data", "reset", "flush">>
  <2>1. Tail(s) = <<"data", "reset", "flush">> /\ Head(s) = "size" /\ Len(s) = 4 /\ s[2] = "data"
    BY <1>11, TupleParts
  <2>2. Tail(s) \in Programs
    BY <2>1, Zenon DEF Programs
  <2>3. Head(<<"data", "reset", "flush">>) = "data" /\ <<"data", "reset", "flush">> # <<>>
    BY TupleParts
  <2>4. Head(Tail(s)) = "data" /\ Tail(s) # <<>>
    BY <2>1, <2>3, Zenon
  <2>5. Len(s) # 1
    BY <2>1
  <2> QED BY <2>1, <2>2, <2>4, <2>5, Zenon
<1>12. CASE s = <<"size", "fail", "reset", "flush">>
  <2>1. Tail(s) = <<"fail", "reset", "flush">> /\ Head(s) = "size" /\ Len(s) = 4 /\ s[2] = "fail"
    BY <1>12, TupleParts
  <2>2. Tail(s) \in Programs
    BY <2>1, Zenon DEF Programs
  <2>3. Head(<<"fail", "reset", "flush">>) = "fail" /\ <<"fail", "reset", "flush">> # <<>>
    BY TupleParts
  <2>4. Head(Tail(s)) = "fail" /\ Tail(s) # <<>>
    BY <2>1, <2>3, Zenon
  <2>5. Len(s) # 1
    BY <2>1
  <2> QED BY <2>1, <2>2, <2>4, <2>5, Zenon
<1> QED BY <1>1, <1>2, <1>3, <1>4, <1>5, <1>6, <1>7, <1>8, <1>9, <1>10, <1>11, <1>12, ZenonT(60) DEF Programs

\* Sequences
LEMMA AppendSome ==
  ASSUME NEW S, NEW s \in Seq(S), NEW x \in S
  PROVE  Append(s, x) # <<>>
<1>1. Len(Append(s, x)) = Len(s) + 1 /\ Len(s) \in Nat
  OBVIOUS
<1>2. Len(<<>>) = 0 /\ Len(Append(s, x)) # 0
  BY <1>1
<1> QED BY <1>2, Zenon

LEMMA AppendParts ==
  ASSUME NEW S, NEW s \in Seq(S), NEW x \in S
  PROVE  /\ Append(s, x) \in Seq(S) /\ Len(Append(s, x)) = Len(s) + 1
         /\ \A i \in 1 .. Len(s) : Append(s, x)[i] = s[i]
OBVIOUS

LEMMA TailParts ==
  ASSUME NEW S, NEW s \in Seq(S), s # <<>>
  PROVE  /\ Head(s) \in S /\ Tail(s) \in Seq(S) /\ Len(Tail(s)) = Len(s) - 1
         /\ \A i \in 1 .. Len(Tail(s)) : Tail(s)[i] = s[i + 1]
OBVIOUS

LEMMA ConcatParts ==
  ASSUME NEW S, NEW s \in Seq(S), NEW t \in Seq(S)
  PROVE  /\ s \o t \in Seq(S)
         /\ Len(s \o t) = Len(s) + Len(t)
         /\ \A i \in 1 .. Len(s) + Len(t) :
              (s \o t)[i] = IF i <= Len(s) THEN s[i] ELSE t[i - Len(s)]
OBVIOUS

LEMMA SameParts ==
  ASSUME NEW S, NEW s \in Seq(S), NEW t \in Seq(S), Len(s) = Len(t),
         \A i \in 1 .. Len(s) : s[i] = t[i]
  PROVE  s = t
OBVIOUS

LEMMA ProgramsType == Programs \subseteq Seq(Op)
BY DEF Programs, Op

\* A step of a handler
LEMMA HandlerStep ==
  ASSUME Inv, main.pc = "run", up' = up, host' = host, drops' = drops,
         Fit(dev'), dev'.link = dev.link, dev'.cmd = dev.cmd, dev'.ts = dev.ts,
         ~dev'.dangling, NEW m \in Msg \union {NoMsg},
         \/ /\ main' = [main EXCEPT !.ops = Tail(@), !.pc = IF Len(main.ops) = 1 THEN "loop" ELSE "run"]
            /\ Head(main.ops) = "size" /\ main.ops[2] = "data" => dev'.dlsize \in 1 .. MaxSize
         \/ main' = [pc |-> "write", ops |-> Tail(main.ops), msg |-> m] /\ m \in Msg
            /\ Head(main.ops) # "size"
  PROVE  Inv'
<1>1. Fit(dev) /\ TypeOK /\ UpOK /\ MainOK /\ HostOK /\ LogOK
  BY Zenon DEF Inv
<1>2. main.ops \in Programs /\ main.ops # <<>> /\ Tail(main.ops) \in Seq(Op)
  BY <1>1, ProgramParts, ProgramsType, Zenon DEF MainOK
<1> DEFINE s == main.ops
<1>3. /\ Tail(s) \in Programs /\ (Len(s) = 1 <=> Tail(s) = <<>>)
      /\ Tail(s) # <<>> => /\ Head(Tail(s)) # "size"
                           /\ Head(Tail(s)) = "data" => Head(s) = "size" /\ s[2] = "data"
  BY <1>2, ProgramParts, Zenon
<1> HIDE DEF s
<1>4. /\ main'.ops = Tail(s)
      /\ \/ /\ main'.pc = (IF Len(s) = 1 THEN "loop" ELSE "run")
            /\ Head(s) = "size" /\ s[2] = "data" => dev'.dlsize \in 1 .. MaxSize
         \/ main'.pc = "write" /\ main'.msg \in Msg /\ Head(s) # "size"
  <2>1. CASE /\ main' = [main EXCEPT !.ops = Tail(@), !.pc = IF Len(main.ops) = 1 THEN "loop" ELSE "run"]
             /\ Head(main.ops) = "size" /\ main.ops[2] = "data" => dev'.dlsize \in 1 .. MaxSize
    <3>1. main'.ops = Tail(s) /\ main'.pc = IF Len(s) = 1 THEN "loop" ELSE "run"
      BY <1>1, <2>1, Zenon DEF TypeOK, s
    <3> QED BY <2>1, <3>1, Zenon DEF s
  <2>2. CASE main' = [pc |-> "write", ops |-> Tail(main.ops), msg |-> m] /\ m \in Msg
             /\ Head(main.ops) # "size"
    BY <2>2, Zenon DEF s
  <2> QED BY <2>1, <2>2, Zenon
<1>5. TypeOK'
  <2>1. dev' \in Dev
    BY Zenon DEF Fit, Sound
  <2>2. main' \in [pc : {"loop", "run", "write", "done"}, ops : Seq(Op), msg : Msg \union {NoMsg}]
    <3>1. main \in [pc : {"loop", "run", "write", "done"}, ops : Seq(Op), msg : Msg \union {NoMsg}]
      BY <1>1, Zenon DEF TypeOK
    <3>2. CASE main' = [main EXCEPT !.ops = Tail(@),
                                    !.pc = IF Len(main.ops) = 1 THEN "loop" ELSE "run"]
      BY <1>2, <3>1, <3>2, Zenon
    <3>3. CASE main' = [pc |-> "write", ops |-> Tail(main.ops), msg |-> m]
      BY <1>2, <3>3, Zenon
    <3> QED BY <3>2, <3>3, Zenon
  <2> QED BY <1>1, <2>1, <2>2, Zenon DEF TypeOK
<1>6. MainOK'
  BY <1>3, <1>4, Zenon DEF MainOK
<1>7. UpOK'
  BY <1>1, UpSame, Zenon
<1>8. HostOK'
  BY <1>1, Zenon DEF HostOK, Asked
<1>9. LogOK'
  BY <1>1, Zenon DEF LogOK
<1> QED BY <1>5, <1>6, <1>7, <1>8, <1>9, Zenon DEF Inv

LEMMA AnswerKeeps ==
  ASSUME Inv, main.pc = "run", up' = up, host' = host, drops' = drops,
         Head(main.ops) \in {"okay", "fail"}, NEW code \in {"OKAY", "FAIL"}, Answer(code)
  PROVE  Inv'
<1>1. Sound(dev) /\ dev \in Dev /\ ~dev.dangling /\ MainOK
  BY Zenon DEF Inv, Fit, Sound
<1>3. CASE dev.fb = "TX"
  <2>1. /\ dev' = AckBuffered(dev, code)
        /\ main' = [main EXCEPT !.ops = Tail(@), !.pc = IF Len(main.ops) = 1 THEN "loop" ELSE "run"]
    BY <1>3, Zenon DEF Answer, ThenRun
  <2>2. /\ Sound(dev') /\ Stays(dev, dev') /\ SameReads(dev, dev') /\ dev'.fb = "TX"
        /\ dev'.txbuf = Append(dev.txbuf, Message(dev, code))
    BY <1>1, <2>1, AckBufferedEffect
  <2>3. dev'.txbuf # <<>>
    <3>1. dev.txbuf \in Seq(Msg) /\ Message(dev, code) \in Msg
      BY <1>1, MessageType, Zenon DEF Dev
    <3> QED BY <2>2, <3>1, AppendSome, Zenon
  <2>4. Fit(dev')
    BY <2>2, <2>3, Zenon DEF Fit
  <2>5. NoMsg \in Msg \union {NoMsg}
    BY Zenon
  <2> QED BY <1>1, <2>1, <2>2, <2>4, <2>5, HandlerStep, Zenon DEF Stays, SameReads
<1>4. CASE dev.fb # "TX"
  <2> DEFINE m == Message(dev, code)
  <2>1. dev' = AckState(dev) /\ main' = [pc |-> "write", ops |-> Tail(main.ops), msg |-> m]
    BY <1>4, Zenon DEF Answer, ThenWrite
  <2>2. m \in Msg
    BY <1>1, MessageType, Zenon
  <2> HIDE DEF m
  <2>3. /\ Sound(dev') /\ SameEngine(dev, dev') /\ SameReads(dev, dev') /\ SameFlags(dev, dev')
        /\ dev'.fb = dev.next
    BY <1>1, <2>1, AckStateEffect, Zenon
  <2>4. Fit(dev')
    BY <1>1, <2>3, Zenon DEF Fit, Dev
  <2> QED BY <1>1, <2>1, <2>2, <2>3, <2>4, HandlerStep, Zenon DEF SameEngine, SameReads, SameFlags
<1> QED BY <1>3, <1>4, Zenon

LEMMA RunKeeps ==
  ASSUME Inv, RunStep
  PROVE  Inv'
<1>1. /\ main.pc = "run" /\ main.ops # <<>> /\ up' = up /\ host' = host /\ drops' = drops
  BY Zenon DEF RunStep
<1>2. Sound(dev) /\ dev \in Dev /\ ~dev.dangling /\ MainOK /\ Fit(dev) /\ TypeOK /\ UpOK
  BY Zenon DEF Inv, Fit, Sound
<1>4. NoMsg \in Msg \union {NoMsg}
  BY Zenon
<1>5. CASE Head(main.ops) = "info" /\ ThenRun(AckBuffered(dev, "INFO"))
  <2>1. /\ dev' = AckBuffered(dev, "INFO")
        /\ main' = [main EXCEPT !.ops = Tail(@), !.pc = IF Len(main.ops) = 1 THEN "loop" ELSE "run"]
    BY <1>5, Zenon DEF ThenRun
  <2>2. /\ Sound(dev') /\ Stays(dev, dev') /\ SameReads(dev, dev') /\ dev'.fb = "TX"
        /\ dev'.txbuf = Append(dev.txbuf, Message(dev, "INFO"))
    BY <1>2, <2>1, AckBufferedEffect, Zenon
  <2>3. dev'.txbuf # <<>>
    <3>1. dev.txbuf \in Seq(Msg) /\ Message(dev, "INFO") \in Msg
      BY <1>2, MessageType, Zenon DEF Dev
    <3> QED BY <2>2, <3>1, AppendSome, Zenon
  <2>4. Fit(dev')
    BY <2>2, <2>3, Zenon DEF Fit
  <2> QED BY <1>1, <1>2, <1>4, <1>5, <2>1, <2>2, <2>4, HandlerStep, Zenon DEF Stays, SameReads
<1>6. CASE Head(main.ops) = "okay" /\ Answer("OKAY")
  BY <1>1, <1>6, AnswerKeeps, Zenon
<1>7. CASE Head(main.ops) = "fail" /\ Answer("FAIL")
  BY <1>1, <1>7, AnswerKeeps, Zenon
<1>8. CASE Head(main.ops) = "stop" /\ ThenRun(FastbootStop(dev))
  <2>1. /\ dev' = FastbootStop(dev)
        /\ main' = [main EXCEPT !.ops = Tail(@), !.pc = IF Len(main.ops) = 1 THEN "loop" ELSE "run"]
    BY <1>8, Zenon DEF ThenRun
  <2>2. /\ dev' \in Dev /\ SameReads(dev, dev') /\ dev'.link = dev.link /\ dev'.cmd = dev.cmd
        /\ dev'.dangling = dev.dangling /\ dev'.txbuf = dev.txbuf /\ dev'.dlsize = dev.dlsize
        /\ dev'.fb \in {dev.fb, "STOPPED"}
    <3>1. CASE dev.fb = "COMPLETE"
      <4>1. dev' = [dev EXCEPT !.fb = "STOPPED"]
        BY <2>1, <3>1, Zenon DEF FastbootStop
      <4> QED BY <1>2, <4>1, ZenonT(60) DEF Dev, SameReads
    <3>2. CASE dev.fb # "COMPLETE"
      <4>1. dev' = [dev EXCEPT !.next = "STOPPING"]
        BY <2>1, <3>2, Zenon DEF FastbootStop
      <4> QED BY <1>2, <4>1, ZenonT(60) DEF Dev, SameReads
    <3> QED BY <3>1, <3>2, Zenon
  <2>3. Sound(dev')
    BY <1>2, <2>2, EngineChange, Zenon
  <2>4. Fit(dev')
    BY <1>2, <2>2, <2>3, Zenon DEF Fit, SameReads
  <2> QED BY <1>1, <1>2, <1>4, <1>8, <2>1, <2>2, <2>4, HandlerStep, Zenon DEF SameReads
<1>9. CASE Head(main.ops) = "size" /\ ThenRun([dev EXCEPT !.dlsize = Command.n])
  <2>1. /\ dev' = [dev EXCEPT !.dlsize = Command.n]
        /\ main' = [main EXCEPT !.ops = Tail(@), !.pc = IF Len(main.ops) = 1 THEN "loop" ELSE "run"]
    BY <1>9, Zenon DEF ThenRun
  <2>2. Command.n \in Nat /\ dev.fb = "COMMAND"
        /\ (main.ops[2] = "data" => Command.n \in 1 .. MaxSize)
    <3>1. dev.fb = "COMMAND" /\ (main.ops[2] = "data" => Command.n \in 1 .. MaxSize)
      BY <1>1, <1>2, <1>9, Zenon DEF MainOK
    <3>2. Command.n \in Nat
      <4>1. host.log \in Seq(Commands) /\ dev.cmd \in 0 .. Len(host.log)
        BY <1>2, Zenon DEF TypeOK, UpOK
      <4>2. CASE dev.cmd = 0
        BY <4>2, Zenon DEF Command
      <4>3. CASE dev.cmd # 0
        <5>1. Command \in Commands
          BY <4>1, <4>3 DEF Command
        <5> QED BY <5>1, FastbootAssumption, Zenon
      <4> QED BY <4>2, <4>3, Zenon
    <3> QED BY <3>1, <3>2, Zenon
  <2>3. /\ dev' \in Dev /\ SameReads(dev, dev') /\ dev'.link = dev.link /\ dev'.cmd = dev.cmd
        /\ dev'.dangling = dev.dangling /\ dev'.fb = dev.fb /\ dev'.dlsize = Command.n
    BY <1>2, <2>1, <2>2, ZenonT(60) DEF Dev, SameReads
  <2>4. Sound(dev')
    BY <1>2, <2>3, EngineChange, Zenon
  <2>5. Fit(dev')
    BY <1>2, <2>2, <2>3, <2>4, Zenon DEF Fit, SameReads
  <2> QED BY <1>1, <1>2, <1>4, <2>1, <2>2, <2>3, <2>5, HandlerStep, Zenon DEF SameReads
<1>10. CASE /\ Head(main.ops) = "data"
            /\ ThenWrite([dev EXCEPT !.fb = "START_DOWNLOAD"], Message(dev, "DATA"))
  <2> DEFINE m == Message(dev, "DATA")
  <2>1. dev' = [dev EXCEPT !.fb = "START_DOWNLOAD"]
        /\ main' = [pc |-> "write", ops |-> Tail(main.ops), msg |-> m]
    BY <1>10, Zenon DEF ThenWrite
  <2>2. m \in Msg
    BY <1>2, MessageType, Zenon
  <2> HIDE DEF m
  <2>3. /\ dev' \in Dev /\ SameReads(dev, dev') /\ SameEngine(dev, dev') /\ SameFlags(dev, dev')
        /\ dev'.fb = "START_DOWNLOAD"
    BY <1>2, <2>1, ZenonT(60) DEF Dev, SameReads, SameEngine, SameFlags
  <2>4. Sound(dev')
    BY <1>2, <2>3, EngineChange, Zenon DEF SameEngine
  <2>5. dev.dlsize > 0
    BY <1>1, <1>2, <1>10, Constants DEF MainOK
  <2>6. Fit(dev')
    BY <2>3, <2>4, <2>5, Zenon DEF Fit, SameEngine
  <2> QED BY <1>1, <1>2, <1>10, <2>1, <2>2, <2>3, <2>6, HandlerStep, Zenon
            DEF SameEngine, SameReads, SameFlags
<1>11. CASE Head(main.ops) = "reset" /\ ThenRun([dev EXCEPT !.recv = 0])
  <2>1. /\ dev' = [dev EXCEPT !.recv = 0]
        /\ main' = [main EXCEPT !.ops = Tail(@), !.pc = IF Len(main.ops) = 1 THEN "loop" ELSE "run"]
    BY <1>11, Zenon DEF ThenRun
  <2>2. /\ dev' \in Dev /\ SameReads(dev, dev') /\ Stays(dev, dev') /\ dev'.fb = dev.fb
        /\ dev'.txbuf = dev.txbuf
    BY <1>2, <2>1, ZenonT(60) DEF Dev, SameReads, Stays
  <2>3. Fit(dev')
    BY <1>2, <2>2, FitSame, Zenon DEF Stays
  <2> QED BY <1>1, <1>2, <1>4, <1>11, <2>1, <2>2, <2>3, HandlerStep, Zenon DEF Stays, SameReads
<1>12. CASE /\ Head(main.ops) = "flush" /\ dev.fb = "TX"
            /\ ThenWrite(PopTx(dev), Head(dev.txbuf))
  <2> DEFINE m == Head(dev.txbuf)
  <2>1. dev' = PopTx(dev) /\ main' = [pc |-> "write", ops |-> Tail(main.ops), msg |-> m]
    BY <1>12, Zenon DEF ThenWrite
  <2>2. dev.txbuf # <<>>
    BY <1>2, <1>12, Zenon DEF Fit
  <2>3. /\ Sound(dev') /\ Stays(dev, dev') /\ SameReads(dev, dev')
        /\ dev'.txbuf = Tail(dev.txbuf) /\ m \in Msg
        /\ dev'.fb = (IF Len(dev.txbuf) = 1 THEN dev.next ELSE dev.fb)
    BY <1>2, <2>1, <2>2, PopTxEffect, Zenon
  <2> HIDE DEF m
  <2>4. dev.txbuf \in Seq(Msg) /\ dev.next \in {"COMPLETE", "STOPPING"}
    BY <1>2, Zenon DEF Dev
  <2>5. dev'.fb \in {"COMPLETE", "STOPPING", "TX"} /\ (dev'.fb = "TX" => Len(dev.txbuf) # 1)
    BY <1>12, <2>3, <2>4, Zenon
  <2>6. Len(dev.txbuf) # 1 => Tail(dev.txbuf) # <<>>
    <3>1. Len(dev.txbuf) \in Nat /\ Len(dev.txbuf) # 0 /\ Len(Tail(dev.txbuf)) = Len(dev.txbuf) - 1
      BY <2>2, <2>4
    <3>2. Len(dev.txbuf) # 1 => Len(Tail(dev.txbuf)) # 0
      BY <3>1
    <3> QED BY <3>2, Zenon
  <2>7. Fit(dev')
    BY <2>3, <2>5, <2>6, Zenon DEF Fit
  <2> QED BY <1>1, <1>2, <1>12, <2>1, <2>3, <2>7, HandlerStep, Zenon DEF Stays, SameReads
<1>13. CASE Head(main.ops) = "flush" /\ dev.fb # "TX" /\ ThenRun(dev)
  <2>1. /\ dev' = dev
        /\ main' = [main EXCEPT !.ops = Tail(@), !.pc = IF Len(main.ops) = 1 THEN "loop" ELSE "run"]
    BY <1>13, Zenon DEF ThenRun
  <2> QED BY <1>1, <1>2, <1>4, <1>13, <2>1, HandlerStep, Zenon
<1> QED BY <1>5, <1>6, <1>7, <1>8, <1>9, <1>10, <1>11, <1>12, <1>13, Zenon DEF RunStep

LEMMA JoinOne ==
  ASSUME NEW a, NEW x, NEW y
  PROVE  <<a>> \o <<x, y>> = <<a, x, y>>
<1> DEFINE S == {a, x, y}
           l == <<a>>
           q == <<x, y>>
           t == <<a, x, y>>
<1>1. l \in Seq(S) /\ q \in Seq(S) /\ t \in Seq(S) /\ Len(l) = 1 /\ Len(q) = 2 /\ Len(t) = 3
  OBVIOUS
<1>2. l[1] = a /\ q[1] = x /\ q[2] = y
  BY Zenon
<1>3. t[1] = a /\ t[2] = x /\ t[3] = y
  BY Zenon
<1> HIDE DEF S, l, q, t
<1> DEFINE r == l \o q
<1>4. /\ r \in Seq(S) /\ Len(r) = Len(l) + Len(q)
      /\ \A i \in 1 .. Len(l) + Len(q) : r[i] = IF i <= Len(l) THEN l[i] ELSE q[i - Len(l)]
  BY <1>1, ConcatParts, Zenon
<1> HIDE DEF r
<1>5. Len(r) = 3 /\ \A i \in 1 .. 3 : r[i] = IF i <= 1 THEN l[i] ELSE q[i - 1]
  BY <1>1, <1>4
<1>6. r[1] = t[1] /\ r[2] = t[2] /\ r[3] = t[3]
  BY <1>2, <1>3, <1>5
<1>7. \A i \in 1 .. 3 : i = 1 \/ i = 2 \/ i = 3
  OBVIOUS
<1>8. \A i \in 1 .. Len(r) : r[i] = t[i]
  BY <1>5, <1>6, <1>7, Zenon
<1>9. r = t
  BY <1>1, <1>4, <1>5, <1>8, SameParts, Zenon
<1> QED BY <1>9, Zenon DEF l, q, t, r

LEMMA JoinTwo ==
  ASSUME NEW a, NEW b, NEW x, NEW y
  PROVE  <<a, b>> \o <<x, y>> = <<a, b, x, y>>
<1> DEFINE S == {a, b, x, y}
           l == <<a, b>>
           q == <<x, y>>
           t == <<a, b, x, y>>
<1>1. l \in Seq(S) /\ q \in Seq(S) /\ t \in Seq(S) /\ Len(l) = 2 /\ Len(q) = 2 /\ Len(t) = 4
  OBVIOUS
<1>2. l[1] = a /\ l[2] = b /\ q[1] = x /\ q[2] = y
  BY Zenon
<1>3. t[1] = a /\ t[2] = b /\ t[3] = x /\ t[4] = y
  BY Zenon
<1> HIDE DEF S, l, q, t
<1> DEFINE r == l \o q
<1>4. /\ r \in Seq(S) /\ Len(r) = Len(l) + Len(q)
      /\ \A i \in 1 .. Len(l) + Len(q) : r[i] = IF i <= Len(l) THEN l[i] ELSE q[i - Len(l)]
  BY <1>1, ConcatParts, Zenon
<1> HIDE DEF r
<1>5. Len(r) = 4 /\ \A i \in 1 .. 4 : r[i] = IF i <= 2 THEN l[i] ELSE q[i - 2]
  BY <1>1, <1>4
<1>6. r[1] = t[1] /\ r[2] = t[2] /\ r[3] = t[3] /\ r[4] = t[4]
  BY <1>2, <1>3, <1>5
<1>7. \A i \in 1 .. 4 : i = 1 \/ i = 2 \/ i = 3 \/ i = 4
  OBVIOUS
<1>8. \A i \in 1 .. Len(r) : r[i] = t[i]
  BY <1>5, <1>6, <1>7, Zenon
<1>9. r = t
  BY <1>1, <1>4, <1>5, <1>8, SameParts, Zenon
<1> QED BY <1>9, Zenon DEF l, q, t, r

LEMMA JoinThree ==
  ASSUME NEW a, NEW b, NEW c, NEW x, NEW y
  PROVE  <<a, b, c>> \o <<x, y>> = <<a, b, c, x, y>>
<1> DEFINE S == {a, b, c, x, y}
           l == <<a, b, c>>
           q == <<x, y>>
           t == <<a, b, c, x, y>>
<1>1. l \in Seq(S) /\ q \in Seq(S) /\ t \in Seq(S) /\ Len(l) = 3 /\ Len(q) = 2 /\ Len(t) = 5
  OBVIOUS
<1>2. l[1] = a /\ l[2] = b /\ l[3] = c /\ q[1] = x /\ q[2] = y
  BY Zenon
<1>3. t[1] = a /\ t[2] = b /\ t[3] = c /\ t[4] = x /\ t[5] = y
  BY Zenon
<1> HIDE DEF S, l, q, t
<1> DEFINE r == l \o q
<1>4. /\ r \in Seq(S) /\ Len(r) = Len(l) + Len(q)
      /\ \A i \in 1 .. Len(l) + Len(q) : r[i] = IF i <= Len(l) THEN l[i] ELSE q[i - Len(l)]
  BY <1>1, ConcatParts, Zenon
<1> HIDE DEF r
<1>5. Len(r) = 5 /\ \A i \in 1 .. 5 : r[i] = IF i <= 3 THEN l[i] ELSE q[i - 3]
  BY <1>1, <1>4
<1>6. r[1] = t[1] /\ r[2] = t[2] /\ r[3] = t[3] /\ r[4] = t[4] /\ r[5] = t[5]
  BY <1>2, <1>3, <1>5
<1>7. \A i \in 1 .. 5 : i = 1 \/ i = 2 \/ i = 3 \/ i = 4 \/ i = 5
  OBVIOUS
<1>8. \A i \in 1 .. Len(r) : r[i] = t[i]
  BY <1>5, <1>6, <1>7, Zenon
<1>9. r = t
  BY <1>1, <1>4, <1>5, <1>8, SameParts, ZenonT(60)
<1> QED BY <1>9, Zenon DEF l, q, t, r

\* fastboot_run_cmd starts one of the programs.
LEMMA CommandPrograms ==
  ASSUME NEW c \in [name : CommandNames, n : Nat], c.name # "overlong",
         NEW ops \in FastbootRunCmd(c)
  PROVE  LET p == ops \o <<"reset", "flush">>
         IN /\ p \in Programs /\ p # <<>> /\ Head(p) # "data"
            /\ Head(p) = "size" /\ p[2] = "data" => c.n \in 1 .. MaxSize
<1> DEFINE p == ops \o <<"reset", "flush">>
<1>1. /\ ops \in {<<"okay">>, <<"fail">>, <<"info", "info", "okay">>, <<"stop", "okay">>,
                   <<"fail", "okay">>, <<"fail", "fail", "okay">>, <<"size", "data">>, <<"size", "fail">>}
      /\ ops = <<"size", "data">> => c.n \in 1 .. MaxSize
  <2>0. /\ <<"okay">> # <<"size", "data">> /\ <<"fail">> # <<"size", "data">>
        /\ <<"info", "info", "okay">> # <<"size", "data">> /\ <<"stop", "okay">> # <<"size", "data">>
        /\ <<"fail", "okay">> # <<"size", "data">> /\ <<"fail", "fail", "okay">> # <<"size", "data">>
        /\ <<"size", "fail">> # <<"size", "data">>
    BY TupleParts, Zenon
  <2>1. CASE c.name = "flash"
    BY <2>0, <2>1, Zenon DEF FastbootRunCmd, CmdFlash
  <2>2. CASE c.name = "getvar-all"
    BY <2>0, <2>2, Zenon DEF FastbootRunCmd, CmdGetvarAll
  <2>3. CASE c.name = "reboot"
    BY <2>0, <2>3, Zenon DEF FastbootRunCmd, FastbootReboot
  <2>4. CASE c.name = "boot"
    BY <2>0, <2>4, Zenon DEF FastbootRunCmd, CmdBoot, FastbootReboot
  <2>5. CASE c.name = "set_active"
    BY <2>0, <2>5, Zenon DEF FastbootRunCmd, CmdSetActive
  <2>6. CASE c.name = "download"
    BY <2>0, <2>6, Zenon DEF FastbootRunCmd, CmdDownload
  <2>7. CASE c.name = "unknown"
    BY <2>0, <2>7, Zenon DEF FastbootRunCmd
  <2> QED BY <2>1, <2>2, <2>3, <2>4, <2>5, <2>6, <2>7, Zenon DEF CommandNames
<1>2. CASE ops = <<"okay">>
  <2>1. p = <<"okay", "reset", "flush">>
    BY <1>2, JoinOne, Zenon
  <2> HIDE DEF p
  <2>2. p \in Programs
    BY <2>1, Zenon DEF Programs
  <2>3. Head(<<"okay", "reset", "flush">>) = "okay" /\ <<"okay", "reset", "flush">> # <<>>
    BY TupleParts
  <2> QED BY <2>1, <2>2, <2>3, Zenon DEF p
<1>3. CASE ops = <<"fail">>
  <2>1. p = <<"fail", "reset", "flush">>
    BY <1>3, JoinOne, Zenon
  <2> HIDE DEF p
  <2>2. p \in Programs
    BY <2>1, Zenon DEF Programs
  <2>3. Head(<<"fail", "reset", "flush">>) = "fail" /\ <<"fail", "reset", "flush">> # <<>>
    BY TupleParts
  <2> QED BY <2>1, <2>2, <2>3, Zenon DEF p
<1>4. CASE ops = <<"info", "info", "okay">>
  <2>1. p = <<"info", "info", "okay", "reset", "flush">>
    BY <1>4, JoinThree
  <2> HIDE DEF p
  <2>2. p \in Programs
    BY <2>1, Zenon DEF Programs
  <2>3. Head(<<"info", "info", "okay", "reset", "flush">>) = "info" /\ <<"info", "info", "okay", "reset", "flush">> # <<>>
    BY TupleParts
  <2> QED BY <2>1, <2>2, <2>3, Zenon DEF p
<1>5. CASE ops = <<"stop", "okay">>
  <2>1. p = <<"stop", "okay", "reset", "flush">>
    BY <1>5, JoinTwo, Zenon
  <2> HIDE DEF p
  <2>2. p \in Programs
    BY <2>1, Zenon DEF Programs
  <2>3. Head(<<"stop", "okay", "reset", "flush">>) = "stop" /\ <<"stop", "okay", "reset", "flush">> # <<>>
    BY TupleParts
  <2> QED BY <2>1, <2>2, <2>3, Zenon DEF p
<1>6. CASE ops = <<"fail", "okay">>
  <2>1. p = <<"fail", "okay", "reset", "flush">>
    BY <1>6, JoinTwo, Zenon
  <2> HIDE DEF p
  <2>2. p \in Programs
    BY <2>1, Zenon DEF Programs
  <2>3. Head(<<"fail", "okay", "reset", "flush">>) = "fail" /\ <<"fail", "okay", "reset", "flush">> # <<>>
    BY TupleParts
  <2> QED BY <2>1, <2>2, <2>3, Zenon DEF p
<1>7. CASE ops = <<"fail", "fail", "okay">>
  <2>1. p = <<"fail", "fail", "okay", "reset", "flush">>
    BY <1>7, JoinThree
  <2> HIDE DEF p
  <2>2. p \in Programs
    BY <2>1, Zenon DEF Programs
  <2>3. Head(<<"fail", "fail", "okay", "reset", "flush">>) = "fail" /\ <<"fail", "fail", "okay", "reset", "flush">> # <<>>
    BY TupleParts
  <2> QED BY <2>1, <2>2, <2>3, ZenonT(60) DEF p
<1>8. CASE ops = <<"size", "data">>
  <2>1. p = <<"size", "data", "reset", "flush">>
    BY <1>8, JoinTwo, Zenon
  <2> HIDE DEF p
  <2>2. p \in Programs
    BY <2>1, Zenon DEF Programs
  <2>3. Head(<<"size", "data", "reset", "flush">>) = "size" /\ <<"size", "data", "reset", "flush">> # <<>>
    BY TupleParts
  <2>4. <<"size", "data", "reset", "flush">>[2] = "data"
    BY TupleParts, Zenon
  <2> QED BY <1>1, <1>8, <2>1, <2>2, <2>3, <2>4, Zenon DEF p
<1>9. CASE ops = <<"size", "fail">>
  <2>1. p = <<"size", "fail", "reset", "flush">>
    BY <1>9, JoinTwo, Zenon
  <2> HIDE DEF p
  <2>2. p \in Programs
    BY <2>1, Zenon DEF Programs
  <2>3. Head(<<"size", "fail", "reset", "flush">>) = "size" /\ <<"size", "fail", "reset", "flush">> # <<>>
    BY TupleParts
  <2>4. <<"size", "fail", "reset", "flush">>[2] = "fail"
    BY TupleParts, Zenon
  <2> QED BY <1>1, <1>9, <2>1, <2>2, <2>3, <2>4, Zenon DEF p
<1> QED BY <1>1, <1>2, <1>3, <1>4, <1>5, <1>6, <1>7, <1>8, <1>9, Zenon

LEMMA CommandType ==
  ASSUME TypeOK, UpOK
  PROVE  Command \in [name : CommandNames, n : Nat]
<1>1. host.log \in Seq(Commands) /\ dev.cmd \in 0 .. Len(host.log)
  BY Zenon DEF TypeOK, UpOK
<1>2. CASE dev.cmd = 0
  BY <1>2, Zenon DEF Command, CommandNames
<1>3. CASE dev.cmd # 0
  <2>1. Command \in Commands
    BY <1>1, <1>3 DEF Command
  <2> QED BY <2>1, FastbootAssumption, Zenon
<1> QED BY <1>2, <1>3, Zenon

LEMMA RunCommandKeeps ==
  ASSUME Inv, FastbootRunCommand
  PROVE  Inv'
<1>1. /\ main.pc = "loop" /\ dev.fb = "COMMAND" /\ Command.name # "overlong"
      /\ up' = up /\ host' = host /\ drops' = drops
  BY Zenon DEF FastbootRunCommand
<1>2. PICK ops \in FastbootRunCmd(Command) :
        /\ main' = [main EXCEPT !.pc = "run", !.ops = ops \o <<"reset", "flush">>]
        /\ dev' = [dev EXCEPT !.twice = @ \/ (ops[1] = "fail" /\ Len(ops) > 1)]
  BY Zenon DEF FastbootRunCommand
<1> DEFINE p == ops \o <<"reset", "flush">>
           t == dev.twice \/ (ops[1] = "fail" /\ Len(ops) > 1)
<1>3. Fit(dev) /\ TypeOK /\ UpOK /\ MainOK /\ HostOK /\ LogOK /\ ~dev.dangling /\ dev \in Dev
  BY Zenon DEF Inv, TypeOK
<1>4. Command \in [name : CommandNames, n : Nat]
  BY <1>3, CommandType, Zenon
<1>5. /\ p \in Programs /\ p # <<>> /\ Head(p) # "data"
      /\ Head(p) = "size" /\ p[2] = "data" => Command.n \in 1 .. MaxSize
  BY <1>1, <1>4, CommandPrograms, Zenon
<1>6. main' = [main EXCEPT !.pc = "run", !.ops = p] /\ dev' = [dev EXCEPT !.twice = t]
  BY <1>2, Zenon
<1>7. t \in BOOLEAN
  BY <1>3, Zenon DEF Dev
<1> HIDE DEF p, t
<1>8. /\ dev' \in Dev /\ SameReads(dev, dev') /\ SameEngine(dev, dev') /\ dev'.fb = dev.fb
      /\ dev'.dangling = dev.dangling
  BY <1>3, <1>6, <1>7, ZenonT(60) DEF Dev, SameReads, SameEngine
<1>9. Fit(dev')
  BY <1>3, <1>8, FitSame, Zenon DEF SameEngine
<1>10. main'.pc = "run" /\ main'.ops = p
  BY <1>3, <1>6, Zenon DEF TypeOK
<1>11. TypeOK'
  <2>1. p \in Seq(Op)
    BY <1>5, ProgramsType, Zenon
  <2> QED BY <1>1, <1>3, <1>6, <1>8, <2>1, Zenon DEF TypeOK
<1>12. MainOK'
  <2>1. Command' = Command
    BY <1>1, <1>8, Zenon DEF Command, SameEngine
  <2> QED BY <1>1, <1>5, <1>8, <1>10, <2>1, Zenon DEF MainOK
<1>13. UpOK'
  BY <1>1, <1>3, <1>8, UpSame, Zenon DEF SameEngine, SameReads
<1>14. HostOK' /\ LogOK'
  BY <1>1, <1>3, Zenon DEF HostOK, Asked, LogOK
<1> QED BY <1>3, <1>8, <1>9, <1>11, <1>12, <1>13, <1>14, Zenon DEF Inv

\* What the host sends is made of sizes and of the units it frames.
LEMMA FrameUnits ==
  ASSUME NEW units \in Seq(Unit)
  PROVE  /\ Frame(units) \in Seq(Unit)
         /\ \A i \in 1 .. Len(Frame(units)) :
              \/ Frame(units)[i] = [k |-> "size", v |-> Len(units)]
              \/ \E j \in 1 .. Len(units) : Frame(units)[i] = units[j]
<1> DEFINE x == [k |-> "size", v |-> Len(units)]
           h == Units("size", Len(units), SizeLen)
<1>1. x \in Unit
  BY DEF Unit
<1>2. h \in Seq(Unit) /\ Len(h) = SizeLen /\ \A i \in 1 .. SizeLen : h[i] = x
  <2>1. h = [i \in 1 .. SizeLen |-> x]
    BY Zenon DEF Units
  <2> HIDE DEF h, x
  <2> QED BY <1>1, <2>1, Constants
<1> HIDE DEF h, x
<1>3. CASE dev.link = "tcp"
  <2> DEFINE f == h \o units
  <2>1. Frame(units) = f
    BY <1>3, Zenon DEF Frame, h
  <2>2. /\ f \in Seq(Unit) /\ Len(f) = Len(h) + Len(units)
        /\ \A i \in 1 .. Len(h) + Len(units) : f[i] = IF i <= Len(h) THEN h[i] ELSE units[i - Len(h)]
    BY <1>2, ConcatParts, Zenon
  <2> HIDE DEF f
  <2>3. ASSUME NEW i \in 1 .. Len(f)
        PROVE  f[i] = x \/ \E j \in 1 .. Len(units) : f[i] = units[j]
    <3>1. CASE i <= SizeLen
      <4>1. i \in 1 .. SizeLen /\ i \in 1 .. Len(h) + Len(units)
        BY <1>2, <2>2, <3>1, Constants, SMTT(30)
      <4> QED BY <1>2, <2>2, <3>1, <4>1, Zenon
    <3>2. CASE ~(i <= SizeLen)
      <4>1. i - SizeLen \in 1 .. Len(units)
        BY <1>2, <2>2, <3>2, Constants, SMTT(30)
      <4>2. f[i] = units[i - SizeLen]
        BY <1>2, <2>2, <3>2, Zenon
      <4> QED BY <4>1, <4>2, Zenon
    <3> QED BY <3>1, <3>2, Zenon
  <2> QED BY <2>1, <2>2, <2>3, Zenon DEF x
<1>4. CASE dev.link # "tcp"
  BY <1>4, Zenon DEF Frame
<1> QED BY <1>3, <1>4, Zenon

\* The invariant of the stream, when more is sent
LEMMA StreamGrows ==
  ASSUME UpOK, up \in Seq(Unit), NEW units \in Seq(Unit), units # <<>>, up' = up \o Frame(units),
         dev' = dev, host.log \in Seq(Commands), host'.log \in Seq(Commands),
         Len(host.log) <= Len(host'.log),
         \A j \in 1 .. Len(units) : /\ units[j].k \in {"cmd", "dl"} /\ units[j].v > 0
                                    /\ units[j].k = "cmd" => units[j].v <= Len(host'.log)
  PROVE  up' \in Seq(Unit) /\ UpOK'
<1> DEFINE f == Frame(units)
<1>1. /\ f \in Seq(Unit)
      /\ \A i \in 1 .. Len(f) : \/ f[i] = [k |-> "size", v |-> Len(units)]
                                \/ \E j \in 1 .. Len(units) : f[i] = units[j]
  BY FrameUnits, Zenon
<1> HIDE DEF f
<1>2. /\ up' \in Seq(Unit) /\ Len(up') = Len(up) + Len(f)
      /\ \A i \in 1 .. Len(up) + Len(f) : up'[i] = IF i <= Len(up) THEN up[i] ELSE f[i - Len(up)]
  BY <1>1, ConcatParts DEF f
<1>3. Len(units) \in Nat \ {0} /\ Len(host.log) \in Nat /\ Len(host'.log) \in Nat
  OBVIOUS
<1>4. dev'.cmd \in 0 .. Len(host'.log)
  BY <1>3, SMTT(30) DEF UpOK
<1>5. ASSUME NEW i \in 1 .. Len(up')
      PROVE  /\ up'[i].k = "cmd" => up'[i].v <= Len(host'.log)
             /\ up'[i].k # "ver" => up'[i].v > 0
             /\ up'[i].k = "ver" => i = 1 /\ dev'.link = "tcp" /\ dev'.ts = "INITIALIZING"
  <2>1. CASE i <= Len(up)
    <3>1. i \in 1 .. Len(up) /\ up'[i] = up[i]
      BY <1>1, <1>2, <2>1
    <3>2. up[i] \in Unit
      BY <3>1
    <3>3. up[i].k = "cmd" => up[i].v <= Len(host'.log)
      <4>1. up[i].v \in Nat /\ (up[i].k = "cmd" => up[i].v <= Len(host.log))
        BY <3>1, <3>2, Zenon DEF UpOK, Unit
      <4> QED BY <1>3, <4>1
    <3> QED BY <3>1, <3>3, Zenon DEF UpOK
  <2>2. CASE ~(i <= Len(up))
    <3>1. i - Len(up) \in 1 .. Len(f) /\ up'[i] = f[i - Len(up)]
      BY <1>1, <1>2, <2>2, SMTT(30)
    <3>2. CASE up'[i] = [k |-> "size", v |-> Len(units)]
      <4>1. up'[i].k = "size" /\ up'[i].v = Len(units)
        BY <3>2
      <4> QED BY <1>3, <4>1
    <3>3. CASE \E j \in 1 .. Len(units) : up'[i] = units[j]
      <4>1. PICK j \in 1 .. Len(units) : up'[i] = units[j]
        BY <3>3, Zenon
      <4> QED BY <4>1, Zenon
    <3> QED BY <1>1, <3>1, <3>2, <3>3, Zenon
  <2> QED BY <2>1, <2>2, Zenon
<1> QED BY <1>2, <1>4, <1>5, Zenon DEF UpOK

LEMMA SendCommandKeeps ==
  ASSUME Inv, SendCommand
  PROVE  Inv'
<1>1. /\ host.pc = "ready" /\ dev' = dev /\ main' = main /\ drops' = drops
      /\ up' = up \o Frame(Units("cmd", Len(host.log) + 1, 1))
  BY Zenon DEF SendCommand
<1>2. PICK c \in Commands :
        host' = [host EXCEPT !.pc = "wait", !.log = Append(@, c),
                             !.loaded = IF c.name = "download" THEN 0 ELSE @]
  BY Zenon DEF SendCommand
<1>3. Fit(dev) /\ TypeOK /\ UpOK /\ MainOK /\ HostOK /\ LogOK /\ ~dev.dangling
  BY Zenon DEF Inv
<1> DEFINE H == [pc : {"off", "greet", "ready", "wait", "send"}, log : Seq(Commands),
                 left : Nat, loaded : Nat]
           n == Len(host.log)
           u == Units("cmd", n + 1, 1)
<1>4. host \in H /\ host.log \in Seq(Commands) /\ n \in Nat /\ up \in Seq(Unit)
  BY <1>3 DEF TypeOK
<1>5. Append(host.log, c) \in Seq(Commands) /\ Append(host.log, c) # <<>>
      /\ Len(Append(host.log, c)) = n + 1 /\ \A i \in 1 .. n : Append(host.log, c)[i] = host.log[i]
  BY <1>4, AppendParts, AppendSome
<1>6. host' \in H /\ host'.log = Append(host.log, c) /\ host'.pc = "wait"
  BY <1>2, <1>4, <1>5, Zenon
<1>7. u \in Seq(Unit) /\ Len(u) = 1 /\ u[1] = [k |-> "cmd", v |-> n + 1]
  BY <1>4 DEF Units, Unit
<1>8. u # <<>> /\ \A j \in 1 .. Len(u) : /\ u[j].k \in {"cmd", "dl"} /\ u[j].v > 0
                                         /\ u[j].k = "cmd" => u[j].v <= Len(host'.log)
  <2>0. u # <<>>
    <3>1. u \in Seq(Unit) /\ Len(u) = 1
      BY <1>7, Zenon
    <3> HIDE DEF u
    <3> QED BY <3>1
  <2>1. \A j \in 1 .. Len(u) : j = 1
    BY <1>7
  <2>2. u[1].k = "cmd" /\ u[1].v = n + 1
    BY <1>7
  <2> HIDE DEF u, n
  <2> QED BY <1>4, <1>5, <1>6, <1>7, <2>0, <2>1, <2>2, SMTT(30)
<1> HIDE DEF u
<1>9. up' \in Seq(Unit) /\ UpOK'
  <2>1. up' = up \o Frame(u)
    BY <1>1, Zenon DEF u
  <2>2. Len(host.log) <= Len(host'.log) /\ host'.log \in Seq(Commands)
    BY <1>4, <1>5, <1>6
  <2> QED BY <1>1, <1>3, <1>4, <1>7, <1>8, <2>1, <2>2, StreamGrows, ZenonT(60)
<1>10. TypeOK'
  BY <1>1, <1>3, <1>6, <1>9, Zenon DEF TypeOK
<1>11. MainOK'
  <2>1. Command' = Command
    <3>1. dev.cmd \in 0 .. n
      BY <1>3, Zenon DEF UpOK
    <3>2. dev.cmd # 0 => host'.log[dev.cmd] = host.log[dev.cmd]
      BY <1>4, <1>5, <1>6, <3>1, SMTT(30)
    <3> QED BY <1>1, <3>2, Zenon DEF Command
  <2> QED BY <1>1, <1>3, <2>1, Zenon DEF MainOK
<1>12. HostOK' /\ LogOK'
  BY <1>5, <1>6, Zenon DEF HostOK, LogOK
<1> QED BY <1>1, <1>3, <1>9, <1>10, <1>11, <1>12, Zenon DEF Inv

LEMMA AskedType ==
  ASSUME TypeOK, host.log # <<>>
  PROVE  Asked \in Commands /\ Asked.n \in Nat
<1>1. host.log \in Seq(Commands)
  BY Zenon DEF TypeOK
<1>2. Asked \in Commands
  BY <1>1 DEF Asked
<1> QED BY <1>2, FastbootAssumption, Zenon

LEMMA ReadAnswerKeeps ==
  ASSUME Inv, ReadAnswer
  PROVE  Inv'
<1> DEFINE code == Head(dev.down).code
           H == [pc : {"off", "greet", "ready", "wait", "send"}, log : Seq(Commands),
                 left : Nat, loaded : Nat]
<1>1. /\ dev.down # <<>> /\ dev' = [dev EXCEPT !.down = Tail(@)]
      /\ main' = main /\ up' = up /\ drops' = drops
      /\ host' = CASE code = "VERSION" -> [host EXCEPT !.pc = "ready"]
                   [] code = "INFO" -> host
                   [] code = "DATA" -> [host EXCEPT !.pc = "send", !.left = Asked.n]
                   [] code = "FAIL" -> [host EXCEPT !.pc = "ready"]
                   [] code = "OKAY" ->
                        [host EXCEPT !.pc = "ready",
                          !.loaded = IF Asked.name = "download" THEN Asked.n ELSE @]
  BY Zenon DEF ReadAnswer
<1>2. Fit(dev) /\ TypeOK /\ UpOK /\ MainOK /\ HostOK /\ LogOK /\ ~dev.dangling /\ dev \in Dev
  BY Zenon DEF Inv, TypeOK
<1>3. /\ dev.down \in Seq(Msg) /\ Head(dev.down) \in Msg /\ Tail(dev.down) \in Seq(Msg)
      /\ Len(Tail(dev.down)) = Len(dev.down) - 1
      /\ \A i \in 1 .. Len(Tail(dev.down)) : Tail(dev.down)[i] = dev.down[i + 1]
      /\ Head(dev.down) = dev.down[1] /\ 1 \in 1 .. Len(dev.down)
  <2>1. dev.down \in Seq(Msg)
    BY <1>2, Zenon DEF Dev
  <2> QED BY <1>1, <2>1, TailParts, SMTT(30)
<1>4. code \in {"VERSION", "INFO", "OKAY", "FAIL", "DATA"}
  BY <1>3, Zenon DEF Msg
<1>5. host.log = <<>> => code = "VERSION"
  BY <1>2, <1>3, Zenon DEF LogOK
<1> HIDE DEF code
<1>6. host \in H
  BY <1>2, Zenon DEF TypeOK
<1>7. host' \in H /\ host'.log = host.log /\ HostOK'
  <2>1. CASE code \in {"VERSION", "FAIL"}
    <3>1. host' = [host EXCEPT !.pc = "ready"]
      BY <1>1, <2>1, Zenon
    <3> QED BY <1>6, <3>1, Zenon DEF HostOK
  <2>2. CASE code = "INFO"
    <3>1. host' = host
      BY <1>1, <2>2, Zenon
    <3> QED BY <1>2, <1>6, <3>1, Zenon DEF HostOK, Asked
  <2>3. CASE code = "DATA"
    <3>1. host' = [host EXCEPT !.pc = "send", !.left = Asked.n]
      BY <1>1, <2>3, Zenon
    <3>2. host.log # <<>> /\ Asked.n \in Nat
      BY <1>2, <1>5, <2>3, AskedType, Zenon
    <3>3. host' \in H /\ host'.log = host.log /\ host'.left = Asked.n
      BY <1>6, <3>1, <3>2, Zenon
    <3>4. Asked' = Asked
      BY <3>3, Zenon DEF Asked
    <3> QED BY <3>2, <3>3, <3>4 DEF HostOK
  <2>4. CASE code = "OKAY"
    <3>1. host' = [host EXCEPT !.pc = "ready",
                     !.loaded = IF Asked.name = "download" THEN Asked.n ELSE @]
      BY <1>1, <2>4, Zenon
    <3>2. host.log # <<>> /\ Asked.n \in Nat
      BY <1>2, <1>5, <2>4, AskedType, Zenon
    <3> QED BY <1>6, <3>1, <3>2, ZenonT(60) DEF HostOK
  <2> QED BY <1>4, <2>1, <2>2, <2>3, <2>4, Zenon
<1>8. /\ dev' \in Dev /\ SameEngine(dev, dev') /\ SameReads(dev, dev') /\ dev'.fb = dev.fb
      /\ dev'.dangling = dev.dangling /\ dev'.down = Tail(dev.down)
  BY <1>1, <1>2, <1>3, ZenonT(60) DEF Dev, SameEngine, SameReads
<1>9. Fit(dev')
  BY <1>2, <1>8, FitSame, Zenon DEF SameEngine
<1>10. TypeOK'
  BY <1>1, <1>2, <1>7, <1>8, Zenon DEF TypeOK
<1>11. MainOK'
  BY <1>1, <1>2, <1>7, <1>8, MainSame, Zenon DEF SameEngine
<1>12. UpOK'
  BY <1>1, <1>2, <1>7, <1>8, UpSame, Zenon DEF SameEngine, SameReads
<1>13. LogOK'
  <2>1. ASSUME host.log = <<>>, NEW i \in 1 .. Len(dev'.down) PROVE dev'.down[i].code = "VERSION"
    <3>1. dev'.down[i] = dev.down[i + 1] /\ i + 1 \in 1 .. Len(dev.down)
      BY <1>3, <1>8
    <3> QED BY <1>2, <2>1, <3>1, Zenon DEF LogOK
  <2> QED BY <1>1, <1>2, <1>7, <1>8, <2>1, Zenon DEF LogOK, SameEngine
<1> QED BY <1>2, <1>7, <1>8, <1>9, <1>10, <1>11, <1>12, <1>13, Zenon DEF Inv

LEMMA SendDataKeeps ==
  ASSUME Inv, SendData
  PROVE  Inv'
<1>1. host.pc = "send" /\ dev' = dev /\ main' = main /\ drops' = drops
  BY Zenon DEF SendData
<1>2. PICK k \in 1 .. host.left :
        /\ up' = up \o Frame([i \in 1 .. k |-> [k |-> "dl", v |-> Asked.n - host.left + i]])
        /\ host' = [host EXCEPT !.left = @ - k, !.pc = IF k = host.left THEN "wait" ELSE @]
  BY Zenon DEF SendData
<1>3. Fit(dev) /\ TypeOK /\ UpOK /\ MainOK /\ HostOK /\ LogOK /\ ~dev.dangling
  BY Zenon DEF Inv
<1> DEFINE H == [pc : {"off", "greet", "ready", "wait", "send"}, log : Seq(Commands),
                 left : Nat, loaded : Nat]
           u == [i \in 1 .. k |-> [k |-> "dl", v |-> Asked.n - host.left + i]]
<1>4. host \in H /\ up \in Seq(Unit) /\ host.log # <<>> /\ host.left <= Asked.n
  BY <1>1, <1>3, Zenon DEF TypeOK, HostOK
<1>5. host.left \in Nat /\ Asked.n \in Nat /\ k \in Nat /\ k > 0 /\ k <= host.left
  BY <1>3, <1>4, AskedType
<1>6. host' \in H /\ host'.log = host.log /\ host'.left = host.left - k
  <2>1. host.left - k \in Nat
    BY <1>5
  <2>2. PICK pc \in {"wait", host.pc} : host' = [host EXCEPT !.left = @ - k, !.pc = pc]
    <3>1. CASE k = host.left
      BY <1>2, <3>1, Zenon
    <3>2. CASE k # host.left
      BY <1>2, <1>4, <3>2, Zenon
    <3> QED BY <3>1, <3>2, Zenon
  <2>3. pc \in {"off", "greet", "ready", "wait", "send"}
    BY <1>1, <2>2, Zenon
  <2> QED BY <1>4, <2>1, <2>2, <2>3, Zenon
<1>7. \A i \in 1 .. k : Asked.n - host.left + i \in Nat \ {0}
  BY <1>4, <1>5
<1>8. \A i \in 1 .. k : u[i].k = "dl" /\ u[i].v \in Nat \ {0} /\ u[i] \in Unit
  BY <1>7, Zenon DEF Unit
<1>9. u \in Seq(Unit) /\ Len(u) = k /\ u # <<>>
  <2>1. u = [i \in 1 .. k |-> u[i]]
    BY Zenon
  <2> HIDE DEF u
  <2>2. u \in Seq(Unit) /\ Len(u) = k
    BY <1>5, <1>8, <2>1
  <2> QED BY <1>5, <2>2
<1>10. up' = up \o Frame(u)
  BY <1>2, Zenon
<1> HIDE DEF u
<1>11. \A j \in 1 .. Len(u) : /\ u[j].k \in {"cmd", "dl"} /\ u[j].v > 0
                              /\ u[j].k = "cmd" => u[j].v <= Len(host'.log)
  BY <1>8, <1>9
<1>12. up' \in Seq(Unit) /\ UpOK'
  <2>1. Len(host.log) <= Len(host'.log) /\ host'.log \in Seq(Commands) /\ host.log \in Seq(Commands)
    BY <1>4, <1>6
  <2> QED BY <1>1, <1>3, <1>4, <1>9, <1>10, <1>11, <2>1, StreamGrows, ZenonT(60)
<1>13. TypeOK'
  BY <1>1, <1>3, <1>6, <1>12, Zenon DEF TypeOK
<1>14. MainOK'
  BY <1>1, <1>3, <1>6, MainSame, Zenon
<1>15. HostOK'
  <2>1. host'.left <= Asked.n
    BY <1>4, <1>5, <1>6
  <2> QED BY <1>4, <1>6, <2>1, Zenon DEF HostOK, Asked
<1>16. LogOK'
  BY <1>4, <1>6, Zenon DEF LogOK
<1> QED BY <1>1, <1>3, <1>12, <1>13, <1>14, <1>15, <1>16, Zenon DEF Inv

LEMMA InitHolds ==
  ASSUME Init
  PROVE  Inv
<1>1. PICK link \in Links :
        dev = [link |-> link, conn |-> "listen", fb |-> "OFFLINE", next |-> "COMPLETE",
               txbuf |-> <<>>, recv |-> 0, dlsize |-> 0, dl |-> [i \in 1 .. MaxSize |-> 0],
               cmd |-> 0, ts |-> "OFFLINE", remaining |-> 0,
               frx |-> [buf |-> [at |-> "cmd", off |-> 0], size |-> 0, used |-> 0],
               rx |-> [buf |-> [at |-> "cmd", off |-> 0], size |-> 0, received |-> 0,
                       requested |-> 0, receiving |-> FALSE],
               rxq |-> <<>>, tx |-> [i \in 0 .. MaxToken - 1 |-> FALSE], nexttx |-> 0,
               txq |-> <<>>, down |-> <<>>,
               astray |-> FALSE, dangling |-> FALSE, overtaken |-> FALSE,
               twice |-> FALSE, stale |-> FALSE]
  BY ZenonT(60) DEF Init
<1>2. /\ main = [pc |-> "loop", ops |-> <<>>, msg |-> [code |-> "none", id |-> 0]]
      /\ up = <<>> /\ host = [pc |-> "off", log |-> <<>>, left |-> 0, loaded |-> 0] /\ drops = 0
  BY Zenon DEF Init
<1>3. dev \in Dev
  <2>1. [buf |-> [at |-> "cmd", off |-> 0], size |-> 0, used |-> 0] \in Frx
    BY Zenon DEF Frx, Buf
  <2>2. [buf |-> [at |-> "cmd", off |-> 0], size |-> 0, received |-> 0,
         requested |-> 0, receiving |-> FALSE] \in Rx
    BY Zenon DEF Rx, Buf
  <2>3. [i \in 1 .. MaxSize |-> 0] \in [1 .. MaxSize -> Nat]
    BY Zenon
  <2>4. [i \in 0 .. MaxToken - 1 |-> FALSE] \in [Token -> BOOLEAN] /\ 0 \in Token
    BY Constants DEF Token
  <2>5. link \in {"tcp", "usb"}
    BY FastbootAssumption, Zenon
  <2>6. <<>> \in Seq(Msg) /\ <<>> \in Seq(Nat \ {0}) /\ <<>> \in Seq(Token)
    BY SMTT(30)
  <2> QED BY <1>1, <2>1, <2>2, <2>3, <2>4, <2>5, <2>6, Zenon DEF Dev
<1>4. TypeOK
  BY <1>2, <1>3, SMTT(30) DEF TypeOK, NoMsg
<1>5. Fit(dev) /\ ~dev.dangling
  BY <1>1, <1>3, Zenon DEF Fit, Sound, Reading, Covered
<1>6. MainOK
  BY <1>2, Zenon DEF MainOK, Programs
<1>7. UpOK /\ HostOK /\ LogOK
  BY <1>1, <1>2, SMTT(30) DEF UpOK, HostOK, LogOK
<1> QED BY <1>4, <1>5, <1>6, <1>7, Zenon DEF Inv

LEMMA NextKeeps ==
  ASSUME Inv, [Next]_vars
  PROVE  Inv'
<1>1. CASE UNCHANGED vars
  <2>1. dev' = dev /\ main' = main /\ up' = up /\ host' = host /\ drops' = drops
    BY <1>1, Zenon DEF vars
  <2> QED BY <2>1, ZenonT(60) DEF Inv, TypeOK, MainOK, Command, UpOK, HostOK, Asked, LogOK
<1>2. CASE Device
  BY <1>2, ReceiveKeeps, SentKeeps, ReceiveFinKeeps, ConnectionClosedKeeps, RunCommandKeeps,
     RunKeeps, WriteKeeps, LeaveKeeps, Zenon DEF Device
<1>3. CASE Host
  BY <1>3, ConnectKeeps, SendCommandKeeps, ReadAnswerKeeps, SendDataKeeps, DropKeeps, Zenon DEF Host
<1>4. CASE UserLeaves
  BY <1>4, LeaveKeeps, Zenon
<1> QED BY <1>1, <1>2, <1>3, <1>4, Zenon DEF Next

LEMMA Inductive == Spec => []Inv
<1>1. Init => Inv
  BY InitHolds, Zenon
<1>2. Inv /\ [Next]_vars => Inv'
  BY NextKeeps, Zenon
<1> QED BY <1>1, <1>2, PTL DEF Spec

\* Every state of the device, of the main loop, of the stream and of the host
\* has its type, whatever the sizes of tokens, fragments and buffers and the
\* commands; in particular rx_size_remaining and the lengths of the tokens of
\* tcp.c never go below zero.
THEOREM TypeCorrect == Spec => []TypeOK
<1>1. Inv => TypeOK
  BY Zenon DEF Inv
<1> QED BY <1>1, Inductive, PTL

\* The receive tokens of tcp.c: while a connection is up a read in progress has
\* a token with the stack, none is left when it is over, and what the tokens ask
\* for is what tcp_read counts and fits in the buffer, for any number of tokens
\* and any fragment size.
THEOREM ReadsCovered == Spec => []ReadsAreCovered
<1>1. Inv => ReadsAreCovered
  <2> SUFFICES ASSUME Inv, dev.link = "tcp", dev.conn = "up"
               PROVE  /\ dev.rx.receiving <=> dev.rxq # <<>>
                      /\ dev.rx.receiving =>
                           /\ dev.rx.requested = Sum(dev.rxq)
                           /\ dev.rx.received + dev.rx.requested <= dev.rx.size
    BY Zenon DEF ReadsAreCovered
  <2> QED BY Zenon DEF Inv, Fit, Sound, Covered, Reading
<1> QED BY <1>1, Inductive, PTL

\* tcp_read and tcp_write are never called for the connection that
\* connection_closed has reset, although a command may be running when the peer
\* goes away and its answers come after (the first half of InStep).
THEOREM NeverDangles == Spec => []~dev.dangling
<1>1. Inv => ~dev.dangling
  BY Zenon DEF Inv
<1> QED BY <1>1, Inductive, PTL
=============================================================================
