----------------------- MODULE FastbootDeviceProofs -----------------------
(***************************************************************************)
(* Lemmas about the operations of Fastboot on the device: what a read, a   *)
(* write, the engine and the events of the link do to the counters, the    *)
(* buffers and the tokens, for any sizes of reads, tokens, frames and      *)
(* buffers.  FastbootProofs puts them together.                            *)
(***************************************************************************)
EXTENDS Fastboot, WellFoundedInduction, TLAPS

-----------------------------------------------------------------------------
(* Sums *)

\* Induction on the naturals, for a set that holds 0 and every successor.
Below == {p \in Nat \X Nat : p[1] < p[2]}

LEMMA SetInduction ==
  ASSUME NEW S, 0 \in S, \A n \in Nat : n \in S => n + 1 \in S
  PROVE  Nat \subseteq S
<1> SUFFICES ASSUME Nat \ S # {} PROVE FALSE
  BY Zenon
<1>1. IsWellFoundedOn(Below, Nat)
  BY NatLessThanWellFounded, Zenon DEF OpToRel, Below
<1>2. PICK x \in Nat \ S : \A y \in Nat \ S : ~(<<y, x>> \in Below)
  BY <1>1, WFMin, Zenon
<1>3. x # 0 /\ x - 1 \in Nat
  OBVIOUS
<1>4. <<x - 1, x>> \in Below
  BY <1>3 DEF Below
<1>5. x - 1 \in S
  BY <1>2, <1>3, <1>4, Zenon
<1> QED BY <1>3, <1>5

\* f is the function of the partial sums of s, as the definition of Sum has it.
SumStep(s, f, n) == IF n = 0 THEN 0 ELSE f[n - 1] + s[n]

LEMMA SumsExist ==
  ASSUME NEW s, NEW k \in Nat
  PROVE  \E f : f = [n \in 0 .. k |-> SumStep(s, f, n)]
<1> DEFINE S == {j \in Nat : \E f : f = [n \in 0 .. j |-> SumStep(s, f, n)]}
<1>1. 0 \in S
  <2> DEFINE f == [n \in 0 .. 0 |-> 0]
  <2>1. f = [n \in 0 .. 0 |-> SumStep(s, f, n)]
    BY DEF SumStep
  <2> QED BY <2>1, Zenon
<1>2. ASSUME NEW j \in Nat, j \in S PROVE j + 1 \in S
  <2>1. PICK f : f = [n \in 0 .. j |-> SumStep(s, f, n)]
    BY <1>2, Zenon
  <2> DEFINE g == [n \in 0 .. j + 1 |-> IF n <= j THEN f[n] ELSE SumStep(s, f, n)]
  <2>2. \A n \in 0 .. j + 1 : n # 0 => n - 1 \in 0 .. j /\ g[n - 1] = f[n - 1]
    OBVIOUS
  <2>3. \A n \in 0 .. j + 1 : SumStep(s, g, n) = SumStep(s, f, n)
    BY <2>2 DEF SumStep
  <2>4. \A n \in 0 .. j + 1 : g[n] = SumStep(s, f, n)
    BY <2>1
  <2> HIDE DEF g
  <2>5. g = [n \in 0 .. j + 1 |-> g[n]]
    BY Zenon DEF g
  <2>6. g = [n \in 0 .. j + 1 |-> SumStep(s, g, n)]
    BY <2>3, <2>4, <2>5, Zenon
  <2> QED BY <2>6
<1> HIDE DEF S
<1>3. Nat \subseteq S
  BY <1>1, <1>2, SetInduction, Zenon
<1> QED BY <1>3, Zenon DEF S

\* f holds the partial sums of s.
Sums(s, f) ==
  /\ f \in [0 .. Len(s) -> Nat] /\ f[0] = 0
  /\ \A n \in 1 .. Len(s) : f[n] = f[n - 1] + s[n]

LEMMA SumIs ==
  ASSUME NEW s \in Seq(Nat)
  PROVE  \E f : Sums(s, f) /\ Sum(s) = f[Len(s)]
<1> DEFINE f == CHOOSE g : g = [n \in 0 .. Len(s) |-> SumStep(s, g, n)]
<1>0. Len(s) \in Nat
  OBVIOUS
<1>1. \E g : g = [n \in 0 .. Len(s) |-> SumStep(s, g, n)]
  BY <1>0, SumsExist, Zenon
<1>2. f = [n \in 0 .. Len(s) |-> SumStep(s, f, n)]
  BY <1>1, Zenon
<1>3. Sum(s) = f[Len(s)]
  BY Zenon DEF Sum, SumStep
<1> HIDE DEF f
<1>4. \A n \in 0 .. Len(s) : f[n] = SumStep(s, f, n)
  BY <1>2, Zenon
<1>5. f[0] = 0
  BY <1>0, <1>4 DEF SumStep
<1>6. \A n \in 1 .. Len(s) : f[n] = f[n - 1] + s[n]
  BY <1>0, <1>4 DEF SumStep
<1> DEFINE S == {j \in Nat : j <= Len(s) => f[j] \in Nat}
<1>7. 0 \in S
  BY <1>5
<1>8. ASSUME NEW j \in Nat, j \in S PROVE j + 1 \in S
  <2> SUFFICES ASSUME j + 1 <= Len(s) PROVE f[j + 1] \in Nat
    OBVIOUS
  <2>1. j + 1 \in 1 .. Len(s) /\ (j + 1) - 1 = j /\ f[j] \in Nat /\ s[j + 1] \in Nat
    BY <1>8
  <2>2. f[j + 1] = f[j] + s[j + 1]
    BY <1>6, <2>1, Zenon
  <2> QED BY <2>1, <2>2
<1> HIDE DEF S
<1>9. Nat \subseteq S
  BY <1>7, <1>8, SetInduction, Zenon
<1>10. \A n \in 0 .. Len(s) : f[n] \in Nat
  BY <1>0, <1>9 DEF S
<1>11. f \in [0 .. Len(s) -> Nat]
  BY <1>2, <1>4, <1>10, Zenon
<1> QED BY <1>3, <1>5, <1>6, <1>11, Zenon DEF Sums

\* A function with the differences of the partial sums gives the sum.
LEMMA SumFrom ==
  ASSUME NEW s \in Seq(Nat), NEW g, g[0] = 0, \A n \in 1 .. Len(s) : g[n] = g[n - 1] + s[n]
  PROVE  Sum(s) = g[Len(s)]
<1>0. Len(s) \in Nat
  OBVIOUS
<1>1. PICK f : Sums(s, f) /\ Sum(s) = f[Len(s)]
  BY SumIs, Zenon
<1> DEFINE S == {j \in Nat : j <= Len(s) => f[j] = g[j]}
<1>3. 0 \in S
  BY <1>1, Zenon DEF Sums
<1>4. ASSUME NEW j \in Nat, j \in S PROVE j + 1 \in S
  <2> SUFFICES ASSUME j + 1 <= Len(s) PROVE f[j + 1] = g[j + 1]
    OBVIOUS
  <2>1. j + 1 \in 1 .. Len(s) /\ (j + 1) - 1 = j /\ f[j] = g[j]
    BY <1>4
  <2>2. f[j + 1] = f[j] + s[j + 1] /\ g[j + 1] = g[j] + s[j + 1]
    BY <1>1, <2>1, Zenon DEF Sums
  <2> QED BY <2>1, <2>2, Zenon
<1> HIDE DEF S
<1>5. Nat \subseteq S
  BY <1>3, <1>4, SetInduction, Zenon
<1> QED BY <1>0, <1>1, <1>5 DEF S

LEMMA SumNat ==
  ASSUME NEW s \in Seq(Nat)
  PROVE  Sum(s) \in Nat
BY SumIs DEF Sums

LEMMA SumEmpty == Sum(<<>>) = 0
<1> DEFINE g == [n \in {0} |-> 0]
<1>1. <<>> \in Seq(Nat) /\ Len(<<>>) = 0 /\ g[0] = 0 /\ 1 .. 0 = {}
  OBVIOUS
<1> HIDE DEF g
<1>2. Sum(<<>>) = g[0]
  BY <1>1, SumFrom, Zenon
<1> QED BY <1>1, <1>2, Zenon

LEMMA SumAppend ==
  ASSUME NEW s \in Seq(Nat), NEW x \in Nat
  PROVE  Sum(Append(s, x)) = Sum(s) + x
<1>1. PICK f : Sums(s, f) /\ Sum(s) = f[Len(s)]
  BY SumIs, Zenon
<1> DEFINE t == Append(s, x)
           g == [n \in 0 .. Len(s) + 1 |-> IF n <= Len(s) THEN f[n] ELSE f[Len(s)] + x]
<1>2. /\ f \in [0 .. Len(s) -> Nat] /\ f[0] = 0
      /\ \A n \in 1 .. Len(s) : f[n] = f[n - 1] + s[n]
  BY <1>1, Zenon DEF Sums
<1>3. /\ t \in Seq(Nat) /\ Len(t) = Len(s) + 1 /\ t[Len(s) + 1] = x
      /\ \A n \in 1 .. Len(s) : t[n] = s[n]
  OBVIOUS
<1>4. g[0] = 0 /\ g[Len(t)] = f[Len(s)] + x
  BY <1>2, <1>3
<1>5. ASSUME NEW n \in 1 .. Len(t) PROVE g[n] = g[n - 1] + t[n]
  <2>1. CASE n <= Len(s)
    BY <1>2, <1>3, <2>1
  <2>2. CASE n = Len(s) + 1
    BY <1>3, <2>2
  <2> QED BY <1>3, <2>1, <2>2
<1> HIDE DEF g, t
<1>6. Sum(t) = g[Len(t)]
  BY <1>3, <1>4, <1>5, SumFrom, Zenon
<1> QED BY <1>1, <1>4, <1>6, Zenon DEF t

LEMMA SumTail ==
  ASSUME NEW s \in Seq(Nat), s # <<>>
  PROVE  Sum(s) = Head(s) + Sum(Tail(s))
<1>1. PICK f : Sums(s, f) /\ Sum(s) = f[Len(s)]
  BY SumIs, Zenon
<1> DEFINE t == Tail(s)
           g == [n \in 0 .. Len(s) - 1 |-> f[n + 1] - s[1]]
<1>2. /\ f \in [0 .. Len(s) -> Nat] /\ f[0] = 0
      /\ \A n \in 1 .. Len(s) : f[n] = f[n - 1] + s[n]
  BY <1>1, Zenon DEF Sums
<1>3. /\ t \in Seq(Nat) /\ Len(t) = Len(s) - 1 /\ Len(s) \in Nat \ {0}
      /\ \A n \in 1 .. Len(t) : t[n] = s[n + 1]
      /\ Head(s) = s[1] /\ s[1] \in Nat
  OBVIOUS
<1>4. f[1] = s[1]
  BY <1>2, <1>3
<1>5. g[0] = 0 /\ g[Len(t)] = f[Len(s)] - s[1]
  BY <1>3, <1>4
<1>6. ASSUME NEW n \in 1 .. Len(t) PROVE g[n] = g[n - 1] + t[n]
  <2>1. n + 1 \in 1 .. Len(s) /\ (n + 1) - 1 = n /\ (n - 1) + 1 = n /\ n \in 0 .. Len(s) - 1
        /\ n - 1 \in 0 .. Len(s) - 1 /\ n \in 0 .. Len(s)
    BY <1>3
  <2>2. f[n + 1] = f[n] + s[n + 1]
    BY <1>2, <2>1, Zenon
  <2>3. g[n] = f[n + 1] - s[1] /\ g[n - 1] = f[n] - s[1]
    BY <2>1, Zenon
  <2>4. f[n] \in Nat
    BY <1>2, <2>1, Zenon
  <2> QED BY <1>3, <2>2, <2>3, <2>4
<1> HIDE DEF g, t
<1>7. Sum(t) = g[Len(t)]
  BY <1>3, <1>5, <1>6, SumFrom, Zenon
<1>8. Sum(s) \in Nat
  BY SumNat, Zenon
<1> QED BY <1>1, <1>3, <1>5, <1>7, <1>8 DEF t

\* The division of tcp_read: how many whole parts come before the last one.
LEMMA WholeParts ==
  ASSUME NEW size \in Nat \ {0}, NEW frag \in Nat \ {0}
  PROVE  LET full == (size - 1) \div frag
         IN full \in Nat /\ full * frag < size /\ size <= (full + 1) * frag
OBVIOUS

\* The tokens of a read of tcp_read.
Tokens(size) ==
  LET full == (size - 1) \div FragSize
      n == Least(MaxToken, full + 1)
  IN [i \in 1 .. n |-> IF i <= full THEN FragSize ELSE size - full * FragSize]

LEMMA TokensCover ==
  ASSUME NEW size \in Nat \ {0}
  PROVE  /\ Tokens(size) \in Seq(Nat \ {0}) /\ Tokens(size) # <<>>
         /\ Sum(Tokens(size)) = Least(size, MaxToken * FragSize)
<1> DEFINE full == (size - 1) \div FragSize
           n == Least(MaxToken, full + 1)
           q == Tokens(size)
           g == [i \in 0 .. n |-> IF i <= full THEN i * FragSize ELSE size]
<1>1. FragSize \in Nat \ {0} /\ MaxToken \in Nat \ {0}
  BY FastbootAssumption, Zenon
<1>2. full \in Nat /\ full * FragSize < size /\ size <= (full + 1) * FragSize
  BY <1>1, WholeParts, Zenon
<1> HIDE DEF full
<1>3. n \in Nat \ {0} /\ n <= full + 1 /\ n <= MaxToken
      /\ (n = full + 1 \/ (n = MaxToken /\ n <= full))
  BY <1>1, <1>2 DEF Least
<1>4. q = [i \in 1 .. n |-> IF i <= full THEN FragSize ELSE size - full * FragSize]
  BY Zenon DEF Tokens, full
<1> HIDE DEF n, q
<1>5. \A i \in 1 .. n : q[i] \in Nat \ {0}
  BY <1>1, <1>2, <1>3, <1>4
<1>6. q \in Seq(Nat \ {0}) /\ Len(q) = n
  BY <1>3, <1>4, <1>5
<1>7. q # <<>>
  BY <1>3, <1>6, Zenon
<1>8. g[0] = 0 /\ \A i \in 1 .. n : g[i] = g[i - 1] + q[i]
  <2>1. g[0] = 0
    BY <1>1, <1>2, <1>3
  <2>2. ASSUME NEW i \in 1 .. n PROVE g[i] = g[i - 1] + q[i]
    <3>1. g[i - 1] = (i - 1) * FragSize
      BY <1>1, <1>2, <1>3
    <3>2. CASE i <= full
      <4>1. g[i] = i * FragSize /\ q[i] = FragSize
        BY <1>4, <3>2
      <4>2. i * FragSize = (i - 1) * FragSize + FragSize
        BY <1>1
      <4> QED BY <3>1, <4>1, <4>2, Zenon
    <3>3. CASE i = full + 1
      <4>1. g[i] = size /\ q[i] = size - full * FragSize /\ i - 1 = full
        BY <1>2, <1>4, <3>3
      <4>2. full * FragSize \in Nat
        BY <1>1, <1>2
      <4> QED BY <1>1, <3>1, <4>1, <4>2
    <3> QED BY <1>2, <1>3, <3>2, <3>3
  <2> QED BY <2>1, <2>2, Zenon
<1>9. g[n] = Least(size, MaxToken * FragSize)
  <2>1. CASE n = full + 1
    <3>1. g[n] = size
      BY <1>2, <1>3, <2>1
    <3>2. (full + 1) * FragSize <= MaxToken * FragSize
      BY <1>1, <1>2, <1>3, <2>1
    <3>3. size <= MaxToken * FragSize /\ MaxToken * FragSize \in Nat
      BY <1>1, <1>2, <3>2
    <3> QED BY <3>1, <3>3 DEF Least
  <2>2. CASE n = MaxToken /\ n <= full
    <3>1. g[n] = MaxToken * FragSize
      BY <1>3, <2>2
    <3>2. MaxToken * FragSize <= full * FragSize
      BY <1>1, <1>2, <2>2
    <3>3. MaxToken * FragSize < size /\ MaxToken * FragSize \in Nat
      BY <1>1, <1>2, <3>2
    <3> QED BY <3>1, <3>3 DEF Least
  <2> QED BY <1>3, <2>1, <2>2, Zenon
<1> HIDE DEF g
<1>10. q \in Seq(Nat)
  BY <1>6
<1>11. Sum(q) = g[n]
  BY <1>6, <1>8, <1>10, SumFrom, Zenon
<1> QED BY <1>6, <1>7, <1>9, <1>11, Zenon DEF q

-----------------------------------------------------------------------------
(* Types *)

Msg == [code : {"VERSION", "INFO", "OKAY", "FAIL", "DATA"}, id : Nat]
NoMsg == [code |-> "none", id |-> 0]
Buf == [at : {"cmd", "dl", "size", "ver"}, off : Nat]
Unit == [k : {"ver", "size", "cmd", "dl"}, v : Nat]
Op == {"info", "okay", "fail", "stop", "size", "data", "reset", "flush"}
Token == 0 .. MaxToken - 1
Rx == [buf : Buf, size : Nat, received : Nat, requested : Nat, receiving : BOOLEAN]
Frx == [buf : Buf, size : Nat, used : Nat]

Dev ==
  [link : {"tcp", "usb"}, conn : {"listen", "up", "fin", "reset", "closing"},
   fb : {"OFFLINE", "COMPLETE", "TX", "COMMAND", "START_DOWNLOAD", "DOWNLOAD",
         "STOPPING", "STOPPED", "ERROR"},
   next : {"COMPLETE", "STOPPING"}, txbuf : Seq(Msg), recv : Nat, dlsize : Nat,
   dl : [1 .. MaxSize -> Nat], cmd : Nat,
   ts : {"OFFLINE", "INITIALIZING", "READY", "WAITING_DATA_SIZE", "WAITING_DATA", "ERROR"},
   remaining : Nat, frx : Frx, rx : Rx, rxq : Seq(Nat \ {0}), tx : [Token -> BOOLEAN],
   nexttx : Token, txq : Seq(Token), down : Seq(Msg), astray : BOOLEAN,
   dangling : BOOLEAN, overtaken : BOOLEAN, twice : BOOLEAN, stale : BOOLEAN]

TypeOK ==
  /\ dev \in Dev
  /\ main \in [pc : {"loop", "run", "write", "done"}, ops : Seq(Op), msg : Msg \union {NoMsg}]
  /\ up \in Seq(Unit)
  /\ host \in [pc : {"off", "greet", "ready", "wait", "send"}, log : Seq(Commands),
               left : Nat, loaded : Nat]
  /\ drops \in Nat

LEMMA Constants ==
  /\ MaxToken \in Nat \ {0} /\ FragSize \in Nat \ {0} /\ Block \in Nat \ {0}
  /\ SizeLen \in Nat \ {0} /\ MaxSize \in Nat \ {0}
BY FastbootAssumption, Zenon

\* Groups of fields that an operation leaves alone.
SameEngine(d, r) ==
  /\ r.link = d.link /\ r.next = d.next /\ r.txbuf = d.txbuf
  /\ r.recv = d.recv /\ r.dlsize = d.dlsize /\ r.dl = d.dl /\ r.cmd = d.cmd
SameWrites(d, r) ==
  r.tx = d.tx /\ r.nexttx = d.nexttx /\ r.txq = d.txq /\ r.down = d.down
SameReads(d, r) ==
  /\ r.conn = d.conn /\ r.ts = d.ts /\ r.frx = d.frx /\ r.rx = d.rx /\ r.rxq = d.rxq
  /\ r.remaining = d.remaining
SameFlags(d, r) ==
  /\ r.astray = d.astray /\ r.dangling = d.dangling /\ r.overtaken = d.overtaken
  /\ r.twice = d.twice /\ r.stale = d.stale

-----------------------------------------------------------------------------
(* The reads of the TCP link *)

\* What tcp_read does when nothing is being received.
LEMMA TcpReadEffect ==
  ASSUME NEW d \in Dev, NEW buf \in Buf, NEW size \in Nat \ {0},
         ~d.rx.receiving, d.rxq = <<>>, d.conn # "listen"
  PROVE  LET r == TcpRead(d, buf, size).d
         IN /\ SameEngine(d, r) /\ SameWrites(d, r) /\ SameFlags(d, r)
            /\ r.fb = d.fb /\ r.ts = d.ts /\ r.frx = d.frx /\ r.remaining = d.remaining
            /\ r \in Dev /\ r.rx.buf = buf /\ r.rx.size = size /\ r.rx.received = 0
            /\ d.conn = "up" =>
                 /\ r.conn = "up" /\ r.rx.receiving /\ r.rxq # <<>>
                 /\ r.rx.requested = Sum(r.rxq) /\ r.rx.requested <= size
            /\ d.conn # "up" => r.conn = "closing" /\ ~r.rx.receiving /\ r.rxq = <<>>
            /\ TcpRead(d, buf, size).ok \in BOOLEAN
            /\ d.conn = "up" => TcpRead(d, buf, size).ok
<1> DEFINE want == Least(size, MaxToken * FragSize)
           rx == [buf |-> buf, size |-> size, received |-> 0, receiving |-> TRUE,
                  requested |-> want]
           t == TcpRead(d, buf, size)
<1>1. want \in Nat /\ want <= size
  BY Constants DEF Least
<1> HIDE DEF want
<1>2. rx \in Rx
  BY <1>1, Zenon DEF Rx
<1>3. CASE d.conn = "up"
  <2> DEFINE r == [d EXCEPT !.rx = rx, !.rxq = Tokens(size)]
  <2>1. <<>> \o Tokens(size) = Tokens(size)
    BY TokensCover
  <2>2. t = Done([d EXCEPT !.rx = rx, !.rxq = d.rxq \o Tokens(size)])
    BY <1>3, Zenon DEF TcpRead, Tokens, want
  <2>3. t = Done(r)
    BY <2>1, <2>2, Zenon
  <2> HIDE DEF t
  <2>4. r.rx = rx /\ r.rxq = Tokens(size) /\ r.conn = "up"
    BY <1>3, Zenon DEF Dev
  <2>5. r \in Dev
    BY <1>2, TokensCover, Zenon DEF Dev
  <2>6. /\ SameEngine(d, r) /\ SameWrites(d, r) /\ SameFlags(d, r)
        /\ r.fb = d.fb /\ r.ts = d.ts /\ r.frx = d.frx /\ r.remaining = d.remaining
    BY Zenon DEF Dev, SameEngine, SameWrites, SameFlags
  <2> HIDE DEF r
  <2>7. want = Sum(Tokens(size)) /\ Tokens(size) # <<>>
    BY TokensCover, Zenon DEF want
  <2>8. /\ r.rx.buf = buf /\ r.rx.size = size /\ r.rx.received = 0 /\ r.rx.receiving
        /\ r.rx.requested = want
    BY <2>4
  <2>9. t.d = r /\ t.ok = TRUE
    BY <2>3, Zenon DEF Done
  <2>10. r.rx.requested = Sum(r.rxq) /\ r.rxq # <<>> /\ r.rx.requested <= size
    BY <1>1, <2>4, <2>7, <2>8, Zenon
  <2> QED BY <1>3, <2>4, <2>5, <2>6, <2>8, <2>9, <2>10, Zenon DEF t
<1>4. CASE d.conn # "up"
  <2> DEFINE r == [d EXCEPT !.rx = [rx EXCEPT !.receiving = FALSE], !.conn = "closing"]
  <2>1. t.d = r
    BY <1>4, ZenonT(60) DEF TcpRead, Closing, Dev, want
  <2>2. t.ok \in BOOLEAN
    BY <1>4, Zenon DEF TcpRead
  <2> HIDE DEF t
  <2>3. r.rx = [rx EXCEPT !.receiving = FALSE] /\ r.rxq = <<>> /\ r.conn = "closing"
    BY Zenon DEF Dev
  <2>4. r \in Dev
    BY <1>2, Zenon DEF Dev, Rx
  <2>5. /\ SameEngine(d, r) /\ SameWrites(d, r) /\ SameFlags(d, r)
        /\ r.fb = d.fb /\ r.ts = d.ts /\ r.frx = d.frx /\ r.remaining = d.remaining
    BY Zenon DEF Dev, SameEngine, SameWrites, SameFlags
  <2>6. r.rx.buf = buf /\ r.rx.size = size /\ r.rx.received = 0 /\ ~r.rx.receiving
    BY <2>3, Zenon
  <2> HIDE DEF r
  <2> QED BY <1>4, <2>1, <2>2, <2>3, <2>4, <2>5, <2>6, Zenon DEF t
<1> QED BY <1>3, <1>4, Zenon

\* A read in progress fits the state of the framing and the room that is left.
Reading(d) ==
  \/ d.ts = "INITIALIZING" /\ d.rx.buf.at = "ver" /\ d.rx.size = 1
  \/ /\ d.ts = "WAITING_DATA_SIZE" /\ d.rx.buf.at = "size"
     /\ d.frx.buf.at \in {"cmd", "dl"} /\ d.frx.used = 0 /\ d.frx.size > 0
  \/ /\ d.ts = "WAITING_DATA" /\ d.rx.buf.at = d.frx.buf.at
     /\ d.frx.buf.at \in {"cmd", "dl"}
     /\ d.frx.used + d.rx.size <= d.frx.size /\ d.rx.size <= d.remaining

\* The tokens of a read, and what the states of the connection and of the framing
\* say about it.
Covered(d) ==
  /\ d.rx.receiving <=> d.rxq # <<>>
  /\ d.conn \in {"listen", "closing"} => ~d.rx.receiving /\ d.ts # "READY"
  /\ d.rx.receiving => /\ d.rx.requested = Sum(d.rxq)
                       /\ d.rx.received + d.rx.requested <= d.rx.size
                       /\ Reading(d)

Sound(d) == d \in Dev /\ (d.link = "tcp" => Covered(d))

LEMMA FastbootTcpReadEffect ==
  ASSUME NEW d \in Dev, Covered(d), NEW buf \in Buf, buf.at \in {"cmd", "dl"},
         NEW size \in Nat \ {0}
  PROVE  LET r == FastbootTcpRead(d, buf, size).d
         IN /\ SameEngine(d, r) /\ SameWrites(d, r) /\ SameFlags(d, r)
            /\ r.fb = d.fb /\ r.remaining = d.remaining
            /\ r \in Dev /\ Covered(r)
            /\ FastbootTcpRead(d, buf, size).ok \in BOOLEAN
<1> DEFINE f == FastbootTcpRead(d, buf, size)
<1>1. CASE d.ts # "READY"
  <2>1. f = Refused(d)
    BY <1>1, Zenon DEF FastbootTcpRead
  <2> HIDE DEF f
  <2>2. f.d = d /\ f.ok = FALSE
    BY <2>1, Zenon DEF Refused
  <2> QED BY <2>2, Zenon DEF SameEngine, SameWrites, SameFlags, f
<1>2. CASE d.ts = "READY"
  <2> DEFINE frx == [buf |-> buf, size |-> size, used |-> 0]
             d1 == [d EXCEPT !.frx = frx, !.ts = "WAITING_DATA_SIZE"]
             b == [at |-> "size", off |-> 0]
             t == TcpRead(d1, b, SizeLen)
             r == t.d
  <2>1. f = t
    BY <1>2, Zenon DEF FastbootTcpRead
  <2>2. ~d.rx.receiving /\ d.rxq = <<>> /\ d.conn \notin {"listen", "closing"}
    BY <1>2, Zenon DEF Covered, Reading
  <2>3. b \in Buf /\ SizeLen \in Nat \ {0} /\ frx \in Frx
    BY Constants, Zenon DEF Buf, Frx
  <2>4. /\ d1 \in Dev /\ d1.rx = d.rx /\ d1.rxq = d.rxq /\ d1.conn = d.conn /\ d1.frx = frx
        /\ d1.ts = "WAITING_DATA_SIZE"
    BY <2>3, ZenonT(60) DEF Dev
  <2>5. /\ SameEngine(d, d1) /\ SameWrites(d, d1) /\ SameFlags(d, d1)
        /\ d1.fb = d.fb /\ d1.remaining = d.remaining
    BY Zenon DEF Dev, SameEngine, SameWrites, SameFlags
  <2>6. frx.buf = buf /\ frx.size = size /\ frx.used = 0 /\ b.at = "size"
    BY Zenon
  <2> HIDE DEF d1, frx, b
  <2>7. ~d1.rx.receiving /\ d1.rxq = <<>> /\ d1.conn # "listen"
    BY <2>2, <2>4, Zenon
  <2>8. /\ SameEngine(d1, r) /\ SameWrites(d1, r) /\ SameFlags(d1, r)
        /\ r.fb = d1.fb /\ r.ts = d1.ts /\ r.frx = d1.frx /\ r.remaining = d1.remaining
        /\ r \in Dev /\ r.rx.buf = b /\ r.rx.size = SizeLen /\ r.rx.received = 0
        /\ d1.conn = "up" =>
             /\ r.conn = "up" /\ r.rx.receiving /\ r.rxq # <<>>
             /\ r.rx.requested = Sum(r.rxq) /\ r.rx.requested <= SizeLen
        /\ d1.conn # "up" => r.conn = "closing" /\ ~r.rx.receiving /\ r.rxq = <<>>
        /\ t.ok \in BOOLEAN
    BY <2>3, <2>4, <2>7, TcpReadEffect
  <2> HIDE DEF t
  <2>9. SameEngine(d, r) /\ SameWrites(d, r) /\ SameFlags(d, r)
    BY <2>5, <2>8 DEF SameEngine, SameWrites, SameFlags
  <2>10. r.rx.receiving => Reading(r)
    BY <2>4, <2>6, <2>8 DEF Reading
  <2>11. r.rx.receiving => r.rx.received + r.rx.requested <= r.rx.size
    <3>1. r.rx.requested \in Nat
      BY <2>8, Zenon DEF Dev, Rx
    <3> QED BY <2>8, <3>1
  <2>12. Covered(r)
    BY <2>4, <2>8, <2>10, <2>11, Zenon DEF Covered
  <2> QED BY <2>1, <2>5, <2>8, <2>9, <2>12, Zenon
<1> QED BY <1>1, <1>2, Zenon

LEMMA TransportReadEffect ==
  ASSUME NEW d, Sound(d), NEW buf \in Buf, d.link = "tcp" => buf.at \in {"cmd", "dl"},
         NEW size \in Nat \ {0}
  PROVE  LET r == TransportRead(d, buf, size).d
         IN /\ SameEngine(d, r) /\ SameWrites(d, r) /\ SameFlags(d, r)
            /\ r.fb = d.fb /\ r.remaining = d.remaining /\ Sound(r)
            /\ TransportRead(d, buf, size).ok \in BOOLEAN
<1>1. d \in Dev
  BY Zenon DEF Sound
<1>2. CASE d.link = "tcp"
  <2> DEFINE t == FastbootTcpRead(d, buf, size)
             r == t.d
  <2>1. TransportRead(d, buf, size) = t
    BY <1>2, Zenon DEF TransportRead
  <2>2. /\ SameEngine(d, r) /\ SameWrites(d, r) /\ SameFlags(d, r)
        /\ r.fb = d.fb /\ r.remaining = d.remaining
        /\ r \in Dev /\ Covered(r) /\ t.ok \in BOOLEAN
    BY <1>1, <1>2, FastbootTcpReadEffect, Zenon DEF Sound
  <2> QED BY <2>1, <2>2, Zenon DEF Sound
<1>3. CASE d.link = "usb"
  <2> DEFINE t == UsbRead(d, buf, size)
             n == Least(Block, size)
             e == [d EXCEPT !.rx.buf = buf, !.rxq = Append(@, n)]
  <2>1. TransportRead(d, buf, size) = t
    BY <1>3, Zenon DEF TransportRead
  <2>2. n \in Nat \ {0}
    BY Constants, Zenon DEF Least
  <2>3. t.d \in {d, e} /\ t.ok \in BOOLEAN
    BY Zenon DEF UsbRead, Done, Refused
  <2> HIDE DEF n, t
  <2>4. [d.rx EXCEPT !.buf = buf] \in Rx /\ Append(d.rxq, n) \in Seq(Nat \ {0})
    <3>1. d.rx \in Rx /\ d.rxq \in Seq(Nat \ {0})
      BY <1>1, Zenon DEF Dev
    <3>2. [d.rx EXCEPT !.buf = buf] \in Rx
      BY <3>1, Zenon DEF Rx
    <3> QED BY <2>2, <3>1, <3>2
  <2>5. e \in Dev
    BY <1>1, <2>4, Zenon DEF Dev
  <2>6. /\ SameEngine(d, e) /\ SameWrites(d, e) /\ SameFlags(d, e)
        /\ e.fb = d.fb /\ e.remaining = d.remaining
    BY <1>1, Zenon DEF Dev, SameEngine, SameWrites, SameFlags
  <2>7. SameEngine(d, d) /\ SameWrites(d, d) /\ SameFlags(d, d)
    BY Zenon DEF SameEngine, SameWrites, SameFlags
  <2> HIDE DEF e
  <2>8. Sound(t.d)
    BY <1>1, <1>3, <2>3, <2>5, <2>6, Zenon DEF Sound, SameEngine
  <2> QED BY <2>1, <2>3, <2>6, <2>7, <2>8, Zenon
<1> QED BY <1>1, <1>2, <1>3, Zenon DEF Dev

-----------------------------------------------------------------------------
(* Writes and the engine *)

\* Writes leave the reads alone; a write that is accepted is queued.
LEMMA TcpWriteEffect ==
  ASSUME NEW d \in Dev, NEW msg \in Msg, d.conn # "listen"
  PROVE  LET w == TcpWrite(d, msg)
         IN /\ w.d \in Dev /\ w.ok \in BOOLEAN
            /\ SameEngine(d, w.d) /\ SameReads(d, w.d) /\ SameFlags(d, w.d) /\ w.d.fb = d.fb
            /\ w.ok => w.d.txq = Append(d.txq, d.nexttx) /\ w.d.down = Append(d.down, msg)
            /\ ~w.ok => w.d.txq = d.txq /\ w.d.down = d.down
            /\ w.ok <=> ~d.tx[d.nexttx] /\ d.conn \in {"up", "fin"}
<1> DEFINE w == TcpWrite(d, msg)
           n == (d.nexttx + 1) % MaxToken
           d1 == [d EXCEPT !.tx[d.nexttx] = TRUE, !.nexttx = n]
           d2 == [d1 EXCEPT !.txq = Append(@, d.nexttx), !.down = Append(@, msg)]
<1>1. n \in Token /\ d.nexttx \in Token
  BY Constants, SMTT(30) DEF Dev, Token
<1> HIDE DEF n
<1>2. [d.tx EXCEPT ![d.nexttx] = TRUE] \in [Token -> BOOLEAN]
  BY <1>1, Zenon DEF Dev
<1>3. d1 \in Dev
  BY <1>1, <1>2, Zenon DEF Dev
<1>4. SameEngine(d, d1) /\ SameReads(d, d1) /\ SameFlags(d, d1) /\ d1.fb = d.fb
      /\ d1.txq = d.txq /\ d1.down = d.down
  BY Zenon DEF Dev, SameEngine, SameReads, SameFlags
<1>5. d1 = [d EXCEPT !.tx[d.nexttx] = TRUE, !.nexttx = (@ + 1) % MaxToken,
                     !.dangling = @ \/ d.conn = "listen"]
  BY Zenon DEF Dev, n
<1> HIDE DEF d1
<1>6. w = IF d.tx[d.nexttx] THEN Refused(d)
          ELSE IF d.conn \in {"up", "fin"} THEN Done(d2) ELSE Refused(d1)
  BY <1>5 DEF TcpWrite
<1> HIDE DEF w
<1>7. Append(d1.txq, d.nexttx) \in Seq(Token) /\ Append(d1.down, msg) \in Seq(Msg)
  BY <1>1, <1>3 DEF Dev
<1>8. d2 \in Dev
  BY <1>3, <1>7, Zenon DEF Dev
<1>9. SameEngine(d1, d2) /\ SameReads(d1, d2) /\ SameFlags(d1, d2) /\ d2.fb = d1.fb
      /\ d2.txq = Append(d1.txq, d.nexttx) /\ d2.down = Append(d1.down, msg)
  BY <1>3, Zenon DEF Dev, SameEngine, SameReads, SameFlags
<1> HIDE DEF d2
<1>10. SameEngine(d, d2) /\ SameReads(d, d2) /\ SameFlags(d, d2) /\ d2.fb = d.fb
       /\ d2.txq = Append(d.txq, d.nexttx) /\ d2.down = Append(d.down, msg)
  BY <1>4, <1>9, Zenon DEF SameEngine, SameReads, SameFlags
<1>11. SameEngine(d, d) /\ SameReads(d, d) /\ SameFlags(d, d)
  BY Zenon DEF SameEngine, SameReads, SameFlags
<1>12. CASE d.tx[d.nexttx]
  <2>1. w.d = d /\ w.ok = FALSE
    BY <1>6, <1>12, Zenon DEF Refused
  <2> QED BY <1>11, <1>12, <2>1, Zenon DEF w
<1>13. CASE ~d.tx[d.nexttx] /\ d.conn \in {"up", "fin"}
  <2>1. w.d = d2 /\ w.ok = TRUE
    BY <1>6, <1>13, Zenon DEF Done
  <2> QED BY <1>8, <1>10, <1>13, <2>1, Zenon DEF w
<1>14. CASE ~d.tx[d.nexttx] /\ d.conn \notin {"up", "fin"}
  <2>1. w.d = d1 /\ w.ok = FALSE
    BY <1>6, <1>14, Zenon DEF Refused
  <2> QED BY <1>3, <1>4, <1>14, <2>1, Zenon DEF w
<1> QED BY <1>12, <1>13, <1>14, Zenon

LEMMA SameSame == \A d : SameEngine(d, d) /\ SameWrites(d, d) /\ SameReads(d, d) /\ SameFlags(d, d)
BY Zenon DEF SameEngine, SameWrites, SameReads, SameFlags

\* Being covered only depends on the state of the reads.
LEMMA CoveredSame ==
  ASSUME NEW d, NEW r, Covered(d), SameReads(d, r)
  PROVE  Covered(r)
BY Zenon DEF Covered, Reading, SameReads

CanWrite(d) ==
  IF d.link = "tcp" THEN d.ts = "READY" /\ ~d.tx[d.nexttx] /\ d.conn \in {"up", "fin"}
  ELSE d.conn = "up"

LEMMA TransportWriteEffect ==
  ASSUME NEW d, Sound(d), NEW msg \in Msg
  PROVE  LET w == TransportWrite(d, msg)
         IN /\ Sound(w.d) /\ w.ok \in BOOLEAN
            /\ SameEngine(d, w.d) /\ SameReads(d, w.d) /\ SameFlags(d, w.d) /\ w.d.fb = d.fb
            /\ w.ok => w.d.down = Append(d.down, msg)
                       /\ \E x \in Token : w.d.txq = Append(d.txq, x)
            /\ ~w.ok => w.d.txq = d.txq /\ w.d.down = d.down
            /\ w.ok <=> CanWrite(d)
<1> DEFINE w == TransportWrite(d, msg)
<1>0. d \in Dev
  BY Zenon DEF Sound
<1>1. CASE d.link = "tcp" /\ d.ts # "READY"
  <2>1. w = Refused(d)
    BY <1>1, Zenon DEF TransportWrite, FastbootTcpWrite
  <2> HIDE DEF w
  <2>2. w.d = d /\ w.ok = FALSE
    BY <2>1, Zenon DEF Refused
  <2> QED BY <1>1, <2>2, SameSame, Zenon DEF w, CanWrite
<1>2. CASE d.link = "tcp" /\ d.ts = "READY"
  <2> DEFINE t == TcpWrite(d, msg)
  <2>1. w = t
    BY <1>2, Zenon DEF TransportWrite, FastbootTcpWrite
  <2>2. d.conn # "listen"
    BY <1>2, Zenon DEF Sound, Covered
  <2>3. /\ t.d \in Dev /\ t.ok \in BOOLEAN
        /\ SameEngine(d, t.d) /\ SameReads(d, t.d) /\ SameFlags(d, t.d) /\ t.d.fb = d.fb
        /\ t.ok => t.d.txq = Append(d.txq, d.nexttx) /\ t.d.down = Append(d.down, msg)
        /\ ~t.ok => t.d.txq = d.txq /\ t.d.down = d.down
        /\ t.ok <=> ~d.tx[d.nexttx] /\ d.conn \in {"up", "fin"}
    BY <1>0, <2>2, TcpWriteEffect, Zenon
  <2> HIDE DEF t, w
  <2>4. d.nexttx \in Token
    BY <1>0, Zenon DEF Dev
  <2>5. Covered(t.d)
    BY <1>2, <2>3, CoveredSame, Zenon DEF Sound
  <2> QED BY <1>2, <2>1, <2>3, <2>4, <2>5, Zenon DEF w, CanWrite, Sound
<1>3. CASE d.link = "usb"
  <2> DEFINE e == [d EXCEPT !.txq = Append(@, 0), !.down = Append(@, msg)]
  <2>1. w = IF d.conn # "up" THEN Refused(d) ELSE Done(e)
    BY <1>3, Zenon DEF TransportWrite, UsbWrite
  <2> HIDE DEF w
  <2>2. 0 \in Token
    BY Constants DEF Token
  <2>3. Append(d.txq, 0) \in Seq(Token) /\ Append(d.down, msg) \in Seq(Msg)
    BY <1>0, <2>2 DEF Dev
  <2>4. e \in Dev
    BY <1>0, <2>3, Zenon DEF Dev
  <2>5. SameEngine(d, e) /\ SameReads(d, e) /\ SameFlags(d, e) /\ e.fb = d.fb
        /\ e.txq = Append(d.txq, 0) /\ e.down = Append(d.down, msg)
    BY <1>0, Zenon DEF Dev, SameEngine, SameReads, SameFlags
  <2>6. Sound(e)
    BY <1>3, <2>4, <2>5, Zenon DEF Sound, SameEngine
  <2> HIDE DEF e
  <2>7. CASE d.conn # "up"
    <3>1. w.d = d /\ w.ok = FALSE
      BY <2>1, <2>7, Zenon DEF Refused
    <3> QED BY <1>3, <2>7, <3>1, SameSame, Zenon DEF w, CanWrite
  <2>8. CASE d.conn = "up"
    <3>1. w.d = e /\ w.ok = TRUE
      BY <2>1, <2>8, Zenon DEF Done
    <3> QED BY <1>3, <2>2, <2>5, <2>6, <2>8, <3>1, Zenon DEF w, CanWrite
  <2> QED BY <2>7, <2>8, Zenon
<1> QED BY <1>0, <1>1, <1>2, <1>3, Zenon DEF Dev

\* Changes of the engine alone
LEMMA EngineChange ==
  ASSUME NEW d, NEW r \in Dev, Sound(d), SameReads(d, r), r.link = d.link
  PROVE  Sound(r)
BY CoveredSame, Zenon DEF Sound

LEMMA WrittenEffect ==
  ASSUME NEW d, Sound(d), NEW msg \in Msg
  PROVE  LET r == Written(d, msg)
         IN /\ Sound(r) /\ SameEngine(d, r) /\ SameReads(d, r) /\ SameFlags(d, r)
            /\ CanWrite(d) => /\ r.fb = d.fb /\ r.down = Append(d.down, msg)
                              /\ \E x \in Token : r.txq = Append(d.txq, x)
            /\ ~CanWrite(d) => r.fb = "ERROR" /\ r.txq = d.txq /\ r.down = d.down
<1> DEFINE w == TransportWrite(d, msg)
           e == [w.d EXCEPT !.fb = "ERROR"]
<1>1. Written(d, msg) = IF w.ok THEN w.d ELSE e
  BY Zenon DEF Written
<1>2. /\ Sound(w.d) /\ w.ok \in BOOLEAN
      /\ SameEngine(d, w.d) /\ SameReads(d, w.d) /\ SameFlags(d, w.d) /\ w.d.fb = d.fb
      /\ w.ok => w.d.down = Append(d.down, msg) /\ \E x \in Token : w.d.txq = Append(d.txq, x)
      /\ ~w.ok => w.d.txq = d.txq /\ w.d.down = d.down
      /\ w.ok <=> CanWrite(d)
  BY TransportWriteEffect, Zenon
<1> HIDE DEF w
<1>3. w.d \in Dev
  BY <1>2, Zenon DEF Sound
<1>4. e \in Dev /\ e.fb = "ERROR" /\ e.txq = w.d.txq /\ e.down = w.d.down
  BY <1>3, ZenonT(60) DEF Dev
<1>5. SameEngine(w.d, e) /\ SameReads(w.d, e) /\ SameFlags(w.d, e)
  BY <1>3, Zenon DEF Dev, SameEngine, SameReads, SameFlags
<1> HIDE DEF e
<1>6. SameEngine(d, e) /\ SameReads(d, e) /\ SameFlags(d, e)
  BY <1>2, <1>5, Zenon DEF SameEngine, SameReads, SameFlags
<1>7. Sound(e)
  BY <1>4, <1>6, EngineChange, Zenon DEF SameEngine
<1> QED BY <1>1, <1>2, <1>4, <1>6, <1>7, Zenon

\* The fields that neither a read nor an answer changes.
Stays(d, r) ==
  /\ r.link = d.link /\ r.next = d.next /\ r.dlsize = d.dlsize /\ r.dl = d.dl
  /\ r.cmd = d.cmd /\ r.dangling = d.dangling /\ r.overtaken = d.overtaken
  /\ r.twice = d.twice /\ r.stale = d.stale

LEMMA MessageType ==
  ASSUME NEW d \in Dev, NEW code \in {"INFO", "OKAY", "FAIL", "DATA"}
  PROVE  Message(d, code) \in Msg
BY Zenon DEF Dev, Message, Msg

LEMMA AckBufferedEffect ==
  ASSUME NEW d, Sound(d), NEW code \in {"INFO", "OKAY", "FAIL"}
  PROVE  LET r == AckBuffered(d, code)
         IN /\ Sound(r) /\ Stays(d, r) /\ r.recv = d.recv /\ r.astray = d.astray
            /\ SameReads(d, r) /\ SameWrites(d, r)
            /\ r.fb = "TX" /\ r.txbuf = Append(d.txbuf, Message(d, code))
<1> DEFINE r == AckBuffered(d, code)
<1>1. d \in Dev
  BY Zenon DEF Sound
<1>2. Append(d.txbuf, Message(d, code)) \in Seq(Msg)
  BY <1>1, MessageType, SMTT(30) DEF Dev
<1>3. r \in Dev
  BY <1>1, <1>2, Zenon DEF AckBuffered, Dev
<1>4. /\ Stays(d, r) /\ r.recv = d.recv /\ r.astray = d.astray
      /\ SameReads(d, r) /\ SameWrites(d, r)
      /\ r.fb = "TX" /\ r.txbuf = Append(d.txbuf, Message(d, code))
  BY <1>1, Zenon DEF AckBuffered, Dev, Stays, SameReads, SameWrites
<1> HIDE DEF r
<1>5. Sound(r)
  BY <1>3, <1>4, EngineChange, Zenon DEF Stays
<1> QED BY <1>4, <1>5, Zenon DEF r

LEMMA AckStateEffect ==
  ASSUME NEW d, Sound(d)
  PROVE  LET r == AckState(d)
         IN /\ Sound(r) /\ SameEngine(d, r) /\ SameReads(d, r) /\ SameWrites(d, r)
            /\ SameFlags(d, r) /\ r.fb = d.next /\ (CanWrite(r) <=> CanWrite(d))
<1> DEFINE r == AckState(d)
<1>1. d \in Dev
  BY Zenon DEF Sound
<1>2. r \in Dev /\ r.fb = d.next
  BY <1>1, ZenonT(60) DEF AckState, Dev
<1>3. SameEngine(d, r) /\ SameReads(d, r) /\ SameWrites(d, r) /\ SameFlags(d, r)
  BY <1>1, Zenon DEF AckState, Dev, SameEngine, SameReads, SameWrites, SameFlags
<1> HIDE DEF r
<1>4. Sound(r)
  BY <1>2, <1>3, EngineChange, Zenon DEF SameEngine
<1>5. CanWrite(r) <=> CanWrite(d)
  BY <1>3, Zenon DEF CanWrite, SameEngine, SameReads, SameWrites
<1> QED BY <1>2, <1>3, <1>4, <1>5, Zenon DEF r

\* fastboot_ack, in a handler's place or from an event
LEMMA AckEffect ==
  ASSUME NEW d, Sound(d), NEW code \in {"OKAY", "FAIL"}
  PROVE  LET r == Ack(d, code)
         IN /\ Sound(r) /\ Stays(d, r) /\ r.recv = d.recv /\ r.astray = d.astray
            /\ SameReads(d, r)
            /\ d.fb = "TX" => /\ r.fb = "TX" /\ SameWrites(d, r)
                              /\ r.txbuf = Append(d.txbuf, Message(d, code))
            /\ d.fb # "TX" =>
                 /\ r.txbuf = d.txbuf
                 /\ CanWrite(d) => /\ r.fb = d.next /\ r.down = Append(d.down, Message(d, code))
                                   /\ \E x \in Token : r.txq = Append(d.txq, x)
                 /\ ~CanWrite(d) => r.fb = "ERROR" /\ r.txq = d.txq /\ r.down = d.down
<1> DEFINE m == Message(d, code)
           e == AckState(d)
<1>1. CASE d.fb = "TX"
  <2>1. Ack(d, code) = AckBuffered(d, code)
    BY <1>1, Zenon DEF Ack
  <2> QED BY <1>1, <2>1, AckBufferedEffect
<1>2. CASE d.fb # "TX"
  <2> DEFINE r == Written(e, m)
  <2>1. Ack(d, code) = r
    BY <1>2, Zenon DEF Ack
  <2>2. m \in Msg
    BY MessageType, Zenon DEF Sound
  <2>3. /\ Sound(e) /\ SameEngine(d, e) /\ SameReads(d, e) /\ SameWrites(d, e)
        /\ SameFlags(d, e) /\ e.fb = d.next /\ (CanWrite(e) <=> CanWrite(d))
    BY AckStateEffect, Zenon
  <2> HIDE DEF e, m
  <2>4. /\ Sound(r) /\ SameEngine(e, r) /\ SameReads(e, r) /\ SameFlags(e, r)
        /\ CanWrite(e) => /\ r.fb = e.fb /\ r.down = Append(e.down, m)
                          /\ \E x \in Token : r.txq = Append(e.txq, x)
        /\ ~CanWrite(e) => r.fb = "ERROR" /\ r.txq = e.txq /\ r.down = e.down
    BY <2>2, <2>3, WrittenEffect, Zenon
  <2> HIDE DEF r
  <2>5. Stays(d, r) /\ r.recv = d.recv /\ r.astray = d.astray /\ r.txbuf = d.txbuf
    BY <2>3, <2>4, Zenon DEF Stays, SameEngine, SameReads, SameFlags
  <2>6. SameReads(d, r)
    BY <2>3, <2>4, Zenon DEF SameReads
  <2>7. e.down = d.down /\ e.txq = d.txq
    BY <2>3, Zenon DEF SameWrites
  <2> QED BY <1>2, <2>1, <2>3, <2>4, <2>5, <2>6, <2>7, Zenon DEF m
<1> QED BY <1>1, <1>2, Zenon

\* flush_tx_buffer
LEMMA PopTxEffect ==
  ASSUME NEW d, Sound(d), d.txbuf # <<>>
  PROVE  LET r == PopTx(d)
         IN /\ Sound(r) /\ Stays(d, r) /\ r.recv = d.recv /\ r.astray = d.astray
            /\ SameReads(d, r) /\ SameWrites(d, r) /\ r.txbuf = Tail(d.txbuf)
            /\ r.fb = (IF Len(d.txbuf) = 1 THEN d.next ELSE d.fb)
            /\ (CanWrite(r) <=> CanWrite(d)) /\ Head(d.txbuf) \in Msg
<1> DEFINE r == PopTx(d)
<1>1. d \in Dev
  BY Zenon DEF Sound
<1>2. Tail(d.txbuf) \in Seq(Msg) /\ Head(d.txbuf) \in Msg
  BY <1>1 DEF Dev
<1>3. r \in Dev
  BY <1>1, <1>2, ZenonT(60) DEF PopTx, Dev
<1>4. /\ Stays(d, r) /\ r.recv = d.recv /\ r.astray = d.astray
      /\ SameReads(d, r) /\ SameWrites(d, r) /\ r.txbuf = Tail(d.txbuf)
      /\ r.fb = (IF Len(d.txbuf) = 1 THEN d.next ELSE d.fb)
  BY <1>1, Zenon DEF PopTx, Dev, Stays, SameReads, SameWrites
<1> HIDE DEF r
<1>5. Sound(r)
  BY <1>3, <1>4, EngineChange, Zenon DEF Stays
<1>6. CanWrite(r) <=> CanWrite(d)
  BY <1>4, Zenon DEF CanWrite, Stays, SameReads, SameWrites
<1> QED BY <1>2, <1>4, <1>5, <1>6, Zenon DEF r

LEMMA FlushEffect ==
  ASSUME NEW d, Sound(d), d.txbuf # <<>>
  PROVE  LET r == FlushTxBuffer(d)
         IN /\ Sound(r) /\ Stays(d, r) /\ r.recv = d.recv /\ r.astray = d.astray
            /\ SameReads(d, r) /\ r.txbuf = Tail(d.txbuf)
            /\ CanWrite(d) => /\ r.fb = (IF Len(d.txbuf) = 1 THEN d.next ELSE d.fb)
                              /\ r.down = Append(d.down, Head(d.txbuf))
                              /\ \E x \in Token : r.txq = Append(d.txq, x)
            /\ ~CanWrite(d) => r.fb = "ERROR" /\ r.txq = d.txq /\ r.down = d.down
<1> DEFINE e == PopTx(d)
           m == Head(d.txbuf)
           r == Written(e, m)
<1>1. FlushTxBuffer(d) = r
  BY Zenon DEF FlushTxBuffer
<1>2. /\ Sound(e) /\ Stays(d, e) /\ e.recv = d.recv /\ e.astray = d.astray
      /\ SameReads(d, e) /\ SameWrites(d, e) /\ e.txbuf = Tail(d.txbuf)
      /\ e.fb = (IF Len(d.txbuf) = 1 THEN d.next ELSE d.fb)
      /\ (CanWrite(e) <=> CanWrite(d)) /\ m \in Msg
  BY PopTxEffect, Zenon
<1> HIDE DEF e, m
<1>3. /\ Sound(r) /\ SameEngine(e, r) /\ SameReads(e, r) /\ SameFlags(e, r)
      /\ CanWrite(e) => /\ r.fb = e.fb /\ r.down = Append(e.down, m)
                        /\ \E x \in Token : r.txq = Append(e.txq, x)
      /\ ~CanWrite(e) => r.fb = "ERROR" /\ r.txq = e.txq /\ r.down = e.down
  BY <1>2, WrittenEffect, Zenon
<1> HIDE DEF r
<1>4. Stays(d, r) /\ r.recv = d.recv /\ r.astray = d.astray /\ r.txbuf = Tail(d.txbuf)
  BY <1>2, <1>3, Zenon DEF Stays, SameEngine, SameReads, SameFlags
<1>5. SameReads(d, r) /\ e.down = d.down /\ e.txq = d.txq
  BY <1>2, <1>3, Zenon DEF SameReads, SameWrites
<1> QED BY <1>1, <1>2, <1>3, <1>4, <1>5, Zenon DEF m

LEMMA StaysSame ==
  ASSUME NEW d, NEW r, SameEngine(d, r), SameFlags(d, r)
  PROVE  Stays(d, r) /\ r.recv = d.recv /\ r.astray = d.astray /\ r.txbuf = d.txbuf
BY Zenon DEF Stays, SameEngine, SameFlags

LEMMA ReadCommandEffect ==
  ASSUME NEW d, Sound(d)
  PROVE  LET r == ReadCommand(d)
         IN /\ SameEngine(d, r) /\ SameWrites(d, r) /\ SameFlags(d, r)
            /\ r.fb = d.fb /\ r.remaining = d.remaining /\ Sound(r)
<1>1. [at |-> "cmd", off |-> 0] \in Buf /\ CmdSize \in Nat \ {0}
  BY DEF Buf, CmdSize
<1>2. [at |-> "cmd", off |-> 0].at \in {"cmd", "dl"}
  BY Zenon
<1> QED BY <1>1, <1>2, TransportReadEffect, Zenon DEF ReadCommand

LEMMA WorkerDownloadEffect ==
  ASSUME NEW d, Sound(d), d.dlsize > 0, d.fb = "START_DOWNLOAD"
  PROVE  LET r == WorkerDownload(d)
         IN /\ Sound(r) /\ Stays(d, r) /\ r.recv = d.recv /\ r.astray = d.astray
            /\ r.txbuf = d.txbuf /\ r.fb \in {"DOWNLOAD", "ERROR", d.next}
<1> DEFINE b == [at |-> "dl", off |-> 0]
           t == TransportRead(d, b, d.dlsize)
           e == [t.d EXCEPT !.fb = "DOWNLOAD"]
           a == Ack(t.d, "FAIL")
<1>1. WorkerDownload(d) = IF t.ok THEN e ELSE a
  BY Zenon DEF WorkerDownload
<1>2. b \in Buf /\ b.at \in {"cmd", "dl"} /\ d.dlsize \in Nat \ {0}
  BY DEF Buf, Sound, Dev
<1>3. /\ SameEngine(d, t.d) /\ SameWrites(d, t.d) /\ SameFlags(d, t.d)
      /\ t.d.fb = d.fb /\ t.d.remaining = d.remaining /\ Sound(t.d) /\ t.ok \in BOOLEAN
  BY <1>2, TransportReadEffect, Zenon
<1> HIDE DEF t
<1>4. Stays(d, t.d) /\ t.d.recv = d.recv /\ t.d.astray = d.astray /\ t.d.txbuf = d.txbuf
  BY <1>3, StaysSame, Zenon
<1>5. CASE t.ok
  <2>1. t.d \in Dev
    BY <1>3, Zenon DEF Sound
  <2>2. e \in Dev /\ e.fb = "DOWNLOAD"
    BY <2>1, ZenonT(60) DEF Dev
  <2>3. SameEngine(t.d, e) /\ SameFlags(t.d, e) /\ SameReads(t.d, e)
    BY <2>1, Zenon DEF Dev, SameEngine, SameFlags, SameReads
  <2> HIDE DEF e
  <2>4. Sound(e)
    BY <1>3, <2>2, <2>3, EngineChange, Zenon DEF SameEngine
  <2>5. Stays(d, e) /\ e.recv = d.recv /\ e.astray = d.astray /\ e.txbuf = d.txbuf
    BY <1>4, <2>3, Zenon DEF Stays, SameEngine, SameFlags, SameReads
  <2> QED BY <1>1, <1>5, <2>2, <2>4, <2>5, Zenon
<1>6. CASE ~t.ok
  <2>1. t.d.fb # "TX"
    BY <1>3, Zenon
  <2>2. /\ Sound(a) /\ Stays(t.d, a) /\ a.recv = t.d.recv /\ a.astray = t.d.astray
        /\ a.txbuf = t.d.txbuf /\ a.fb \in {"ERROR", t.d.next}
    BY <1>3, <2>1, AckEffect, Zenon
  <2> HIDE DEF a
  <2>3. Stays(d, a) /\ t.d.next = d.next
    BY <1>4, <2>2, Zenon DEF Stays
  <2> QED BY <1>1, <1>4, <1>6, <2>2, <2>3, Zenon
<1> QED BY <1>3, <1>5, <1>6, Zenon

\* What the engine can be in the middle of.
Fit(d) ==
  /\ Sound(d)
  /\ d.fb = "TX" => d.txbuf # <<>>
  /\ d.fb = "START_DOWNLOAD" => d.dlsize > 0
  /\ d.link = "tcp" /\ d.fb = "COMMAND" => d.ts = "READY"

\* fastboot_process_tx
LEMMA ProcessTxEffect ==
  ASSUME NEW d, Fit(d)
  PROVE  LET r == FastbootProcessTx(d)
         IN /\ Fit(r) /\ Stays(d, r) /\ r.recv = d.recv
            /\ d.fb \in {"OFFLINE", "COMPLETE"} =>
                 r.fb = d.fb /\ r.down = d.down /\ r.txbuf = d.txbuf
            /\ d.fb = "COMMAND" => r.fb = "COMMAND" /\ SameReads(d, r)
<1> DEFINE r == FastbootProcessTx(d)
<1>0. Sound(d) /\ d \in Dev
  BY Zenon DEF Fit, Sound
<1>1. CASE d.fb = "STOPPING"
  <2>1. r = [d EXCEPT !.fb = "STOPPED"]
    BY <1>1, Zenon DEF FastbootProcessTx
  <2>2. r \in Dev /\ SameEngine(d, r) /\ SameFlags(d, r) /\ SameReads(d, r) /\ r.fb = "STOPPED"
    BY <1>0, <2>1, ZenonT(60) DEF Dev, SameEngine, SameFlags, SameReads
  <2> HIDE DEF r
  <2>3. Sound(r) /\ Stays(d, r) /\ r.recv = d.recv
    BY <1>0, <2>2, EngineChange, StaysSame, Zenon DEF SameReads, SameEngine
  <2> QED BY <1>1, <2>2, <2>3, Zenon DEF Fit, r
<1>2. CASE d.fb = "TX"
  <2>1. r = FlushTxBuffer(d)
    BY <1>2, Zenon DEF FastbootProcessTx
  <2>2. d.txbuf # <<>>
    BY <1>2, Zenon DEF Fit
  <2>3. /\ Sound(r) /\ Stays(d, r) /\ r.recv = d.recv /\ r.txbuf = Tail(d.txbuf)
        /\ (\/ r.fb = "ERROR" \/ r.fb = IF Len(d.txbuf) = 1 THEN d.next ELSE d.fb)
    BY <1>0, <2>1, <2>2, FlushEffect, Zenon
  <2> HIDE DEF r
  <2>4. d.txbuf \in Seq(Msg) /\ d.next \in {"COMPLETE", "STOPPING"}
    BY <1>0, Zenon DEF Dev
  <2>5. ASSUME r.fb = "TX" PROVE r.txbuf # <<>>
    <3>1. Len(d.txbuf) # 1 /\ Len(d.txbuf) \in Nat /\ Len(d.txbuf) # 0
      BY <2>2, <2>3, <2>4, <2>5
    <3>2. Len(Tail(d.txbuf)) = Len(d.txbuf) - 1
      BY <2>2, <2>4
    <3>3. Len(r.txbuf) # 0
      BY <2>3, <3>1, <3>2
    <3> QED BY <3>3
  <2>6. r.fb # "START_DOWNLOAD" /\ r.fb # "COMMAND"
    BY <1>2, <2>3, <2>4, Zenon
  <2> QED BY <1>2, <2>3, <2>5, <2>6, Zenon DEF Fit, r
<1>3. CASE d.fb = "COMPLETE"
  <2>1. r = ReadCommand(d)
    BY <1>3, Zenon DEF FastbootProcessTx
  <2>2. /\ SameEngine(d, r) /\ SameWrites(d, r) /\ SameFlags(d, r)
        /\ r.fb = d.fb /\ r.remaining = d.remaining /\ Sound(r)
    BY <1>0, <2>1, ReadCommandEffect, Zenon
  <2> HIDE DEF r
  <2>3. Stays(d, r) /\ r.recv = d.recv /\ r.txbuf = d.txbuf
    BY <2>2, StaysSame, Zenon
  <2> QED BY <1>3, <2>2, <2>3, Zenon DEF Fit, r, SameWrites
<1>4. CASE d.fb = "START_DOWNLOAD"
  <2>1. r = WorkerDownload(d)
    BY <1>4, Zenon DEF FastbootProcessTx
  <2>2. d.dlsize > 0 /\ d.next \in {"COMPLETE", "STOPPING"}
    BY <1>0, <1>4, Zenon DEF Fit, Dev
  <2>3. /\ Sound(r) /\ Stays(d, r) /\ r.recv = d.recv /\ r.fb \in {"DOWNLOAD", "ERROR", d.next}
    BY <1>0, <1>4, <2>1, <2>2, WorkerDownloadEffect, Zenon
  <2> HIDE DEF r
  <2> QED BY <1>4, <2>2, <2>3, Zenon DEF Fit, r
<1>5. CASE d.fb \notin {"STOPPING", "TX", "COMPLETE", "START_DOWNLOAD"}
  <2>1. r = [d EXCEPT !.astray = TRUE]
    BY <1>5, Zenon DEF FastbootProcessTx
  <2>2. /\ r \in Dev /\ SameEngine(d, r) /\ SameReads(d, r) /\ SameWrites(d, r) /\ r.fb = d.fb
        /\ Stays(d, r)
    BY <1>0, <2>1, ZenonT(60) DEF Dev, SameEngine, SameReads, SameWrites, Stays
  <2> HIDE DEF r
  <2>3. Sound(r) /\ r.recv = d.recv /\ r.txbuf = d.txbuf /\ r.down = d.down
    BY <1>0, <2>2, EngineChange, Zenon DEF SameEngine, SameWrites
  <2> QED BY <1>5, <2>2, <2>3, Zenon DEF Fit, r, SameReads, Stays
<1> QED BY <1>1, <1>2, <1>3, <1>4, <1>5, Zenon

\* fastboot_process_rx
LEMMA ProcessRxEffect ==
  ASSUME NEW d, Fit(d), d.link = "tcp" => d.ts = "READY",
         NEW buf \in Buf, d.link = "tcp" => buf.at \in {"cmd", "dl"}, NEW len \in Nat
  PROVE  LET r == FastbootProcessRx(d, buf, len)
         IN Fit(r) /\ Stays(d, r)
<1> DEFINE r == FastbootProcessRx(d, buf, len)
<1>0. Sound(d) /\ d \in Dev /\ d.next \in {"COMPLETE", "STOPPING"}
  BY Zenon DEF Fit, Sound, Dev
<1>1. CASE d.fb = "DOWNLOAD"
  <2> DEFINE d1 == [d EXCEPT !.recv = @ + len]
             d2 == [d1 EXCEPT !.fb = "COMPLETE"]
             b == [buf EXCEPT !.off = @ + len]
  <2>1. r = IF d1.recv < d.dlsize THEN TransportRead(d1, b, d.dlsize - d1.recv).d
            ELSE Ack(d2, "OKAY")
    BY <1>1, Zenon DEF FastbootProcessRx
  <2>a. d.recv + len \in Nat
    BY <1>0 DEF Dev
  <2>b. d1 \in Dev /\ d1.fb = "DOWNLOAD" /\ d1.recv \in Nat
    BY <1>0, <1>1, <2>a, Zenon DEF Dev
  <2>2. d1 \in Dev /\ SameReads(d, d1) /\ Stays(d, d1) /\ d1.fb = "DOWNLOAD" /\ d1.recv \in Nat
    BY <1>0, <2>b, Zenon DEF Dev, SameReads, Stays
  <2>c. d2 \in Dev /\ d2.fb = "COMPLETE"
    BY <2>b, Zenon DEF Dev
  <2>3. d2 \in Dev /\ SameReads(d, d2) /\ Stays(d, d2) /\ d2.fb = "COMPLETE"
    BY <1>0, <2>c, SMTT(30) DEF Dev, SameReads, Stays
  <2>4. b \in Buf /\ b.at = buf.at
    BY DEF Buf
  <2> HIDE DEF d1, d2, b
  <2>5. Sound(d1) /\ Sound(d2)
    BY <1>0, <2>2, <2>3, EngineChange, Zenon DEF Stays
  <2>6. CASE d1.recv < d.dlsize
    <3> DEFINE size == d.dlsize - d1.recv
    <3>1. size \in Nat \ {0}
      BY <1>0, <2>2, <2>6, SMTT(30) DEF Dev
    <3> HIDE DEF size
    <3>2. r = TransportRead(d1, b, size).d
      BY <2>1, <2>6, Zenon DEF size
    <3>3. SameEngine(d1, r) /\ SameFlags(d1, r) /\ r.fb = d1.fb /\ Sound(r)
      <4>1. d1.link = "tcp" => b.at \in {"cmd", "dl"}
        BY <2>2, <2>4, Zenon DEF Stays
      <4> QED BY <2>4, <2>5, <3>1, <3>2, <4>1, TransportReadEffect
    <3> HIDE DEF r
    <3>4. Stays(d1, r)
      BY <3>3, StaysSame, Zenon
    <3>5. Stays(d, r)
      BY <2>2, <3>4, Zenon DEF Stays
    <3> QED BY <2>2, <3>3, <3>5, Zenon DEF Fit, r
  <2>7. CASE ~(d1.recv < d.dlsize)
    <3>1. r = Ack(d2, "OKAY")
      BY <2>1, <2>7, Zenon
    <3>2. Sound(r) /\ Stays(d2, r) /\ r.fb \in {"ERROR", d2.next}
      BY <2>3, <2>5, <3>1, AckEffect, Zenon
    <3> HIDE DEF r
    <3>3. Stays(d, r) /\ d2.next = d.next
      BY <2>3, <3>2, Zenon DEF Stays
    <3> QED BY <1>0, <3>2, <3>3, Zenon DEF Fit, r
  <2> QED BY <2>6, <2>7, Zenon
<1>2. CASE d.fb = "COMPLETE"
  <2>1. CASE buf.at # "cmd" \/ len >= CmdSize
    <3>1. r = Ack(d, "FAIL")
      BY <1>2, <2>1, Zenon DEF FastbootProcessRx
    <3>2. Sound(r) /\ Stays(d, r) /\ r.fb \in {"ERROR", d.next}
      BY <1>0, <1>2, <3>1, AckEffect, Zenon
    <3> HIDE DEF r
    <3> QED BY <1>0, <3>2, Zenon DEF Fit, r
  <2>2. CASE ~(buf.at # "cmd" \/ len >= CmdSize)
    <3>1. r = [d EXCEPT !.fb = "COMMAND"]
      BY <1>2, <2>2, Zenon DEF FastbootProcessRx
    <3>2. r \in Dev /\ SameReads(d, r) /\ Stays(d, r) /\ r.fb = "COMMAND"
      BY <1>0, <3>1, ZenonT(60) DEF Dev, SameReads, Stays
    <3> HIDE DEF r
    <3>3. Sound(r)
      BY <1>0, <3>2, EngineChange, Zenon DEF Stays
    <3> QED BY <3>2, <3>3, Zenon DEF Fit, r, SameReads, Stays
  <2> QED BY <2>1, <2>2, Zenon
<1>3. CASE d.fb \notin {"DOWNLOAD", "COMPLETE"}
  <2>1. r = [d EXCEPT !.astray = TRUE]
    BY <1>3, Zenon DEF FastbootProcessRx
  <2>2. /\ r \in Dev /\ SameEngine(d, r) /\ SameReads(d, r) /\ Stays(d, r) /\ r.fb = d.fb
    BY <1>0, <2>1, ZenonT(60) DEF Dev, SameEngine, SameReads, Stays
  <2> HIDE DEF r
  <2>3. Sound(r)
    BY <1>0, <2>2, EngineChange, Zenon DEF SameEngine
  <2> QED BY <2>2, <2>3, Zenon DEF Fit, r, SameEngine, SameReads
<1> QED BY <1>1, <1>2, <1>3, Zenon

LEMMA StartCallbackEffect ==
  ASSUME NEW d, Sound(d)
  PROVE  LET r == FastbootStartCallback(d)
         IN /\ SameEngine(d, r) /\ SameWrites(d, r) /\ SameFlags(d, r)
            /\ r.fb = d.next /\ r.remaining = d.remaining /\ Sound(r)
<1> DEFINE e == AckState(d)
           r == ReadCommand(e)
<1>1. FastbootStartCallback(d) = r
  BY Zenon DEF FastbootStartCallback
<1>2. /\ Sound(e) /\ SameEngine(d, e) /\ SameReads(d, e) /\ SameWrites(d, e)
      /\ SameFlags(d, e) /\ e.fb = d.next
  BY AckStateEffect, Zenon
<1> HIDE DEF e
<1>3. /\ SameEngine(e, r) /\ SameWrites(e, r) /\ SameFlags(e, r)
      /\ r.fb = e.fb /\ r.remaining = e.remaining /\ Sound(r)
  BY <1>2, ReadCommandEffect, Zenon
<1> HIDE DEF r
<1>4. SameEngine(d, r) /\ SameWrites(d, r) /\ SameFlags(d, r) /\ r.remaining = d.remaining
  BY <1>2, <1>3, Zenon DEF SameEngine, SameWrites, SameFlags, SameReads
<1> QED BY <1>1, <1>2, <1>3, <1>4, Zenon

\* The copy of received data to its buffer
Copied(dl, at, units) ==
  [i \in 1 .. MaxSize |-> IF i \in at + 1 .. at + Len(units) THEN units[i - at].v ELSE dl[i]]

Stored(d, buf, off, units, r) ==
  /\ r \in Dev
  /\ r.link = d.link /\ r.fb = d.fb /\ r.next = d.next /\ r.txbuf = d.txbuf
  /\ r.recv = d.recv /\ r.dlsize = d.dlsize
  /\ SameWrites(d, r)
  /\ r.conn = d.conn /\ r.ts = d.ts /\ r.frx = d.frx /\ r.rx = d.rx /\ r.rxq = d.rxq
  /\ r.dangling = d.dangling /\ r.overtaken = d.overtaken /\ r.twice = d.twice
  /\ r.stale = d.stale
  /\ r.astray = (d.astray \/ \E i \in DOMAIN units : units[i].k # buf.at)
  /\ r.cmd = IF buf.at = "cmd"
             THEN IF units[1].k = "cmd" THEN units[1].v ELSE 0 ELSE d.cmd
  /\ r.remaining = IF buf.at = "size" THEN units[1].v ELSE d.remaining
  /\ r.dl = IF buf.at = "dl" THEN Copied(d.dl, buf.off + off, units) ELSE d.dl

LEMMA StoreEffect ==
  ASSUME NEW d \in Dev, NEW buf \in Buf, NEW off \in Nat, NEW units \in Seq(Unit), units # <<>>
  PROVE  Stored(d, buf, off, units, Store(d, buf, off, units))
<1> DEFINE stray == d.astray \/ \E i \in DOMAIN units : units[i].k # buf.at
           at == buf.off + off
           dl == [i \in 1 .. MaxSize |->
                   IF i \in at + 1 .. at + Len(units) THEN units[i - at].v ELSE d.dl[i]]
           cmd == IF units[1].k = "cmd" THEN units[1].v ELSE 0
           d1 == [d EXCEPT !.astray = stray]
           r == Store(d, buf, off, units)
<1>1. stray \in BOOLEAN
  BY Zenon DEF Dev
<1>2. at \in Nat
  BY DEF Buf
<1>3. \A i \in DOMAIN units : units[i] \in Unit
  OBVIOUS
<1>4. units[1].v \in Nat /\ cmd \in Nat
  <2>1. 1 \in DOMAIN units
    OBVIOUS
  <2> QED BY <1>3, <2>1, Zenon DEF Unit
<1>5. dl \in [1 .. MaxSize -> Nat]
  <2> SUFFICES ASSUME NEW i \in 1 .. MaxSize PROVE dl[i] \in Nat
    BY Zenon
  <2>1. CASE i \in at + 1 .. at + Len(units)
    <3>1. i - at \in DOMAIN units
      BY <1>2, <2>1, Constants
    <3>2. units[i - at].v \in Nat
      BY <1>3, <3>1, Zenon DEF Unit
    <3> QED BY <2>1, <3>2, Zenon
  <2>2. CASE i \notin at + 1 .. at + Len(units)
    BY <2>2, Zenon DEF Dev
  <2> QED BY <2>1, <2>2, Zenon
<1>6. d1 \in Dev
  BY <1>1, ZenonT(60) DEF Dev
<1>7. r = CASE buf.at = "cmd" -> [d1 EXCEPT !.cmd = cmd]
            [] buf.at = "size" -> [d1 EXCEPT !.remaining = units[1].v]
            [] buf.at = "dl" -> [d1 EXCEPT !.dl = dl]
            [] OTHER -> d1
  <2>1. d1.dl = d.dl
    BY Zenon DEF Dev
  <2> QED BY <2>1, Zenon DEF Store
<1> HIDE DEF stray, dl, cmd, r
<1>8. CASE buf.at = "cmd"
  <2>1. r = [d1 EXCEPT !.cmd = cmd]
    BY <1>7, <1>8, Zenon
  <2>2. r.dl = d.dl /\ r.cmd = cmd /\ r.remaining = d.remaining /\ r.astray = stray
    BY <2>1, Zenon DEF Dev
  <2>3. /\ r \in Dev
        /\ r.link = d.link /\ r.fb = d.fb /\ r.next = d.next /\ r.txbuf = d.txbuf
        /\ r.recv = d.recv /\ r.dlsize = d.dlsize /\ SameWrites(d, r)
        /\ r.conn = d.conn /\ r.ts = d.ts /\ r.frx = d.frx /\ r.rx = d.rx /\ r.rxq = d.rxq
        /\ r.dangling = d.dangling /\ r.overtaken = d.overtaken /\ r.twice = d.twice
        /\ r.stale = d.stale
    BY <1>1, <1>4, <2>1, ZenonT(60) DEF Dev, SameWrites
  <2> QED BY <1>8, <2>2, <2>3, Zenon DEF r, cmd, stray, Stored
<1>9. CASE buf.at = "size"
  <2>1. r = [d1 EXCEPT !.remaining = units[1].v]
    BY <1>7, <1>9, Zenon
  <2>2. r.dl = d.dl /\ r.cmd = d.cmd /\ r.remaining = units[1].v /\ r.astray = stray
    BY <2>1, Zenon DEF Dev
  <2>3. /\ r \in Dev
        /\ r.link = d.link /\ r.fb = d.fb /\ r.next = d.next /\ r.txbuf = d.txbuf
        /\ r.recv = d.recv /\ r.dlsize = d.dlsize /\ SameWrites(d, r)
        /\ r.conn = d.conn /\ r.ts = d.ts /\ r.frx = d.frx /\ r.rx = d.rx /\ r.rxq = d.rxq
        /\ r.dangling = d.dangling /\ r.overtaken = d.overtaken /\ r.twice = d.twice
        /\ r.stale = d.stale
    BY <1>1, <1>4, <2>1, ZenonT(60) DEF Dev, SameWrites
  <2> QED BY <1>9, <2>2, <2>3, Zenon DEF r, stray, Stored
<1>10. CASE buf.at = "dl"
  <2>1. r = [d1 EXCEPT !.dl = dl]
    BY <1>7, <1>10, Zenon
  <2>2. r.dl = dl /\ r.cmd = d.cmd /\ r.remaining = d.remaining /\ r.astray = stray
    BY <2>1, Zenon DEF Dev
  <2>3. /\ r \in Dev
        /\ r.link = d.link /\ r.fb = d.fb /\ r.next = d.next /\ r.txbuf = d.txbuf
        /\ r.recv = d.recv /\ r.dlsize = d.dlsize /\ SameWrites(d, r)
        /\ r.conn = d.conn /\ r.ts = d.ts /\ r.frx = d.frx /\ r.rx = d.rx /\ r.rxq = d.rxq
        /\ r.dangling = d.dangling /\ r.overtaken = d.overtaken /\ r.twice = d.twice
        /\ r.stale = d.stale
    BY <1>1, <1>5, <2>1, ZenonT(60) DEF Dev, SameWrites
  <2>4. r.dl = Copied(d.dl, buf.off + off, units)
    BY <2>2, Zenon DEF dl, Copied
  <2>5. r.astray = (d.astray \/ \E i \in DOMAIN units : units[i].k # buf.at)
    BY <2>2, Zenon DEF stray
  <2> QED BY <1>10, <2>2, <2>3, <2>4, <2>5, Zenon DEF r, Stored
<1>11. CASE buf.at = "ver"
  <2>1. r = d1
    BY <1>7, <1>11, Zenon
  <2> QED BY <1>1, <1>11, <2>1, ZenonT(60) DEF Dev, SameWrites, stray, r, Stored
<1> QED BY <1>8, <1>9, <1>10, <1>11, Zenon DEF Buf

-----------------------------------------------------------------------------
(* Events of the TCP link *)

\* A read that starts in the middle of a frame
LEMMA NextRead ==
  ASSUME NEW d \in Dev, d.link = "tcp", d.conn = "up", ~d.rx.receiving, d.rxq = <<>>,
         d.ts = "WAITING_DATA", NEW buf \in Buf, buf.at = d.frx.buf.at,
         buf.at \in {"cmd", "dl"}, NEW size \in Nat \ {0},
         d.frx.used + size <= d.frx.size, size <= d.remaining
  PROVE  LET r == TcpRead(d, buf, size).d
         IN /\ SameEngine(d, r) /\ SameWrites(d, r) /\ SameFlags(d, r) /\ Sound(r)
            /\ r.fb = d.fb /\ r.ts = d.ts /\ r.frx = d.frx /\ r.remaining = d.remaining
            /\ r.rx.buf = buf /\ r.rx.size = size /\ r.rx.received = 0
            /\ r.conn = "up" /\ r.rx.receiving /\ r.rxq # <<>>
<1> DEFINE r == TcpRead(d, buf, size).d
<1>1. /\ SameEngine(d, r) /\ SameWrites(d, r) /\ SameFlags(d, r)
      /\ r.fb = d.fb /\ r.ts = d.ts /\ r.frx = d.frx /\ r.remaining = d.remaining
      /\ r \in Dev /\ r.rx.buf = buf /\ r.rx.size = size /\ r.rx.received = 0
      /\ r.conn = "up" /\ r.rx.receiving /\ r.rxq # <<>>
      /\ r.rx.requested = Sum(r.rxq) /\ r.rx.requested <= size
  BY TcpReadEffect, SMTT(30)
<1> HIDE DEF r
<1>2. r.rx.requested \in Nat
  BY <1>1, ZenonT(60) DEF Dev, Rx
<1>3. Reading(r)
  BY <1>1, Zenon DEF Reading
<1>4. r.rx.received + r.rx.requested <= r.rx.size
  BY <1>1, <1>2
<1>5. Sound(r)
  BY <1>1, <1>3, <1>4, Zenon DEF Sound, Covered
<1> QED BY <1>1, <1>5, Zenon DEF r

\* transport_tcp_rx_cb, when a read is over
LEMMA RxCbEffect ==
  ASSUME NEW d, Fit(d), d.link = "tcp", d.conn = "up", ~d.rx.receiving, Reading(d),
         d.ts = "WAITING_DATA_SIZE" => d.remaining > 0, NEW size \in Nat, size = d.rx.size
  PROVE  LET r == TransportTcpRxCb(d, size)
         IN /\ Fit(r) /\ Stays(d, r)
            /\ d.ts = "INITIALIZING" => r.fb = d.next /\ r.down = d.down /\ r.txbuf = d.txbuf
<1> DEFINE r == TransportTcpRxCb(d, size)
<1>0. /\ Sound(d) /\ d \in Dev /\ d.rxq = <<>> /\ d.fb # "COMMAND"
      /\ d.next \in {"COMPLETE", "STOPPING"}
  BY ZenonT(60) DEF Fit, Sound, Covered, Reading, Dev
<1>1. CASE d.ts = "INITIALIZING"
  <2> DEFINE d1 == [d EXCEPT !.remaining = 0, !.ts = "READY"]
  <2>1. r = FastbootStartCallback(d1)
    BY <1>1, Zenon DEF TransportTcpRxCb
  <2>2. /\ d1 \in Dev /\ SameEngine(d, d1) /\ SameFlags(d, d1) /\ SameWrites(d, d1)
        /\ d1.conn = d.conn /\ d1.rx = d.rx /\ d1.rxq = d.rxq
    BY <1>0, ZenonT(60) DEF Dev, SameEngine, SameFlags, SameWrites
  <2> HIDE DEF d1
  <2>3. Sound(d1)
    BY <1>0, <2>2, Zenon DEF Sound, Covered
  <2>4. SameEngine(d1, r) /\ SameWrites(d1, r) /\ SameFlags(d1, r) /\ r.fb = d1.next /\ Sound(r)
    BY <2>1, <2>3, StartCallbackEffect, Zenon
  <2> HIDE DEF r
  <2>5. SameEngine(d, r) /\ SameFlags(d, r) /\ r.down = d.down /\ d1.next = d.next
    BY <2>2, <2>4, Zenon DEF SameEngine, SameFlags, SameWrites
  <2>6. Stays(d, r) /\ r.txbuf = d.txbuf
    BY <2>5, StaysSame, Zenon
  <2> QED BY <1>0, <2>4, <2>5, <2>6, Zenon DEF Fit, r
<1>2. CASE d.ts = "WAITING_DATA_SIZE"
  <2> DEFINE d1 == [d EXCEPT !.ts = "WAITING_DATA"]
             n == Least(d.frx.size, d.remaining)
  <2>1. r = TcpRead(d1, d.frx.buf, n).d
    BY <1>2, Zenon DEF TransportTcpRxCb
  <2>2. /\ d1 \in Dev /\ SameEngine(d, d1) /\ SameFlags(d, d1) /\ d1.fb = d.fb
        /\ d1.conn = d.conn /\ d1.rx = d.rx /\ d1.rxq = d.rxq /\ d1.frx = d.frx
        /\ d1.remaining = d.remaining /\ d1.ts = "WAITING_DATA" /\ d1.link = d.link
    BY <1>0, Zenon DEF Dev, SameEngine, SameFlags
  <2> HIDE DEF d1
  <2>3. d.frx.buf \in Buf /\ d.frx.size \in Nat /\ d.remaining \in Nat
    BY <1>0, Zenon DEF Dev, Frx
  <2>4. d.frx.buf.at \in {"cmd", "dl"} /\ d.frx.used = 0 /\ d.frx.size > 0
    BY <1>2, Zenon DEF Reading
  <2>5. n \in Nat \ {0} /\ n <= d.frx.size /\ n <= d.remaining
    BY <1>2, <2>3, <2>4 DEF Least
  <2> HIDE DEF n
  <2>6. d1.frx.used + n <= d1.frx.size
    BY <2>2, <2>3, <2>4, <2>5, SMTT(30)
  <2>7. SameEngine(d1, r) /\ SameFlags(d1, r) /\ Sound(r) /\ r.fb = d1.fb
    <3>1. d1.link = "tcp" /\ d1.conn = "up" /\ ~d1.rx.receiving /\ d1.rxq = <<>>
      BY <1>0, <2>2, Zenon
    <3>2. n <= d1.remaining /\ d.frx.buf.at = d1.frx.buf.at
      BY <2>2, <2>5, Zenon
    <3> QED BY <2>1, <2>2, <2>3, <2>4, <2>5, <2>6, <3>1, <3>2, NextRead, SMTT(30)
  <2> HIDE DEF r
  <2>8. SameEngine(d, r) /\ SameFlags(d, r) /\ r.fb = d.fb
    BY <2>2, <2>7, Zenon DEF SameEngine, SameFlags
  <2>9. Stays(d, r) /\ r.txbuf = d.txbuf /\ r.dlsize = d.dlsize
    BY <2>8, StaysSame, Zenon DEF SameEngine
  <2> QED BY <1>0, <1>2, <2>7, <2>8, <2>9, Zenon DEF Fit, r
<1>3. CASE d.ts = "WAITING_DATA"
  <2> DEFINE used == d.frx.used + size
             rem == d.remaining - size
             d1 == [d EXCEPT !.frx.used = used, !.remaining = rem]
             d2 == [d1 EXCEPT !.ts = "READY"]
             b == [d.frx.buf EXCEPT !.off = @ + used]
             n == Least(d.frx.size - used, rem)
  <2>1. /\ d.frx.buf \in Buf /\ d.frx.size \in Nat /\ d.frx.used \in Nat /\ d.remaining \in Nat
        /\ d.frx \in Frx
    BY <1>0, Zenon DEF Dev, Frx
  <2>2. d.frx.buf.at \in {"cmd", "dl"} /\ used <= d.frx.size /\ size <= d.remaining
    BY <1>3, Zenon DEF Reading
  <2>3. used \in Nat /\ rem \in Nat
    BY <2>1, <2>2
  <2>4. r = IF used = d.frx.size \/ rem = 0 THEN FastbootProcessRx(d2, d.frx.buf, used)
            ELSE TcpRead(d1, b, n).d
    <3>1. ~(used > d.frx.size \/ size > d.remaining)
      BY <2>1, <2>2, <2>3
    <3>2. [d EXCEPT !.frx.used = used, !.remaining = @ - size] = d1
      BY Zenon
    <3>3. d1.remaining = rem
      BY <1>0, Zenon DEF Dev
    <3> HIDE DEF d1
    <3> QED BY <1>3, <3>1, <3>2, <3>3, SMTT(30) DEF TransportTcpRxCb
  <2> HIDE DEF used, rem
  <2>5. [d.frx EXCEPT !.used = used] \in Frx
    BY <2>1, <2>3, Zenon DEF Frx
  <2>6. /\ d1 \in Dev /\ SameEngine(d, d1) /\ SameFlags(d, d1) /\ d1.fb = d.fb
        /\ d1.conn = d.conn /\ d1.rx = d.rx /\ d1.rxq = d.rxq /\ d1.ts = "WAITING_DATA"
        /\ d1.remaining = rem /\ d1.frx = [d.frx EXCEPT !.used = used] /\ d1.link = d.link
    BY <1>0, <1>3, <2>3, <2>5, Zenon DEF Dev, SameEngine, SameFlags
  <2>7. d1.frx.used = used /\ d1.frx.size = d.frx.size /\ d1.frx.buf = d.frx.buf
    BY <2>1, <2>6 DEF Frx
  <2> HIDE DEF d1
  <2>8. CASE used = d.frx.size \/ rem = 0
    <3>1. r = FastbootProcessRx(d2, d.frx.buf, used)
      BY <2>4, <2>8, Zenon
    <3>2. /\ d2 \in Dev /\ SameEngine(d1, d2) /\ SameFlags(d1, d2) /\ d2.fb = d1.fb
          /\ d2.conn = d1.conn /\ d2.rx = d1.rx /\ d2.rxq = d1.rxq /\ d2.ts = "READY"
      BY <2>6, ZenonT(60) DEF Dev, SameEngine, SameFlags
    <3> HIDE DEF d2
    <3>3. SameEngine(d, d2) /\ SameFlags(d, d2)
      BY <2>6, <3>2, Zenon DEF SameEngine, SameFlags
    <3>4. Fit(d2)
      BY <1>0, <2>6, <3>2, <3>3 DEF Fit, Sound, Covered, SameEngine
    <3>5. Fit(r) /\ Stays(d2, r)
      BY <2>1, <2>2, <2>3, <3>1, <3>2, <3>4, ProcessRxEffect, Zenon
    <3> HIDE DEF r
    <3>6. Stays(d, d2)
      BY <3>3, StaysSame, Zenon
    <3>7. Stays(d, r)
      BY <3>5, <3>6, Zenon DEF Stays
    <3> QED BY <1>3, <3>5, <3>7, Zenon DEF r
  <2>9. CASE ~(used = d.frx.size \/ rem = 0)
    <3>1. r = TcpRead(d1, b, n).d
      BY <2>4, <2>9, Zenon
    <3>2. b \in Buf /\ b.at = d1.frx.buf.at /\ b.at \in {"cmd", "dl"}
      BY <2>1, <2>2, <2>3, <2>7, SMTT(30) DEF Buf
    <3> HIDE DEF b
    <3>3. n \in Nat \ {0} /\ used + n <= d.frx.size /\ n <= rem
      BY <2>1, <2>2, <2>3, <2>9 DEF Least
    <3> HIDE DEF n
    <3>4. /\ d1.link = "tcp" /\ d1.conn = "up" /\ ~d1.rx.receiving /\ d1.rxq = <<>>
          /\ d1.frx.used + n <= d1.frx.size /\ n <= d1.remaining
      BY <1>0, <2>6, <2>7, <3>3, Zenon
    <3> HIDE DEF r
    <3>a. d1 \in Dev /\ d1.ts = "WAITING_DATA"
      BY <2>6, Zenon
    <3>5. SameEngine(d1, r) /\ SameFlags(d1, r) /\ Sound(r) /\ r.fb = d1.fb
      BY <3>a, <3>1, <3>2, <3>3, <3>4, NextRead, Zenon
    <3>6. SameEngine(d, r) /\ SameFlags(d, r) /\ r.fb = d.fb
      BY <2>6, <3>5, Zenon DEF SameEngine, SameFlags
    <3>7. Stays(d, r) /\ r.txbuf = d.txbuf /\ r.dlsize = d.dlsize
      BY <3>6, StaysSame, Zenon DEF SameEngine
    <3> QED BY <1>0, <1>3, <3>5, <3>6, <3>7, Zenon DEF Fit, r
  <2> QED BY <2>8, <2>9, Zenon
<1> QED BY <1>1, <1>2, <1>3, Zenon DEF Reading

\* The part of data_received that is common to its outcomes: the data are copied
\* and the token is no longer with the stack.
Got(d, units) ==
  Store([d EXCEPT !.rxq = Tail(@), !.rx.received = @ + Len(units),
                  !.rx.requested = @ - Head(d.rxq)], d.rx.buf, d.rx.received, units)

\* What a token may bring: as much as it asks for at most.
Brought(d, units) ==
  units \in Seq(Unit) /\ units # <<>> /\ d.rxq # <<>> /\ Len(units) <= Head(d.rxq)

GotFrom(d, units, r) ==
  /\ r \in Dev
  /\ r.link = d.link /\ r.fb = d.fb /\ r.next = d.next /\ r.txbuf = d.txbuf
  /\ r.recv = d.recv /\ r.dlsize = d.dlsize
  /\ SameWrites(d, r)
  /\ r.conn = d.conn /\ r.ts = d.ts /\ r.frx = d.frx /\ r.rxq = Tail(d.rxq)
  /\ r.rx.buf = d.rx.buf /\ r.rx.size = d.rx.size /\ r.rx.receiving
  /\ r.rx.received = d.rx.received + Len(units)
  /\ r.rx.requested = Sum(r.rxq)
  /\ r.rx.received + r.rx.requested <= r.rx.size
  /\ r.dangling = d.dangling /\ r.overtaken = d.overtaken /\ r.twice = d.twice
  /\ r.stale = d.stale
  /\ r.astray = (d.astray \/ \E i \in DOMAIN units : units[i].k # d.rx.buf.at)
  /\ r.cmd = IF d.rx.buf.at = "cmd"
             THEN IF units[1].k = "cmd" THEN units[1].v ELSE 0 ELSE d.cmd
  /\ r.remaining = IF d.rx.buf.at = "size" THEN units[1].v ELSE d.remaining
  /\ r.dl = IF d.rx.buf.at = "dl" THEN Copied(d.dl, d.rx.buf.off + d.rx.received, units) ELSE d.dl
  /\ Reading(r)

LEMMA GotEffect ==
  ASSUME NEW d, Sound(d), d.link = "tcp", NEW units, Brought(d, units)
  PROVE  GotFrom(d, units, Got(d, units))
<1> DEFINE rec == d.rx.received + Len(units)
           req == d.rx.requested - Head(d.rxq)
           rx == [d.rx EXCEPT !.received = rec, !.requested = req]
           d0 == [d EXCEPT !.rxq = Tail(d.rxq), !.rx = rx]
           r == Got(d, units)
<1>1. /\ d \in Dev /\ Covered(d) /\ units \in Seq(Unit) /\ units # <<>> /\ d.rxq # <<>>
      /\ Len(units) <= Head(d.rxq)
  BY Zenon DEF Sound, Brought
<1>2. /\ d.rx \in Rx /\ d.rx.buf \in Buf /\ d.rx.received \in Nat /\ d.rx.requested \in Nat
      /\ d.rx.size \in Nat
  BY <1>1, Zenon DEF Dev, Rx
<1>3. /\ d.rx.receiving = TRUE /\ d.rx.requested = Sum(d.rxq) /\ Reading(d)
      /\ d.rx.received + d.rx.requested <= d.rx.size
  BY <1>1, <1>2, Zenon DEF Covered, Rx
<1>4. d.rxq \in Seq(Nat) /\ Tail(d.rxq) \in Seq(Nat \ {0}) /\ Tail(d.rxq) \in Seq(Nat)
      /\ Head(d.rxq) \in Nat
  BY <1>1 DEF Dev
<1>5. Sum(d.rxq) = Head(d.rxq) + Sum(Tail(d.rxq)) /\ Sum(Tail(d.rxq)) \in Nat
  BY <1>1, <1>4, SumTail, SumNat, Zenon
<1>6. Len(units) \in Nat
  BY <1>1
<1>7. rec \in Nat /\ req \in Nat /\ req = Sum(Tail(d.rxq)) /\ rec + req <= d.rx.size
  <2> DEFINE h == Head(d.rxq)
             q == Sum(Tail(d.rxq))
             n == Len(units)
  <2>1. h \in Nat /\ q \in Nat /\ n \in Nat /\ n <= h /\ d.rx.requested = h + q
    BY <1>1, <1>3, <1>4, <1>5, <1>6, Zenon
  <2> HIDE DEF h, q, n
  <2>2. req = q /\ d.rx.received + n + q <= d.rx.size
    BY <1>2, <1>3, <2>1 DEF h
  <2> QED BY <1>2, <2>1, <2>2, SMTT(30) DEF n, q
<1>8. r = Store(d0, d.rx.buf, d.rx.received, units)
  BY <1>1, Zenon DEF Got, Dev
<1> HIDE DEF rec, req, r
<1>9. rx \in Rx
  BY <1>2, <1>7, Zenon DEF Rx
<1>10. /\ rx.buf = d.rx.buf /\ rx.size = d.rx.size /\ rx.receiving = TRUE
       /\ rx.received = rec /\ rx.requested = req
  BY <1>2, <1>3, Zenon DEF Rx
<1> HIDE DEF rx
<1>11. d0 \in Dev
  BY <1>1, <1>4, <1>9, ZenonT(60) DEF Dev
<1>12. /\ d0.link = d.link /\ d0.fb = d.fb /\ d0.next = d.next /\ d0.txbuf = d.txbuf
       /\ d0.recv = d.recv /\ d0.dlsize = d.dlsize /\ SameWrites(d, d0)
       /\ d0.conn = d.conn /\ d0.ts = d.ts /\ d0.frx = d.frx
       /\ d0.rx = rx /\ d0.rxq = Tail(d.rxq) /\ d0.dl = d.dl /\ d0.cmd = d.cmd
       /\ d0.remaining = d.remaining /\ SameFlags(d, d0)
  BY <1>1, Zenon DEF Dev, SameWrites, SameFlags
<1> HIDE DEF d0
<1>13. Stored(d0, d.rx.buf, d.rx.received, units, r)
  BY <1>1, <1>2, <1>8, <1>11, StoreEffect, Zenon
<1>14. /\ r.link = d.link /\ r.fb = d.fb /\ r.next = d.next /\ r.txbuf = d.txbuf
       /\ r.recv = d.recv /\ r.dlsize = d.dlsize /\ SameWrites(d, r)
       /\ r.conn = d.conn /\ r.ts = d.ts /\ r.frx = d.frx /\ r.rxq = Tail(d.rxq)
       /\ r.dangling = d.dangling /\ r.overtaken = d.overtaken /\ r.twice = d.twice
       /\ r.stale = d.stale
  BY <1>12, <1>13, Zenon DEF SameWrites, SameFlags, Stored
<1>15. /\ r.rx.buf = d.rx.buf /\ r.rx.size = d.rx.size /\ r.rx.receiving
       /\ r.rx.received = rec /\ r.rx.requested = Sum(r.rxq)
       /\ r.rx.received + r.rx.requested <= r.rx.size
  BY <1>7, <1>10, <1>12, <1>13, SMTT(30) DEF Stored
<1>16. /\ r.astray = (d.astray \/ \E i \in DOMAIN units : units[i].k # d.rx.buf.at)
       /\ r.cmd = IF d.rx.buf.at = "cmd"
                  THEN IF units[1].k = "cmd" THEN units[1].v ELSE 0 ELSE d.cmd
       /\ r.remaining = IF d.rx.buf.at = "size" THEN units[1].v ELSE d.remaining
  BY <1>12, <1>13, Zenon DEF SameFlags, Stored
<1>17. r.dl = IF d.rx.buf.at = "dl" THEN Copied(d.dl, d.rx.buf.off + d.rx.received, units)
              ELSE d.dl
  BY <1>12, <1>13, Zenon DEF Stored
<1>18. Reading(r)
  <2>1. r.remaining = d.remaining \/ d.ts # "WAITING_DATA"
    BY <1>3, <1>16, Zenon DEF Reading
  <2> QED BY <1>3, <1>14, <1>15, <2>1, Zenon DEF Reading
<1>19. r \in Dev
  BY <1>13, Zenon DEF Stored
<1> QED BY <1>19, <1>14, <1>15, <1>16, <1>17, <1>18, ZenonT(60) DEF r, rec, GotFrom

\* data_received: the read goes on, or it is over and no token is left.
LEMMA ReceivedPart ==
  ASSUME NEW d, Sound(d), d.link = "tcp", d.conn = "up", NEW units, Brought(d, units),
         d.rx.received + Len(units) # d.rx.size
  PROVE  LET r == DataReceived(d, units)
             g == Got(d, units)
         IN /\ Sound(r) /\ SameEngine(g, r) /\ SameWrites(g, r) /\ SameFlags(g, r)
            /\ r.fb = g.fb /\ r.conn = g.conn /\ r.ts = g.ts /\ r.frx = g.frx
            /\ r.remaining = g.remaining /\ r.rx.buf = g.rx.buf /\ r.rx.size = g.rx.size
            /\ r.rx.received = g.rx.received /\ r.rx.receiving
<1> DEFINE g == Got(d, units)
           left == g.rx.size - g.rx.received
           more == left - g.rx.requested
           r == DataReceived(d, units)
           size == Least(more, FragSize)
           e == [g EXCEPT !.rx.requested = @ + size, !.rxq = Append(@, size)]
<1>1. /\ g \in Dev /\ g.link = "tcp" /\ g.conn = "up" /\ g.rx.size = d.rx.size /\ g.rx.receiving
      /\ g.rx.received = d.rx.received + Len(units) /\ g.rx.requested = Sum(g.rxq)
      /\ g.rx.received + g.rx.requested <= g.rx.size /\ Reading(g)
  <2>1. GotFrom(d, units, g)
    BY GotEffect, Zenon
  <2> QED BY <2>1, ZenonT(60) DEF GotFrom
<1>2. r = LET d2 == IF g.rx.requested < left THEN RequestData(g, more) ELSE g
          IN IF left = 0 THEN TransportTcpRxCb([d2 EXCEPT !.rx.receiving = FALSE], g.rx.received)
             ELSE d2
  BY Zenon DEF DataReceived, Got
<1> HIDE DEF g, r
<1>3. /\ g.rx \in Rx /\ g.rx.received \in Nat /\ g.rx.requested \in Nat /\ g.rx.size \in Nat
      /\ g.rxq \in Seq(Nat \ {0}) /\ g.rxq \in Seq(Nat)
  BY <1>1, SMTT(30) DEF Dev, Rx
<1>4. left \in Nat \ {0} /\ g.rx.requested <= left
  BY <1>1, <1>3, SMTT(30)
<1>5. r = IF g.rx.requested < left THEN RequestData(g, more) ELSE g
  BY <1>2, <1>4, Zenon
<1>6. CASE ~(g.rx.requested < left)
  <2>1. r = g /\ g.rx.requested # 0
    BY <1>3, <1>4, <1>5, <1>6
  <2>2. g.rxq # <<>>
    BY <1>1, <2>1, SumEmpty, Zenon
  <2>3. Sound(g)
    BY <1>1, <2>2, Zenon DEF Sound, Covered
  <2> QED BY <1>1, <2>1, <2>3, SameSame, ZenonT(60) DEF g, r
<1>7. CASE g.rx.requested < left
  <2>1. more \in Nat \ {0}
    BY <1>3, <1>4, <1>7
  <2>2. size \in Nat \ {0} /\ size <= more
    BY <2>1, Constants DEF Least
  <2>3. r = e
    BY <1>1, <1>5, <1>7, Zenon DEF RequestData
  <2>4. g.rx.received + (g.rx.requested + size) <= g.rx.size
    BY <1>3, <2>1, <2>2
  <2> HIDE DEF size, more, left
  <2> DEFINE rx == [g.rx EXCEPT !.requested = @ + size]
  <2>5. /\ rx \in Rx /\ rx.buf = g.rx.buf /\ rx.size = g.rx.size /\ rx.received = g.rx.received
        /\ rx.receiving = g.rx.receiving /\ rx.requested = g.rx.requested + size
    BY <1>3, <2>2, SMTT(30) DEF Rx
  <2>6. Append(g.rxq, size) \in Seq(Nat \ {0}) /\ Append(g.rxq, size) # <<>>
        /\ Sum(Append(g.rxq, size)) = g.rx.requested + size
    <3>1. Append(g.rxq, size) \in Seq(Nat \ {0}) /\ Append(g.rxq, size) # <<>>
      <4>1. g.rxq \in Seq(Nat \ {0})
        BY <1>3, Zenon
      <4>2. Append(g.rxq, size) \in Seq(Nat \ {0}) /\ Len(Append(g.rxq, size)) = Len(g.rxq) + 1
        BY <2>2, <4>1
      <4> QED BY <4>1, <4>2
    <3>2. Sum(Append(g.rxq, size)) = Sum(g.rxq) + size
      BY <1>3, <2>2, SumAppend, Zenon
    <3> QED BY <1>1, <3>1, <3>2, Zenon
  <2>7. /\ e \in Dev /\ SameEngine(g, e) /\ SameWrites(g, e) /\ SameFlags(g, e)
        /\ e.fb = g.fb /\ e.conn = g.conn /\ e.ts = g.ts /\ e.frx = g.frx
        /\ e.remaining = g.remaining /\ e.rx = rx /\ e.rxq = Append(g.rxq, size)
    BY <1>1, <2>5, <2>6, ZenonT(60) DEF Dev, SameEngine, SameWrites, SameFlags
  <2> HIDE DEF e, rx
  <2>8. Reading(e)
    BY <1>1, <2>5, <2>7, Zenon DEF Reading
  <2>9. e.link = "tcp"
    BY <1>1, <2>7, Zenon DEF SameEngine
  <2>10. e.rx.requested = Sum(e.rxq) /\ e.rx.received + e.rx.requested <= e.rx.size
    BY <2>4, <2>5, <2>6, <2>7, Zenon
  <2>11. Sound(e)
    BY <1>1, <2>5, <2>6, <2>7, <2>8, <2>9, <2>10, Zenon DEF Sound, Covered
  <2> QED BY <1>1, <2>3, <2>5, <2>7, <2>11, ZenonT(60) DEF g, r
<1> QED BY <1>6, <1>7, ZenonT(60)

LEMMA SumPositive ==
  ASSUME NEW s \in Seq(Nat \ {0}), Sum(s) = 0
  PROVE  s = <<>>
<1> SUFFICES ASSUME s # <<>> PROVE FALSE
  BY Zenon
<1>1. s \in Seq(Nat) /\ Tail(s) \in Seq(Nat) /\ Head(s) \in Nat \ {0}
  OBVIOUS
<1>2. Sum(s) = Head(s) + Sum(Tail(s)) /\ Sum(Tail(s)) \in Nat
  BY <1>1, SumTail, SumNat, ZenonT(60)
<1> QED BY <1>1, <1>2

\* The state in which a read that is over calls transport_tcp_rx_cb.
Over(d, units) == [Got(d, units) EXCEPT !.rx.receiving = FALSE]

LEMMA ReceivedAll ==
  ASSUME NEW d, Sound(d), d.link = "tcp", d.conn = "up", NEW units, Brought(d, units),
         d.rx.received + Len(units) = d.rx.size
  PROVE  LET g == Got(d, units)
             e == Over(d, units)
         IN /\ DataReceived(d, units) = TransportTcpRxCb(e, d.rx.size)
            /\ Sound(e) /\ SameEngine(g, e) /\ SameWrites(g, e) /\ SameFlags(g, e)
            /\ e.fb = g.fb /\ e.conn = g.conn /\ e.ts = g.ts /\ e.frx = g.frx
            /\ e.remaining = g.remaining /\ e.rx.buf = g.rx.buf /\ e.rx.size = g.rx.size
            /\ ~e.rx.receiving /\ e.rxq = <<>> /\ Reading(e)
<1> DEFINE g == Got(d, units)
           e == Over(d, units)
           r == DataReceived(d, units)
           left == g.rx.size - g.rx.received
           rx == [g.rx EXCEPT !.receiving = FALSE]
<1>1. /\ g \in Dev /\ g.link = "tcp" /\ g.conn = "up" /\ g.rx.size = d.rx.size
      /\ g.rx.received = d.rx.received + Len(units) /\ g.rx.requested = Sum(g.rxq)
      /\ g.rx.received + g.rx.requested <= g.rx.size /\ Reading(g)
  <2>1. GotFrom(d, units, g)
    BY GotEffect, Zenon
  <2> QED BY <2>1, ZenonT(60) DEF GotFrom
<1>2. r = LET d2 == IF g.rx.requested < left THEN RequestData(g, left - g.rx.requested) ELSE g
          IN IF left = 0 THEN TransportTcpRxCb([d2 EXCEPT !.rx.receiving = FALSE], g.rx.received)
             ELSE d2
  BY Zenon DEF DataReceived, Got
<1>3. e = [g EXCEPT !.rx.receiving = FALSE]
  BY Zenon DEF Over
<1> HIDE DEF g, r, e
<1>4. /\ g.rx \in Rx /\ g.rx.received \in Nat /\ g.rx.requested \in Nat /\ g.rx.size \in Nat
      /\ g.rxq \in Seq(Nat \ {0})
  BY <1>1, Zenon DEF Dev, Rx
<1>5. g.rx.received = g.rx.size /\ left = 0 /\ g.rx.requested = 0
  BY <1>1, <1>4
<1>6. ~(g.rx.requested < left)
  BY <1>5
<1>7. r = TransportTcpRxCb(e, d.rx.size)
  <2>1. r = TransportTcpRxCb([g EXCEPT !.rx.receiving = FALSE], g.rx.received)
    BY <1>2, <1>5, <1>6, Zenon
  <2> QED BY <1>1, <1>3, <1>5, <2>1, Zenon
<1>8. g.rxq = <<>>
  BY <1>1, <1>4, <1>5, SumPositive, Zenon
<1>9. rx \in Rx /\ rx.buf = g.rx.buf /\ rx.size = g.rx.size /\ rx.receiving = FALSE
  BY <1>4, Zenon DEF Rx
<1>10. /\ e \in Dev /\ SameEngine(g, e) /\ SameWrites(g, e) /\ SameFlags(g, e)
       /\ e.fb = g.fb /\ e.conn = g.conn /\ e.ts = g.ts /\ e.frx = g.frx
       /\ e.remaining = g.remaining /\ e.rx = rx /\ e.rxq = g.rxq /\ e.link = g.link
  BY <1>1, <1>3, <1>9, ZenonT(60) DEF Dev, SameEngine, SameWrites, SameFlags
<1> HIDE DEF rx
<1>11. Reading(e)
  BY <1>1, <1>9, <1>10, Zenon DEF Reading
<1>12. Sound(e)
  BY <1>1, <1>8, <1>9, <1>10, Zenon DEF Sound, Covered
<1> QED BY <1>7, <1>8, <1>9, <1>10, <1>11, <1>12, Zenon DEF g, e, r

\* data_received
LEMMA DataReceivedEffect ==
  ASSUME NEW d, Fit(d), d.link = "tcp", d.conn = "up", NEW units, Brought(d, units),
         units[1].k # "ver" => units[1].v > 0, units[1].k = "ver" => d.ts = "INITIALIZING"
  PROVE  LET r == DataReceived(d, units)
         IN /\ Fit(r) /\ r.link = d.link /\ r.next = d.next /\ r.dlsize = d.dlsize
            /\ r.dangling = d.dangling /\ r.overtaken = d.overtaken
            /\ r.twice = d.twice /\ r.stale = d.stale
            /\ \/ r.cmd \in {0, d.cmd}
               \/ units[1].k = "cmd" /\ r.cmd = units[1].v
            /\ d.ts = "INITIALIZING" =>
                 r.fb \in {d.fb, d.next} /\ r.down = d.down /\ r.txbuf = d.txbuf
<1> DEFINE r == DataReceived(d, units)
           g == Got(d, units)
           e == Over(d, units)
<1>1. Sound(d) /\ d \in Dev /\ Covered(d)
  BY Zenon DEF Fit, Sound
<1>2. Reading(d) /\ d.rx.received \in Nat /\ d.rx.size \in Nat /\ Len(units) \in Nat
  BY <1>1, SMTT(30) DEF Covered, Brought, Dev, Rx
<1>3. d.fb # "COMMAND"
  BY <1>2, Zenon DEF Fit, Reading
<1>4. GotFrom(d, units, g)
  BY <1>1, GotEffect, Zenon
<1> HIDE DEF g
<1>5. /\ g.link = d.link /\ g.next = d.next /\ g.dlsize = d.dlsize /\ g.fb = d.fb
      /\ g.dangling = d.dangling /\ g.overtaken = d.overtaken /\ g.twice = d.twice
      /\ g.stale = d.stale /\ g.ts = d.ts /\ g.conn = d.conn
      /\ g.txbuf = d.txbuf /\ g.down = d.down
  BY <1>4, Zenon DEF GotFrom, SameWrites
<1>9. g.cmd \in {0, d.cmd} \/ (units[1].k = "cmd" /\ g.cmd = units[1].v)
  <2>1. g.cmd = IF d.rx.buf.at = "cmd"
                THEN IF units[1].k = "cmd" THEN units[1].v ELSE 0 ELSE d.cmd
    BY <1>4, Zenon DEF GotFrom
  <2> QED BY <2>1, Zenon
<1>6. g.ts = "WAITING_DATA_SIZE" => g.remaining > 0
  BY <1>2, <1>4, ZenonT(60) DEF GotFrom, Reading
<1>7. CASE d.rx.received + Len(units) # d.rx.size
  <2>1. /\ Sound(r) /\ SameEngine(g, r) /\ SameWrites(g, r) /\ SameFlags(g, r)
        /\ r.fb = g.fb
    BY <1>1, <1>7, ReceivedPart, ZenonT(60) DEF g
  <2> HIDE DEF r
  <2>2. /\ r.link = d.link /\ r.next = d.next /\ r.dlsize = d.dlsize /\ r.fb = d.fb
        /\ r.txbuf = d.txbuf /\ r.down = d.down /\ r.cmd = g.cmd
    BY <1>5, <2>1, ZenonT(60) DEF SameEngine, SameWrites
  <2>3. /\ r.dangling = d.dangling /\ r.overtaken = d.overtaken
        /\ r.twice = d.twice /\ r.stale = d.stale
    BY <1>5, <2>1, ZenonT(60) DEF SameFlags
  <2>4. Fit(r)
    BY <1>3, <2>1, <2>2, Zenon DEF Fit
  <2> QED BY <1>9, <2>2, <2>3, <2>4, Zenon DEF r
<1>8. CASE d.rx.received + Len(units) = d.rx.size
  <2>1. /\ r = TransportTcpRxCb(e, d.rx.size)
        /\ Sound(e) /\ SameEngine(g, e) /\ SameWrites(g, e) /\ SameFlags(g, e)
        /\ e.fb = g.fb /\ e.conn = g.conn /\ e.ts = g.ts
        /\ e.remaining = g.remaining /\ e.rx.size = g.rx.size
        /\ ~e.rx.receiving /\ Reading(e)
    BY <1>1, <1>8, ReceivedAll, ZenonT(60) DEF g
  <2> HIDE DEF r, e
  <2>2. /\ e.link = d.link /\ e.next = d.next /\ e.dlsize = d.dlsize /\ e.fb = d.fb
        /\ e.txbuf = d.txbuf /\ e.down = d.down /\ e.cmd = g.cmd
    BY <1>5, <2>1, ZenonT(60) DEF SameEngine, SameWrites
  <2>3. /\ e.dangling = d.dangling /\ e.overtaken = d.overtaken
        /\ e.twice = d.twice /\ e.stale = d.stale
    BY <1>5, <2>1, ZenonT(60) DEF SameFlags
  <2>4. Fit(e)
    BY <1>3, <2>1, <2>2, ZenonT(60) DEF Fit
  <2>5. g.rx.size = d.rx.size
    BY <1>4, Zenon DEF GotFrom
  <2>6. e.conn = "up" /\ e.link = "tcp" /\ (e.ts = "WAITING_DATA_SIZE" => e.remaining > 0)
        /\ d.rx.size = e.rx.size
    BY <1>5, <1>6, <2>1, <2>2, <2>5, ZenonT(60)
  <2>7. /\ Fit(r) /\ Stays(e, r)
        /\ e.ts = "INITIALIZING" => r.fb = e.next /\ r.down = e.down /\ r.txbuf = e.txbuf
    BY <1>2, <2>1, <2>4, <2>6, RxCbEffect, ZenonT(60)
  <2>8. /\ r.link = d.link /\ r.next = d.next /\ r.dlsize = d.dlsize /\ r.cmd = g.cmd
        /\ r.dangling = d.dangling /\ r.overtaken = d.overtaken
        /\ r.twice = d.twice /\ r.stale = d.stale
    BY <2>2, <2>3, <2>7, Zenon DEF Stays
  <2> QED BY <1>5, <1>9, <2>1, <2>2, <2>7, <2>8, ZenonT(60) DEF r
<1> QED BY <1>7, <1>8, Zenon

\* What the completion of a write leaves alone.
SentFrom(d, r) ==
  /\ Fit(r) /\ Stays(d, r) /\ r.recv = d.recv
  /\ d.fb \in {"OFFLINE", "COMPLETE"} => r.fb = d.fb /\ r.down = d.down /\ r.txbuf = d.txbuf
  /\ d.fb = "COMMAND" => r.fb = "COMMAND" /\ SameReads(d, r)
  /\ d.link = "tcp" /\ d.ts # "READY" => r.ts = d.ts

\* data_sent
LEMMA DataSentEffect ==
  ASSUME NEW d, Fit(d), d.txq # <<>>
  PROVE  SentFrom(d, DataSent(d))
<1> DEFINE d1 == [d EXCEPT !.txq = Tail(@), !.tx[Head(d.txq)] = FALSE]
           r == DataSent(d)
<1>1. Sound(d) /\ d \in Dev
  BY Zenon DEF Fit, Sound
<1>2. Tail(d.txq) \in Seq(Token) /\ Head(d.txq) \in Token
  BY <1>1 DEF Dev
<1>3. [d.tx EXCEPT ![Head(d.txq)] = FALSE] \in [Token -> BOOLEAN]
  BY <1>1, <1>2, Zenon DEF Dev
<1>4. /\ d1 \in Dev /\ SameEngine(d, d1) /\ SameReads(d, d1) /\ SameFlags(d, d1)
      /\ d1.fb = d.fb /\ d1.down = d.down
  BY <1>1, <1>2, <1>3, ZenonT(60) DEF Dev, SameEngine, SameReads, SameFlags
<1>5. r = TransportTcpTxCb(d1)
  BY Zenon DEF DataSent
<1> HIDE DEF d1, r
<1>6. Sound(d1)
  BY <1>1, <1>4, EngineChange, Zenon DEF SameEngine
<1>7. Fit(d1)
  BY <1>4, <1>6, Zenon DEF Fit, SameEngine, SameReads
<1>8. Stays(d, d1) /\ d1.recv = d.recv /\ d1.txbuf = d.txbuf
  BY <1>4, StaysSame, Zenon
<1>9. SentFrom(d1, r)
  <2>1. CASE d1.ts = "READY"
    BY <1>5, <1>7, <2>1, ProcessTxEffect, Zenon DEF TransportTcpTxCb, SentFrom
  <2>2. CASE d1.ts # "READY"
    <3>1. r = d1 /\ Stays(d1, d1)
      BY <1>5, <2>2, Zenon DEF TransportTcpTxCb, Stays
    <3> QED BY <1>7, <3>1, SameSame, Zenon DEF SentFrom
  <2> QED BY <2>1, <2>2, Zenon
<1>10. Stays(d, r) /\ r.recv = d.recv
  BY <1>8, <1>9, Zenon DEF SentFrom, Stays
<1>11. d.fb = "COMMAND" => r.fb = "COMMAND" /\ SameReads(d, r)
  BY <1>4, <1>9, Zenon DEF SentFrom, SameReads
<1>12. d.link = "tcp" /\ d.ts # "READY" => r.ts = d.ts
  BY <1>4, <1>9, Zenon DEF SentFrom, SameReads, SameEngine
<1> QED BY <1>4, <1>8, <1>9, <1>10, <1>11, <1>12, Zenon DEF SentFrom, r

\* data_handler of usb.c, IN
LEMMA UsbSentEffect ==
  ASSUME NEW d, Fit(d), d.link = "usb", d.txq # <<>>
  PROVE  SentFrom(d, UsbSent(d))
<1> DEFINE d1 == [d EXCEPT !.txq = Tail(@)]
           r == UsbSent(d)
<1>1. Sound(d) /\ d \in Dev
  BY Zenon DEF Fit, Sound
<1>2. Tail(d.txq) \in Seq(Token)
  BY <1>1 DEF Dev
<1>3. /\ d1 \in Dev /\ SameEngine(d, d1) /\ SameReads(d, d1) /\ SameFlags(d, d1)
      /\ d1.fb = d.fb /\ d1.down = d.down
  BY <1>1, <1>2, Zenon DEF Dev, SameEngine, SameReads, SameFlags
<1>4. r = FastbootProcessTx(d1)
  BY Zenon DEF UsbSent
<1> HIDE DEF d1, r
<1>5. Sound(d1)
  BY <1>1, <1>3, EngineChange, Zenon DEF SameEngine
<1>6. Fit(d1)
  BY <1>3, <1>5, Zenon DEF Fit, SameEngine, SameReads
<1>7. Stays(d, d1) /\ d1.recv = d.recv /\ d1.txbuf = d.txbuf
  BY <1>3, StaysSame, Zenon
<1>8. SentFrom(d1, r)
  <2>1. d1.link # "tcp"
    BY <1>3, Zenon DEF SameEngine
  <2> QED BY <1>4, <1>6, <2>1, ProcessTxEffect, Zenon DEF SentFrom
<1>9. Stays(d, r) /\ r.recv = d.recv
  BY <1>7, <1>8, Zenon DEF SentFrom, Stays
<1>10. d.fb = "COMMAND" => r.fb = "COMMAND" /\ SameReads(d, r)
  BY <1>3, <1>8, Zenon DEF SentFrom, SameReads
<1> QED BY <1>3, <1>7, <1>8, <1>9, <1>10, Zenon DEF SentFrom, r

\* data_handler of usb.c, OUT
LEMMA UsbReceivedEffect ==
  ASSUME NEW d, Fit(d), d.link = "usb", NEW units \in Seq(Unit), units # <<>>, d.rxq # <<>>
  PROVE  LET r == UsbReceived(d, units)
         IN /\ Fit(r) /\ r.link = d.link /\ r.next = d.next /\ r.dlsize = d.dlsize
            /\ r.dangling = d.dangling /\ r.overtaken = d.overtaken
            /\ r.twice = d.twice /\ r.stale = d.stale
            /\ \/ r.cmd \in {0, d.cmd}
               \/ units[1].k = "cmd" /\ r.cmd = units[1].v
<1> DEFINE d0 == [d EXCEPT !.rxq = Tail(@)]
           d1 == Store(d0, d.rx.buf, 0, units)
           r == UsbReceived(d, units)
<1>1. d \in Dev /\ d.rx.buf \in Buf /\ Tail(d.rxq) \in Seq(Nat \ {0})
  BY DEF Fit, Sound, Dev, Rx
<1>2. /\ d0 \in Dev /\ d0.link = d.link /\ d0.fb = d.fb /\ d0.txbuf = d.txbuf
      /\ d0.next = d.next /\ d0.dlsize = d.dlsize /\ d0.cmd = d.cmd
      /\ d0.dangling = d.dangling /\ d0.overtaken = d.overtaken
      /\ d0.twice = d.twice /\ d0.stale = d.stale
  BY <1>1, Zenon DEF Dev
<1>3. r = FastbootProcessRx(d1, d.rx.buf, Len(units))
  BY Zenon DEF UsbReceived
<1> HIDE DEF d0, r
<1>4. Stored(d0, d.rx.buf, 0, units, d1)
  BY <1>1, <1>2, StoreEffect, ZenonT(60)
<1> HIDE DEF d1
<1>5. /\ d1 \in Dev /\ d1.link = d.link /\ d1.fb = d.fb /\ d1.txbuf = d.txbuf
      /\ d1.next = d.next /\ d1.dlsize = d.dlsize
      /\ d1.dangling = d.dangling /\ d1.overtaken = d.overtaken
      /\ d1.twice = d.twice /\ d1.stale = d.stale
  BY <1>2, <1>4, Zenon DEF Stored
<1>6. d1.cmd = IF d.rx.buf.at = "cmd"
               THEN IF units[1].k = "cmd" THEN units[1].v ELSE 0 ELSE d.cmd
  BY <1>2, <1>4, Zenon DEF Stored
<1>7. Fit(d1)
  BY <1>5, Zenon DEF Fit, Sound
<1>8. Fit(r) /\ Stays(d1, r)
  <2>1. d1.link # "tcp" /\ Len(units) \in Nat
    BY <1>5
  <2> QED BY <1>1, <1>3, <1>7, <2>1, ProcessRxEffect, Zenon
<1>9. d1.cmd \in {0, d.cmd} \/ (units[1].k = "cmd" /\ d1.cmd = units[1].v)
  BY <1>6, Zenon
<1>10. /\ r.link = d.link /\ r.next = d.next /\ r.dlsize = d.dlsize /\ r.cmd = d1.cmd
       /\ r.dangling = d.dangling /\ r.overtaken = d.overtaken
       /\ r.twice = d.twice /\ r.stale = d.stale
  BY <1>5, <1>8, Zenon DEF Stays
<1> QED BY <1>8, <1>9, <1>10, Zenon DEF r

\* connection_accepted and fastboot_tcp_start_cb
LEMMA AcceptedEffect ==
  ASSUME NEW d, Fit(d), d.link = "tcp", d.conn = "listen"
  PROVE  LET r == ConnectionAccepted(d)
             v == [code |-> "VERSION", id |-> 0]
         IN /\ Fit(r) /\ SameEngine(d, r) /\ SameFlags(d, r) /\ r.fb = d.fb
            /\ r.ts = "INITIALIZING" /\ r.conn = "up" /\ r.remaining = d.remaining
            /\ \/ r.txq = d.txq /\ r.down = d.down /\ d.tx[d.nexttx]
               \/ r.txq = Append(d.txq, d.nexttx) /\ r.down = Append(d.down, v) /\ r.rx.receiving
<1> DEFINE d1 == [d EXCEPT !.conn = "up", !.ts = "INITIALIZING"]
           v == [code |-> "VERSION", id |-> 0]
           w == TcpWrite(d1, v)
           b == [at |-> "ver", off |-> 0]
           t == TcpRead(w.d, b, 1).d
           r == ConnectionAccepted(d)
<1>1. /\ Sound(d) /\ d \in Dev /\ ~d.rx.receiving /\ d.rxq = <<>> /\ d.fb # "COMMAND"
  BY Zenon DEF Fit, Sound, Covered
<1>2. /\ d1 \in Dev /\ SameEngine(d, d1) /\ SameFlags(d, d1) /\ SameWrites(d, d1) /\ d1.fb = d.fb
      /\ d1.conn = "up" /\ d1.ts = "INITIALIZING" /\ d1.rx = d.rx /\ d1.rxq = d.rxq
      /\ d1.remaining = d.remaining
  BY <1>1, ZenonT(60) DEF Dev, SameEngine, SameFlags, SameWrites
<1>3. r = IF w.ok THEN t ELSE w.d
  BY Zenon DEF ConnectionAccepted
<1> HIDE DEF d1
<1>4. v \in Msg /\ b \in Buf /\ b.at = "ver"
  BY Zenon DEF Msg, Buf
<1> HIDE DEF v, b
<1>5. /\ w.d \in Dev /\ w.ok \in BOOLEAN
      /\ SameEngine(d1, w.d) /\ SameReads(d1, w.d) /\ SameFlags(d1, w.d) /\ w.d.fb = d1.fb
      /\ w.ok => w.d.txq = Append(d1.txq, d1.nexttx) /\ w.d.down = Append(d1.down, v)
      /\ ~w.ok => w.d.txq = d1.txq /\ w.d.down = d1.down
      /\ w.ok <=> ~d1.tx[d1.nexttx] /\ d1.conn \in {"up", "fin"}
  BY <1>2, <1>4, TcpWriteEffect, Zenon
<1> HIDE DEF w, r
<1>6. SameEngine(d, w.d) /\ SameFlags(d, w.d) /\ w.d.fb = d.fb
  BY <1>2, <1>5, SMTT(30) DEF SameEngine, SameFlags
<1>7. /\ w.d.conn = "up" /\ w.d.ts = "INITIALIZING" /\ ~w.d.rx.receiving /\ w.d.rxq = <<>>
      /\ w.d.remaining = d.remaining
  BY <1>1, <1>2, <1>5, ZenonT(60) DEF SameReads
<1>8. CASE ~w.ok
  <2>1. r = w.d
    BY <1>3, <1>8, Zenon
  <2>2. r.txq = d.txq /\ r.down = d.down /\ d.tx[d.nexttx]
    BY <1>2, <1>5, <1>8, <2>1, Zenon DEF SameWrites
  <2>3. Sound(r)
    BY <1>5, <1>7, <2>1, Zenon DEF Sound, Covered
  <2>4. Fit(r)
    BY <1>1, <1>6, <2>1, <2>3, Zenon DEF Fit, SameEngine
  <2> QED BY <1>6, <1>7, <2>1, <2>2, <2>4, Zenon DEF r
<1>9. CASE w.ok
  <2>1. r = t
    BY <1>3, <1>9, Zenon
  <2>2. /\ SameEngine(w.d, r) /\ SameWrites(w.d, r) /\ SameFlags(w.d, r)
        /\ r.fb = w.d.fb /\ r.ts = w.d.ts /\ r.remaining = w.d.remaining
        /\ r \in Dev /\ r.rx.buf = b /\ r.rx.size = 1 /\ r.rx.received = 0
        /\ r.conn = "up" /\ r.rx.receiving /\ r.rxq # <<>>
        /\ r.rx.requested = Sum(r.rxq) /\ r.rx.requested <= 1
    <3>1. 1 \in Nat \ {0} /\ w.d.conn # "listen"
      BY <1>7
    <3> QED BY <1>4, <1>5, <1>7, <2>1, <3>1, TcpReadEffect, SMTT(30)
  <2> HIDE DEF t
  <2>3. SameEngine(d, r) /\ SameFlags(d, r) /\ r.fb = d.fb
    BY <1>6, <2>2, Zenon DEF SameEngine, SameFlags
  <2>4. r.rx.requested \in Nat
    BY <2>2, ZenonT(60) DEF Dev, Rx
  <2>5. r.rx.received + r.rx.requested <= r.rx.size
    BY <2>2, <2>4, SMTT(30)
  <2>6. Reading(r)
    BY <1>4, <1>7, <2>2, Zenon DEF Reading
  <2>7. Sound(r)
    BY <1>7, <2>2, <2>5, <2>6, Zenon DEF Sound, Covered
  <2>8. Fit(r)
    BY <1>1, <2>3, <2>7, Zenon DEF Fit, SameEngine
  <2>9. r.txq = Append(d.txq, d.nexttx) /\ r.down = Append(d.down, v)
    BY <1>2, <1>5, <1>9, <2>2, Zenon DEF SameWrites
  <2> QED BY <1>7, <2>2, <2>3, <2>8, <2>9, ZenonT(60) DEF r, v
<1> QED BY <1>5, <1>8, <1>9, ZenonT(60)

=============================================================================
