---------------------------- MODULE NominalProofs ----------------------------
(***************************************************************************)
(* Proofs about the undisturbed tester: the boards arrive calibrated,      *)
(* nobody presses Scan or Stop, no board is reset and no frame times out.  *)
(* The operator may run, click boxes and flash as often as the bounds      *)
(* allow, one read may return several frames and drop all but the first,   *)
(* a slave that still holds a frame drops the next one, and the RF         *)
(* configuration may fail.                                                 *)
(*                                                                         *)
(* The argument: a run is one token.  It is a command on its way to a      *)
(* board, an answer on its way back or a transmission, at one board at a   *)
(* time, and it goes through six stages for every execution of a test.     *)
(* When it is lost, the run stands still.  Only the traffic of the flash   *)
(* button travels beside it.                                               *)
(***************************************************************************)
EXTENDS ProdProofs

Undisturbed ==
  /\ \A a \in {"scan", "stop", "reset", "spi"} : Bound[a] = 0
  /\ \A b \in Board : RfCal[b] = "CALIBRATED"

-----------------------------------------------------------------------------
(***************************************************************************)
(* The line to a board: its TCP streams, its SPI slave and its firmware.   *)
(***************************************************************************)
Line(b) == [down |-> down[b], spi |-> spi[b], up |-> up[b], fw |-> fw[b]]

LineOK(l) ==
  /\ l.down \in Seq(Cmd)
  /\ l.spi \in Seq(FrameType) /\ Len(l.spi) <= 1
  /\ l.up \in Seq(FrameType)

FlashCmds == {"FLASH_PARAM", "SPI_DISCONNECT"}

FlashCnf == {"FLASH_PARAM_CNF"}

\* What a transmitter may say before its TEST_DONE.
TxCnf == {"FLASH_PARAM_CNF", "START_CNF"}

FlashOnly(d) == \A i \in 1 .. Len(d) : d[i].cmd \in FlashCmds

NoFlash(d) == \A i \in 1 .. Len(d) : d[i].cmd # "FLASH_PARAM"

Ids(s, N) == \A i \in 1 .. Len(s) : s[i].id \in N

Still(f) == f.pc = "main" /\ f.timers = 0

\* Nothing of a test is under way on this line.
Quiet(l) ==
  /\ Still(l.fw) /\ FlashOnly(l.down)
  /\ Ids(l.spi, FlashCnf) /\ Ids(l.up, FlashCnf)

\* Command c is in the stream; a FLASH_PARAM is in front of it.
HasCmd(d, c) ==
  \E i \in 1 .. Len(d) :
    /\ d[i] = c
    /\ \A j \in 1 .. Len(d) : j < i => d[j].cmd \in FlashCmds
    /\ \A j \in 1 .. Len(d) : j > i => d[j].cmd = "SPI_DISCONNECT"

\* Frame a is in the stream, with frames of N in front of it.
HasFrame(u, a, N) ==
  \E i \in 1 .. Len(u) :
    /\ u[i] = a
    /\ \A j \in 1 .. Len(u) : j < i => u[j].id \in N
    /\ \A j \in 1 .. Len(u) : j > i => u[j].id \in FlashCnf

\* Command c is on its way to the board.
Asked(l, c) ==
  /\ Still(l.fw) /\ HasCmd(l.down, c)
  /\ Ids(l.spi, FlashCnf) /\ Ids(l.up, FlashCnf)

\* Answer a is on its way to the tool, with frames of N in front of it.
Answered(l, a, N) ==
  /\ Still(l.fw) /\ FlashOnly(l.down)
  /\ \/ l.spi = <<a>> /\ Ids(l.up, N)
     \/ Ids(l.spi, FlashCnf) /\ HasFrame(l.up, a, N)

\* The board transmits for execution e, or its START was refused.
Sending(l, e) ==
  /\ FlashOnly(l.down) /\ Ids(l.spi, TxCnf) /\ Ids(l.up, TxCnf)
  /\ \/ Still(l.fw)
     \/ l.fw.pc = "plc" /\ l.fw.timers = 0 /\ l.fw.plcTx.ex = e
     \/ l.fw.pc = "main" /\ l.fw.timers = 1 /\ l.fw.rfTx.ex = e
     \/ l.fw.pc = "rf" /\ l.fw.timers = 0

\* A step of the line that only moves the token along or loses it.
Benign(l, m) ==
  /\ m.fw = l.fw
  /\ NoFlash(l.down) => NoFlash(m.down)
  /\ Quiet(l) => Quiet(m)
  /\ \A c : Asked(l, c) => Asked(m, c) \/ Quiet(m)
  /\ \A a, N : N \in {FlashCnf, TxCnf} /\ Answered(l, a, N) => Answered(m, a, N) \/ Quiet(m)
  /\ \A e : Sending(l, e) => Sending(m, e)

LEMMA Drop ==
  ASSUME NEW S, NEW s \in Seq(S), NEW n \in Nat \ {0}, n <= Len(s)
  PROVE  /\ SubSeq(s, n + 1, Len(s)) \in Seq(S)
         /\ Len(SubSeq(s, n + 1, Len(s))) = Len(s) - n
         /\ \A i \in 1 .. Len(s) - n : SubSeq(s, n + 1, Len(s))[i] = s[i + n]
         /\ \A i \in 1 .. Len(s) - n : i + n \in 1 .. Len(s) /\ i + n > n
         /\ Head(s) = s[1] /\ 1 \in 1 .. Len(s) /\ Len(s) \in Nat
<1>1. Len(s) \in Nat /\ \A i \in 1 .. Len(s) : s[i] \in S
  BY LenProperties, ElementOfSeq
<1>2. Head(s) = s[1]
  BY <1>1, HeadTailProperties, EmptySeq
<1> QED
  BY <1>1, <1>2, SubSeqProperties

\* w is s followed by z.
IsJoin(w, s, z) ==
  /\ Len(w) = Len(s) + Len(z) /\ Len(s) \in Nat /\ Len(z) \in Nat
  /\ \A i \in 1 .. Len(s) : w[i] = s[i]
  /\ \A i \in 1 .. Len(w) : i \notin 1 .. Len(s) =>
       w[i] = z[i - Len(s)] /\ i - Len(s) \in 1 .. Len(z)
  /\ \A i \in 1 .. Len(z) : w[Len(s) + i] = z[i]

LEMMA Join ==
  ASSUME NEW S, NEW s \in Seq(S), NEW z \in Seq(S)
  PROVE  s \o z \in Seq(S) /\ IsJoin(s \o z, s, z)
<1>1. Len(s) \in Nat /\ Len(z) \in Nat
  BY LenProperties
<1>2. /\ s \o z \in Seq(S) /\ Len(s \o z) = Len(s) + Len(z)
      /\ \A i \in 1 .. Len(s) + Len(z) :
           (s \o z)[i] = IF i <= Len(s) THEN s[i] ELSE z[i - Len(s)]
  BY ConcatProperties
<1> QED
  BY <1>1, <1>2 DEF IsJoin

\* Identifiers of a joined and of a shortened stream.
LEMMA IsJoinIds ==
  ASSUME NEW w, NEW s, NEW z, IsJoin(w, s, z)
  PROVE  /\ \A N : Ids(s, N) /\ Ids(z, N) => Ids(w, N)
         /\ FlashOnly(s) /\ FlashOnly(z) => FlashOnly(w)
         /\ NoFlash(s) /\ NoFlash(z) => NoFlash(w)
  BY DEF IsJoin, Ids, FlashOnly, NoFlash

LEMMA IdsEmpty == \A N : Ids(<<>>, N)
  BY DEF Ids

LEMMA IdsMore == \A s : Ids(s, FlashCnf) => Ids(s, TxCnf)
  BY DEF Ids, FlashCnf, TxCnf

LEMMA FrameJoin ==
  ASSUME NEW w, NEW s, NEW z, IsJoin(w, s, z), NEW a, NEW N
  PROVE  /\ HasFrame(s, a, N) /\ Ids(z, FlashCnf) => HasFrame(w, a, N)
         /\ Ids(s, N) /\ z = <<a>> => HasFrame(w, a, N)
<1>1. /\ Len(w) = Len(s) + Len(z) /\ Len(s) \in Nat /\ Len(z) \in Nat
      /\ \A i \in 1 .. Len(s) : w[i] = s[i]
      /\ \A i \in 1 .. Len(w) : i \notin 1 .. Len(s) =>
           w[i] = z[i - Len(s)] /\ i - Len(s) \in 1 .. Len(z)
      /\ \A i \in 1 .. Len(z) : w[Len(s) + i] = z[i]
  BY DEF IsJoin
<1>2. ASSUME HasFrame(s, a, N), Ids(z, FlashCnf) PROVE HasFrame(w, a, N)
  <2>1. PICK i \in 1 .. Len(s) :
          /\ s[i] = a
          /\ \A j \in 1 .. Len(s) : j < i => s[j].id \in N
          /\ \A j \in 1 .. Len(s) : j > i => s[j].id \in FlashCnf
    BY <1>2 DEF HasFrame
  <2>2. i \in 1 .. Len(w) /\ w[i] = a
    BY <1>1, <2>1
  <2>3. \A j \in 1 .. Len(w) : j < i => w[j].id \in N
    BY <1>1, <2>1
  <2>4. \A j \in 1 .. Len(w) : j > i => w[j].id \in FlashCnf
    BY <1>1, <1>2, <2>1 DEF Ids
  <2> QED
    BY <2>2, <2>3, <2>4 DEF HasFrame
<1>3. ASSUME Ids(s, N), z = <<a>> PROVE HasFrame(w, a, N)
  <2>1. Len(z) = 1 /\ z[1] = a
    BY <1>3
  <2>2. Len(s) + 1 \in 1 .. Len(w) /\ w[Len(s) + 1] = a /\ Len(w) = Len(s) + 1
    BY <1>1, <2>1
  <2>3. \A j \in 1 .. Len(w) : j < Len(s) + 1 => w[j].id \in N
    BY <1>1, <1>3 DEF Ids
  <2>4. \A j \in 1 .. Len(w) : ~ (j > Len(s) + 1)
    BY <1>1, <2>2
  <2> QED
    BY <2>2, <2>3, <2>4 DEF HasFrame
<1> QED
  BY <1>2, <1>3

\* w is s without its first n entries.
IsRest(w, s, n) ==
  /\ Len(w) = Len(s) - n /\ Len(s) \in Nat /\ n \in Nat /\ 1 <= n /\ n <= Len(s)
  /\ \A i \in 1 .. Len(w) : w[i] = s[i + n] /\ i + n \in 1 .. Len(s) /\ i + n > n
  /\ Head(s) = s[1]

LEMMA RestOf ==
  ASSUME NEW S, NEW s \in Seq(S), NEW n \in Nat \ {0}, n <= Len(s)
  PROVE  IsRest(SubSeq(s, n + 1, Len(s)), s, n)
  BY Drop DEF IsRest

LEMMA IsRestIds ==
  ASSUME NEW w, NEW s, NEW n, IsRest(w, s, n)
  PROVE  /\ \A N : Ids(s, N) => Ids(w, N) /\ Head(s).id \in N
         /\ FlashOnly(s) => FlashOnly(w) /\ Head(s).cmd \in FlashCmds
         /\ NoFlash(s) => NoFlash(w)
<1>1. /\ 1 \in 1 .. Len(s) /\ Head(s) = s[1]
      /\ \A i \in 1 .. Len(w) : w[i] = s[i + n] /\ i + n \in 1 .. Len(s)
  BY DEF IsRest
<1> QED
  BY <1>1 DEF Ids, FlashOnly, NoFlash

LEMMA FrameRest ==
  ASSUME NEW w, NEW s, NEW n, IsRest(w, s, n), NEW a, NEW N, HasFrame(s, a, N)
  PROVE  \/ Head(s) = a /\ Ids(w, FlashCnf)
         \/ Head(s).id \in N /\ (HasFrame(w, a, N) \/ Ids(w, FlashCnf))
<1>1. /\ Len(w) = Len(s) - n /\ Len(s) \in Nat /\ n \in Nat /\ 1 <= n /\ n <= Len(s)
      /\ \A i \in 1 .. Len(w) : w[i] = s[i + n] /\ i + n \in 1 .. Len(s) /\ i + n > n
      /\ Head(s) = s[1]
  BY DEF IsRest
<1>2. PICK i \in 1 .. Len(s) :
        /\ s[i] = a
        /\ \A j \in 1 .. Len(s) : j < i => s[j].id \in N
        /\ \A j \in 1 .. Len(s) : j > i => s[j].id \in FlashCnf
  BY DEF HasFrame
<1>3. i = 1 \/ Head(s).id \in N
  BY <1>1, <1>2
<1>4. CASE i <= n
  <2>1. \A j \in 1 .. Len(w) : j + n > i
    BY <1>1, <1>4
  <2>2. Ids(w, FlashCnf)
    BY <1>1, <1>2, <2>1 DEF Ids
  <2> QED
    BY <1>1, <1>2, <1>3, <2>2
<1>5. CASE i > n
  <2>1. i - n \in 1 .. Len(w) /\ (i - n) + n = i
    BY <1>1, <1>2, <1>5
  <2>2. w[i - n] = a
    BY <1>1, <1>2, <2>1
  <2>3. ASSUME NEW j \in 1 .. Len(w)
        PROVE  /\ j < i - n => w[j].id \in N
               /\ j > i - n => w[j].id \in FlashCnf
    <3>1. i \in Int /\ n \in Int /\ j \in Int
      BY <1>1
    <3>2. (j < i - n => j + n < i) /\ (j > i - n => j + n > i)
      BY <3>1
    <3>3. w[j] = s[j + n] /\ j + n \in 1 .. Len(s)
      BY <1>1
    <3> QED
      BY <1>2, <3>2, <3>3
  <2>4. HasFrame(w, a, N)
    BY <2>1, <2>2, <2>3 DEF HasFrame
  <2>5. i # 1
    BY <1>1, <1>5
  <2> QED
    BY <1>3, <2>4, <2>5
<1> QED
  BY <1>1, <1>2, <1>4, <1>5

LEMMA CmdRest ==
  ASSUME NEW w, NEW s, NEW n, IsRest(w, s, n), NEW c, HasCmd(s, c)
  PROVE  /\ HasCmd(w, c) \/ FlashOnly(w)
         /\ \/ Head(s).cmd \in FlashCmds
            \/ Head(s) = c /\ FlashOnly(w) /\ NoFlash(w)
<1>1. /\ Len(w) = Len(s) - n /\ Len(s) \in Nat /\ n \in Nat /\ 1 <= n /\ n <= Len(s)
      /\ \A i \in 1 .. Len(w) : w[i] = s[i + n] /\ i + n \in 1 .. Len(s) /\ i + n > n
      /\ Head(s) = s[1]
  BY DEF IsRest
<1>2. PICK i \in 1 .. Len(s) :
        /\ s[i] = c
        /\ \A j \in 1 .. Len(s) : j < i => s[j].cmd \in FlashCmds
        /\ \A j \in 1 .. Len(s) : j > i => s[j].cmd = "SPI_DISCONNECT"
  BY DEF HasCmd
<1>3. i = 1 \/ Head(s).cmd \in FlashCmds
  BY <1>1, <1>2
<1>4. CASE i <= n
  <2>1. \A j \in 1 .. Len(w) : j + n > i
    BY <1>1, <1>4
  <2>2. \A j \in 1 .. Len(w) : w[j].cmd = "SPI_DISCONNECT"
    BY <1>1, <1>2, <2>1
  <2>3. FlashOnly(w) /\ NoFlash(w)
    BY <2>2 DEF FlashOnly, NoFlash, FlashCmds
  <2> QED
    BY <1>1, <1>2, <1>3, <2>3
<1>5. CASE i > n
  <2>1. i - n \in 1 .. Len(w) /\ (i - n) + n = i
    BY <1>1, <1>2, <1>5
  <2>2. w[i - n] = c
    BY <1>1, <1>2, <2>1
  <2>3. ASSUME NEW j \in 1 .. Len(w)
        PROVE  /\ j < i - n => w[j].cmd \in FlashCmds
               /\ j > i - n => w[j].cmd = "SPI_DISCONNECT"
    <3>1. i \in Int /\ n \in Int /\ j \in Int
      BY <1>1
    <3>2. (j < i - n => j + n < i) /\ (j > i - n => j + n > i)
      BY <3>1
    <3>3. w[j] = s[j + n] /\ j + n \in 1 .. Len(s)
      BY <1>1
    <3> QED
      BY <1>2, <3>2, <3>3
  <2>4. HasCmd(w, c)
    BY <2>1, <2>2, <2>3 DEF HasCmd
  <2>5. i # 1
    BY <1>1, <1>5
  <2> QED
    BY <1>3, <2>4, <2>5
<1> QED
  BY <1>1, <1>2, <1>4, <1>5

LEMMA CmdJoin ==
  ASSUME NEW w, NEW s, NEW z, IsJoin(w, s, z), NEW c
  PROVE  /\ HasCmd(s, c) /\ (\A i \in 1 .. Len(z) : z[i].cmd = "SPI_DISCONNECT") => HasCmd(w, c)
         /\ FlashOnly(s) /\ z = <<c>> => HasCmd(w, c)
<1>1. /\ Len(w) = Len(s) + Len(z) /\ Len(s) \in Nat /\ Len(z) \in Nat
      /\ \A i \in 1 .. Len(s) : w[i] = s[i]
      /\ \A i \in 1 .. Len(w) : i \notin 1 .. Len(s) =>
           w[i] = z[i - Len(s)] /\ i - Len(s) \in 1 .. Len(z)
      /\ \A i \in 1 .. Len(z) : w[Len(s) + i] = z[i]
  BY DEF IsJoin
<1>2. ASSUME HasCmd(s, c), \A i \in 1 .. Len(z) : z[i].cmd = "SPI_DISCONNECT"
      PROVE  HasCmd(w, c)
  <2>1. PICK i \in 1 .. Len(s) :
          /\ s[i] = c
          /\ \A j \in 1 .. Len(s) : j < i => s[j].cmd \in FlashCmds
          /\ \A j \in 1 .. Len(s) : j > i => s[j].cmd = "SPI_DISCONNECT"
    BY <1>2 DEF HasCmd
  <2>2. i \in 1 .. Len(w) /\ w[i] = c
    BY <1>1, <2>1
  <2>3. \A j \in 1 .. Len(w) : j < i => w[j].cmd \in FlashCmds
    BY <1>1, <2>1
  <2>4. \A j \in 1 .. Len(w) : j > i => w[j].cmd = "SPI_DISCONNECT"
    BY <1>1, <1>2, <2>1
  <2> QED
    BY <2>2, <2>3, <2>4 DEF HasCmd
<1>3. ASSUME FlashOnly(s), z = <<c>> PROVE HasCmd(w, c)
  <2>1. Len(z) = 1 /\ z[1] = c
    BY <1>3
  <2>2. Len(s) + 1 \in 1 .. Len(w) /\ w[Len(s) + 1] = c /\ Len(w) = Len(s) + 1
    BY <1>1, <2>1
  <2>3. \A j \in 1 .. Len(w) : j < Len(s) + 1 => w[j].cmd \in FlashCmds
    BY <1>1, <1>3 DEF FlashOnly
  <2>4. \A j \in 1 .. Len(w) : ~ (j > Len(s) + 1)
    BY <1>1, <2>2
  <2> QED
    BY <2>2, <2>3, <2>4 DEF HasCmd
<1> QED
  BY <1>2, <1>3

LEMMA BenignTrans ==
  ASSUME NEW k, NEW l, NEW m, Benign(k, l), Benign(l, m)
  PROVE  Benign(k, m)
  BY DEF Benign

LEMMA BenignSame ==
  ASSUME NEW l, NEW m, m.down = l.down, m.spi = l.spi, m.up = l.up, m.fw = l.fw
  PROVE  Benign(l, m)
  BY DEF Benign, Quiet, Asked, Answered, Sending

\* The relay hands the frame of the slave to the tool.
LEMMA FetchLine ==
  ASSUME NEW l, NEW m, m.down = l.down, m.fw = l.fw, m.spi = <<>>,
         IsJoin(m.up, l.up, l.spi)
  PROVE  Benign(l, m)
<1>1. ASSUME NEW N, Ids(l.spi, N), Ids(l.up, N) PROVE Ids(m.spi, N) /\ Ids(m.up, N)
  BY <1>1, IsJoinIds, IdsEmpty
<1>2. Quiet(l) => Quiet(m)
  BY <1>1 DEF Quiet
<1>3. ASSUME NEW c, Asked(l, c) PROVE Asked(m, c)
  BY <1>1, <1>3 DEF Asked
<1>4. ASSUME NEW e, Sending(l, e) PROVE Sending(m, e)
  BY <1>1, <1>4 DEF Sending
<1>5. ASSUME NEW a, NEW N, Answered(l, a, N) PROVE Answered(m, a, N)
  <2>1. Still(m.fw) /\ FlashOnly(m.down) /\ Ids(m.spi, FlashCnf)
    BY <1>5, IdsEmpty DEF Answered
  <2>2. HasFrame(m.up, a, N)
    BY <1>5, FrameJoin DEF Answered
  <2> QED
    BY <2>1, <2>2 DEF Answered
<1> QED
  BY <1>2, <1>3, <1>4, <1>5 DEF Benign

\* The tool reads n frames of the line and looks at the first of them.
LEMMA ReadLine ==
  ASSUME NEW l, NEW m, m.down = l.down, m.fw = l.fw, m.spi = l.spi,
         NEW n, IsRest(m.up, l.up, n)
  PROVE  /\ Quiet(l) => Quiet(m) /\ Head(l.up).id \in FlashCnf
         /\ \A c : Asked(l, c) => Asked(m, c) /\ Head(l.up).id \in FlashCnf
         /\ \A e : Sending(l, e) => Sending(m, e) /\ Head(l.up).id \in TxCnf
         /\ \A a, N : Answered(l, a, N) =>
              \/ Head(l.up) = a /\ Quiet(m)
              \/ Head(l.up).id \in N /\ (Answered(m, a, N) \/ Quiet(m))
<1>1. ASSUME NEW N, Ids(l.up, N) PROVE Ids(m.up, N) /\ Head(l.up).id \in N
  BY <1>1, IsRestIds
<1>2. Quiet(l) => Quiet(m) /\ Head(l.up).id \in FlashCnf
  BY <1>1 DEF Quiet
<1>3. ASSUME NEW c, Asked(l, c) PROVE Asked(m, c) /\ Head(l.up).id \in FlashCnf
  BY <1>1, <1>3 DEF Asked
<1>4. ASSUME NEW e, Sending(l, e) PROVE Sending(m, e) /\ Head(l.up).id \in TxCnf
  BY <1>1, <1>4 DEF Sending
<1>5. ASSUME NEW a, NEW N, Answered(l, a, N)
      PROVE  \/ Head(l.up) = a /\ Quiet(m)
             \/ Head(l.up).id \in N /\ (Answered(m, a, N) \/ Quiet(m))
  <2>1. Still(m.fw) /\ FlashOnly(m.down)
    BY <1>5 DEF Answered
  <2>2. CASE l.spi = <<a>> /\ Ids(l.up, N)
    BY <1>1, <2>1, <2>2 DEF Answered
  <2>3. CASE Ids(l.spi, FlashCnf) /\ HasFrame(l.up, a, N)
    BY <2>1, <2>3, FrameRest DEF Answered, Quiet
  <2> QED
    BY <1>5, <2>2, <2>3 DEF Answered
<1> QED
  BY <1>2, <1>3, <1>4, <1>5

\* Nothing, or SPI_DISCONNECT, is sent on the line.
LEMMA SendLine ==
  ASSUME NEW l, NEW m, m.up = l.up, m.fw = l.fw, m.spi = l.spi,
         NEW z, IsJoin(m.down, l.down, z), \A i \in 1 .. Len(z) : z[i].cmd = "SPI_DISCONNECT"
  PROVE  Benign(l, m)
<1>1. FlashOnly(z) /\ NoFlash(z)
  BY DEF FlashOnly, NoFlash, FlashCmds
<1>2. FlashOnly(l.down) => FlashOnly(m.down)
  BY <1>1, IsJoinIds
<1>3. NoFlash(l.down) => NoFlash(m.down)
  BY <1>1, IsJoinIds
<1>4. \A c : HasCmd(l.down, c) => HasCmd(m.down, c)
  BY CmdJoin
<1> QED
  BY <1>2, <1>3, <1>4 DEF Benign, Quiet, Asked, Answered, Sending

\* The board, or the driver, takes a command of the flash button.
LEMMA FlashLine ==
  ASSUME NEW l, NEW m, m.up = l.up, m.fw = l.fw,
         m.spi = l.spi \/ (l.spi = <<>> /\ m.spi = <<Frame("FLASH_PARAM_CNF", "SUCCESS")>>),
         NEW n, IsRest(m.down, l.down, n)
  PROVE  Benign(l, m)
<1>1. FlashOnly(l.down) => FlashOnly(m.down)
  BY IsRestIds
<1>2. NoFlash(l.down) => NoFlash(m.down)
  BY IsRestIds
<1>3. \A c : HasCmd(l.down, c) => HasCmd(m.down, c) \/ FlashOnly(m.down)
  BY CmdRest
<1>4. Ids(<<Frame("FLASH_PARAM_CNF", "SUCCESS")>>, FlashCnf)
  BY DEF Ids, Frame, FlashCnf
<1>5. Ids(<<Frame("FLASH_PARAM_CNF", "SUCCESS")>>, TxCnf)
  BY <1>4, IdsMore
<1>6. \A N : N \in {FlashCnf, TxCnf} /\ Ids(l.spi, N) => Ids(m.spi, N)
  BY <1>4, <1>5
<1>7. \A a : l.spi = <<a>> => m.spi = <<a>>
  OBVIOUS
<1>8. Quiet(l) => Quiet(m)
  BY <1>1, <1>6 DEF Quiet
<1>9. \A c : Asked(l, c) => Asked(m, c) \/ Quiet(m)
  BY <1>3, <1>6 DEF Asked, Quiet
<1>10. \A a, N : Answered(l, a, N) => Answered(m, a, N)
  BY <1>1, <1>6, <1>7 DEF Answered
<1>11. \A e : Sending(l, e) => Sending(m, e)
  BY <1>1, <1>6 DEF Sending
<1> QED
  BY <1>2, <1>8, <1>9, <1>10, <1>11 DEF Benign

-----------------------------------------------------------------------------
(***************************************************************************)
(* The token: an execution e of the plain test t with the lines r of its   *)
(* receiver and x of its transmitter.                                      *)
(***************************************************************************)
Command(op, t, e) == [cmd |-> op, test |-> t, ex |-> e]

ResultFrame(f, i) ==
  [Frame("GET_RESULT_CNF", "SUCCESS") EXCEPT !.intf = i, !.stats = f.stats[i]]

Replies == {"SUCCESS", "INVALID_TEST"}

\* The statistics count only frames of this execution.
Own(f, i, e) == f.stats[i].from \subseteq {e}

\* Those of a PLC test since its PREPARE, those of an RF test since its START.
PlcOwn(f, i, e) == i = "PLC" => Own(f, i, e)

Started(f, i, e) == f.started = e /\ Own(f, i, e)

\* The PREPARE of this run has driven an earlier FLASH_PARAM out of the stream.
Flushed(b, l) == b = "DUT" => NoFlash(l.down)

FirstPrepare(t, e, r, x) ==
  /\ Quiet(x)
  /\ \/ Asked(r, Command("PREPARE", t, e))
     \/ /\ \E s \in Replies : Answered(r, Frame("PREPARE_CNF", s), FlashCnf)
        /\ PlcOwn(r.fw, t.intf, e) /\ Flushed(Receiver(t), r)

SecondPrepare(t, e, r, x) ==
  /\ Quiet(r) /\ PlcOwn(r.fw, t.intf, e) /\ Flushed(Receiver(t), r)
  /\ \/ Asked(x, Command("PREPARE", t, e))
     \/ /\ \E s \in Replies : Answered(x, Frame("PREPARE_CNF", s), FlashCnf)
        /\ Flushed(Transmitter(t), x)

BothFlushed(t, r, x) == Flushed(Receiver(t), r) /\ Flushed(Transmitter(t), x)

ReceiverStart(t, e, r, x) ==
  /\ Quiet(x) /\ PlcOwn(r.fw, t.intf, e) /\ BothFlushed(t, r, x)
  /\ \/ Asked(r, Command("START", t, e))
     \/ \E s \in Replies : /\ Answered(r, Frame("START_CNF", s), FlashCnf)
                           /\ s = "SUCCESS" => Started(r.fw, t.intf, e)

Transmission(t, e, r, x) ==
  /\ Quiet(r) /\ Started(r.fw, t.intf, e) /\ BothFlushed(t, r, x)
  /\ \/ Asked(x, Command("START", t, e))
     \/ Sending(x, e)
     \/ Answered(x, Frame("TEST_DONE", "SUCCESS"), TxCnf)

Stopping(t, e, r, x) ==
  /\ Quiet(x) /\ Own(r.fw, t.intf, e) /\ BothFlushed(t, r, x)
  /\ \/ Asked(r, Command("STOP", t, e))
     \/ Answered(r, Frame("STOP_CNF", "SUCCESS"), FlashCnf)

Fetching(t, e, r, x) ==
  /\ Quiet(x) /\ Own(r.fw, t.intf, e) /\ BothFlushed(t, r, x)
  /\ \/ Asked(r, Command("GET_RESULT", t, e))
     \/ Answered(r, ResultFrame(r.fw, t.intf), FlashCnf)

\* The token was lost.
Standstill(r, x) == Quiet(r) /\ Quiet(x)

Token(t, e, r, x) ==
  \/ FirstPrepare(t, e, r, x)
  \/ SecondPrepare(t, e, r, x)
  \/ ReceiverStart(t, e, r, x)
  \/ Transmission(t, e, r, x)
  \/ Stopping(t, e, r, x)
  \/ Fetching(t, e, r, x)
  \/ Standstill(r, x)

LEMMA TokenBenign ==
  ASSUME NEW t, NEW e, NEW r, NEW x, Token(t, e, r, x),
         NEW r2, Benign(r, r2), NEW x2, Benign(x, x2)
  PROVE  Token(t, e, r2, x2)
<1>1. r2.fw = r.fw /\ x2.fw = x.fw
  BY DEF Benign
<1>2. (Quiet(r) => Quiet(r2)) /\ (Quiet(x) => Quiet(x2))
  BY DEF Benign
<1>3. /\ \A c : Asked(r, c) => Asked(r2, c) \/ Quiet(r2)
      /\ \A c : Asked(x, c) => Asked(x2, c) \/ Quiet(x2)
  BY DEF Benign
<1>4. /\ \A a : Answered(r, a, FlashCnf) => Answered(r2, a, FlashCnf) \/ Quiet(r2)
      /\ \A a : Answered(x, a, FlashCnf) => Answered(x2, a, FlashCnf) \/ Quiet(x2)
      /\ \A a : Answered(x, a, TxCnf) => Answered(x2, a, TxCnf) \/ Quiet(x2)
  BY DEF Benign
<1>5. \A a : Sending(x, a) => Sending(x2, a)
  BY DEF Benign
<1>6. \A b : (Flushed(b, r) => Flushed(b, r2)) /\ (Flushed(b, x) => Flushed(b, x2))
  BY DEF Benign, Flushed
<1>7. CASE FirstPrepare(t, e, r, x)
  <2>1. FirstPrepare(t, e, r2, x2) \/ Standstill(r2, x2)
    BY <1>1, <1>2, <1>3, <1>4, <1>6, <1>7, Zenon DEF FirstPrepare, Standstill
  <2> QED
    BY <2>1 DEF Token
<1>8. CASE SecondPrepare(t, e, r, x)
  <2>1. SecondPrepare(t, e, r2, x2) \/ Standstill(r2, x2)
    BY <1>1, <1>2, <1>3, <1>4, <1>6, <1>8, Zenon DEF SecondPrepare, Standstill
  <2> QED
    BY <2>1 DEF Token
<1>9. CASE ReceiverStart(t, e, r, x)
  <2>1. ReceiverStart(t, e, r2, x2) \/ Standstill(r2, x2)
    BY <1>1, <1>2, <1>3, <1>4, <1>6, <1>9, Zenon DEF ReceiverStart, Standstill, BothFlushed
  <2> QED
    BY <2>1 DEF Token
<1>10. CASE Transmission(t, e, r, x)
  <2>1. Transmission(t, e, r2, x2) \/ Standstill(r2, x2)
    BY <1>1, <1>2, <1>3, <1>4, <1>5, <1>6, <1>10, Zenon DEF Transmission, Standstill, BothFlushed
  <2> QED
    BY <2>1 DEF Token
<1>11. CASE Stopping(t, e, r, x)
  <2>1. Stopping(t, e, r2, x2) \/ Standstill(r2, x2)
    BY <1>1, <1>2, <1>3, <1>4, <1>6, <1>11, Zenon DEF Stopping, Standstill, BothFlushed
  <2> QED
    BY <2>1 DEF Token
<1>12. CASE Fetching(t, e, r, x)
  <2>1. Fetching(t, e, r2, x2) \/ Standstill(r2, x2)
    BY <1>1, <1>2, <1>3, <1>4, <1>6, <1>12, Zenon DEF Fetching, Standstill, BothFlushed
  <2> QED
    BY <2>1 DEF Token
<1>13. CASE Standstill(r, x)
  BY <1>2, <1>13 DEF Token, Standstill
<1> QED
  BY <1>7, <1>8, <1>9, <1>10, <1>11, <1>12, <1>13 DEF Token

-----------------------------------------------------------------------------
(***************************************************************************)
(* The invariant, for a tool h and the lines l of the two boards.          *)
(***************************************************************************)
DevUp == Frame("DEVICE_UP", "SUCCESS")

\* Board b on its way from power-up to its line in lvClients.
ComingUp(h, b, l) ==
  /\ l.down = <<>> /\ l.fw.timers = 0
  /\ \/ /\ b \notin h.up /\ h.listed[b] = 0
        /\ \/ l.fw.pc = "boot" /\ l.spi = <<>> /\ l.up = <<>>
           \/ l.fw.pc = "main" /\ l.spi = <<DevUp>> /\ l.up = <<>>
           \/ l.fw.pc = "main" /\ l.spi = <<>> /\ l.up = <<DevUp>>
     \/ /\ b \in h.up /\ h.listed[b] = 1
        /\ l.fw.pc = "main" /\ l.spi = <<>> /\ l.up = <<>>

\* Until both boards are listed the operator can do nothing.
StartUp(h, l) ==
  /\ ~h.runOn /\ ~h.stopOn /\ h.boxOn = {} /\ h.summary = "none"
  /\ ~h.testRunning /\ ~h.sweepTestRunning
  /\ h.up # Board /\ h.up \in SUBSET Board
  /\ \A b \in Board : ComingUp(h, b, l[b])

Idling(h, l) == ~h.stopOn /\ \A b \in Board : Quiet(l[b])

UnderWay(h, l) ==
  /\ h.stopOn /\ ~h.runOn /\ h.boxOn = {} /\ h.q # <<>>
  /\ Head(h.q).sweep => h.params[Head(h.q).intf] > 0
  /\ Token(PlainOf(Head(h.q)), Execution(h), l[Receiver(Head(h.q))], l[Transmitter(Head(h.q))])

Working(h, l) ==
  /\ h.devicesUP /\ \A b \in Board : h.listed[b] = 1
  /\ NoFlash(l["REF"].down)
  /\ Idling(h, l) \/ UnderWay(h, l)

\* Boards stay calibrated, and a count has an execution it came from.
FwSound(f) ==
  /\ f.cal = "CALIBRATED" /\ f.pending = NoTest
  /\ \A i \in Intf : f.stats[i].n > 0 => f.stats[i].from # {}

Good(h, l) ==
  /\ h.out = NoSends
  /\ \A b \in Board : FwSound(l[b].fw)
  /\ StartUp(h, l) \/ Working(h, l)

Lines == [b \in Board |-> Line(b)]

NInv == TInv /\ Good(tool, Lines)

LEMMA WorkingBenign ==
  ASSUME NEW h, NEW l, NEW m, Working(h, l), \A b \in Board : Benign(l[b], m[b])
  PROVE  Working(h, m)
<1>1. "REF" \in Board /\ \A t : Receiver(t) \in Board /\ Transmitter(t) \in Board
  BY BoardFacts DEF Board
<1>2. NoFlash(m["REF"].down)
  BY <1>1 DEF Working, Benign
<1>3. Idling(h, l) => Idling(h, m)
  BY DEF Idling, Benign
<1>4. UnderWay(h, l) => UnderWay(h, m)
  <2> DEFINE R == Receiver(Head(h.q))
             X == Transmitter(Head(h.q))
  <2>1. Benign(l[R], m[R]) /\ Benign(l[X], m[X])
    BY <1>1
  <2> HIDE DEF R, X
  <2>2. \A t, e : Token(t, e, l[R], l[X]) => Token(t, e, m[R], m[X])
    BY <2>1, TokenBenign
  <2> QED
    BY <2>2 DEF UnderWay, R, X
<1> QED
  BY <1>2, <1>3, <1>4 DEF Working

LEMMA LineFacts ==
  /\ \A b \in Board : Lines[b].down = down[b] /\ Lines[b].spi = spi[b]
                        /\ Lines[b].up = up[b] /\ Lines[b].fw = fw[b]
  /\ \A b \in Board : Lines'[b].down = down'[b] /\ Lines'[b].spi = spi'[b]
                        /\ Lines'[b].up = up'[b] /\ Lines'[b].fw = fw'[b]
  /\ TInv => \A b \in Board : LineOK(Lines[b])
<1>1. \A b \in Board : Lines[b].down = down[b] /\ Lines[b].spi = spi[b]
                        /\ Lines[b].up = up[b] /\ Lines[b].fw = fw[b]
  BY DEF Lines, Line
<1>2. \A b \in Board : Lines'[b].down = down'[b] /\ Lines'[b].spi = spi'[b]
                        /\ Lines'[b].up = up'[b] /\ Lines'[b].fw = fw'[b]
  BY DEF Lines, Line
<1>3. ASSUME TInv, NEW b \in Board PROVE LineOK(Lines[b])
  <2>1. down[b] \in Seq(Cmd) /\ up[b] \in Seq(FrameType) /\ spi[b] \in Seq(FrameType)
           /\ Len(spi[b]) <= 1
    BY <1>3 DEF TInv, FwInv, SpiOK
  <2> QED
    BY <1>1, <2>1 DEF LineOK
<1> QED
  BY <1>1, <1>2, <1>3

-----------------------------------------------------------------------------
(***************************************************************************)
(* Steps of the relays.                                                    *)
(***************************************************************************)
\* Before both boards are listed: a step of one board.
LEMMA StartUpStep ==
  ASSUME NEW h, NEW l, NEW m, NEW b \in Board, StartUp(h, l),
         \A c \in Board : c # b => m[c] = l[c], ComingUp(h, b, m[b])
  PROVE  StartUp(h, m)
  BY DEF StartUp

LEMMA FwSame ==
  ASSUME NEW l, NEW m, \A b \in Board : m[b].fw = l[b].fw,
         \A b \in Board : FwSound(l[b].fw)
  PROVE  \A b \in Board : FwSound(m[b].fw)
  BY DEF FwSound

LEMMA TypeFacts ==
  ASSUME TInv
  PROVE  /\ down \in [Board -> Seq(Cmd)] /\ up \in [Board -> Seq(FrameType)]
         /\ spi \in [Board -> Seq(FrameType)] /\ \A b \in Board : Len(spi[b]) <= 1
         /\ fw = [b \in Board |-> fw[b]] /\ \A b \in Board : FwOK(fw[b]) /\ IsFw(fw[b])
         /\ Sound(tool) /\ Rest(tool, used["run"]) /\ IsTool(tool)
  BY DEF TInv, FwInv, SpiOK, FwsOK, FwOK, Sound

LEMMA ResponseStep ==
  ASSUME NInv, NEW b \in Board, RelayResponse(b)
  PROVE  Good(tool, Lines)'
<1>0. /\ TInv /\ Good(tool, Lines)
      /\ spi[b] # <<>> /\ up' = [up EXCEPT ![b] = @ \o spi[b]]
      /\ spi' = [spi EXCEPT ![b] = <<>>] /\ UNCHANGED <<tool, down, fw>>
  BY DEF NInv, RelayResponse
<1>1. /\ up'[b] = up[b] \o spi[b] /\ spi'[b] = <<>>
      /\ \A c \in Board : c # b => up'[c] = up[c] /\ spi'[c] = spi[c]
      /\ up[b] \in Seq(FrameType) /\ spi[b] \in Seq(FrameType)
  BY <1>0, TypeFacts
<1>2. IsJoin(up'[b], up[b], spi[b])
  BY <1>1, Join
<1>3. ASSUME NEW c \in Board PROVE Benign(Lines[c], Lines'[c])
  <2>1. CASE c = b
    BY <1>0, <1>1, <1>2, <2>1, LineFacts, FetchLine
  <2>2. CASE c # b
    BY <1>0, <1>1, <2>2, LineFacts, BenignSame
  <2> QED
    BY <2>1, <2>2
<1>4. \A c \in Board : Lines'[c].fw = Lines[c].fw
  BY <1>0, LineFacts
<1>5. \A c \in Board : FwSound(Lines'[c].fw)
  BY <1>0, <1>4, FwSame DEF Good
<1>6. CASE Working(tool, Lines)
  <2>1. Working(tool, Lines')
    BY <1>3, <1>6, WorkingBenign
  <2>2. tool.out = NoSends
    BY <1>0 DEF Good
  <2>3. Good(tool, Lines')
    BY <1>5, <2>1, <2>2 DEF Good
  <2> QED
    BY <1>0, <2>3
<1>7. CASE StartUp(tool, Lines)
  <2>1. ComingUp(tool, b, Lines[b])
    BY <1>7 DEF StartUp
  <2>2. spi[b] = <<DevUp>> /\ up[b] = <<>> /\ fw[b].pc = "main" /\ b \notin tool.up
           /\ tool.listed[b] = 0 /\ down[b] = <<>> /\ fw[b].timers = 0
    BY <1>0, <2>1, LineFacts DEF ComingUp
  <2>3. up'[b] = <<DevUp>>
    BY <1>1, <2>2, ConcatEmptySeq
  <2>4. ComingUp(tool, b, Lines'[b])
    BY <1>0, <1>1, <2>2, <2>3, LineFacts DEF ComingUp
  <2>5. \A c \in Board : c # b => Lines'[c] = Lines[c]
    BY <1>0, <1>1 DEF Lines, Line
  <2>6. StartUp(tool, Lines')
    BY <1>7, <2>4, <2>5, StartUpStep
  <2>7. tool.out = NoSends
    BY <1>0 DEF Good
  <2>8. Good(tool, Lines')
    BY <1>5, <2>6, <2>7 DEF Good
  <2> QED
    BY <1>0, <2>8
<1> QED
  BY <1>0, <1>6, <1>7 DEF Good

\* Boards that are listed are past their boot, and only a transmitter transmits.
LEMMA WorkingPc ==
  ASSUME Working(tool, Lines), NEW b \in Board
  PROVE  /\ fw[b].pc \in {"main", "plc", "rf"}
         /\ \/ Still(fw[b])
            \/ /\ UnderWay(tool, Lines) /\ b = Transmitter(Head(tool.q))
               /\ Transmission(PlainOf(Head(tool.q)), Execution(tool), Lines[Other(b)], Lines[b])
               /\ Sending(Lines[b], Execution(tool))
<1>1. CASE Idling(tool, Lines)
  <2>1. Still(fw[b])
    BY <1>1, LineFacts DEF Idling, Quiet
  <2> QED
    BY <2>1 DEF Still
<1>2. CASE UnderWay(tool, Lines)
  <2> DEFINE t == PlainOf(Head(tool.q))
             e == Execution(tool)
             R == Receiver(Head(tool.q))
             X == Transmitter(Head(tool.q))
  <2>1. R \in Board /\ X \in Board /\ R # X /\ (b = R \/ b = X) /\ R = Other(X)
    BY DEF Receiver, Transmitter, Other, Board
  <2>2. Token(t, e, Lines[R], Lines[X])
    BY <1>2 DEF UnderWay
  <2>6. Lines[R].fw = fw[R] /\ Lines[X].fw = fw[X]
    BY <2>1, LineFacts
  <2> HIDE DEF t, e, R, X
  <2>4. Still(Lines[R].fw)
    BY <2>2 DEF Token, FirstPrepare, SecondPrepare, ReceiverStart, Transmission, Stopping,
                Fetching, Standstill, Quiet, Asked, Answered
  <2>5. Still(Lines[X].fw) \/ (Transmission(t, e, Lines[R], Lines[X]) /\ Sending(Lines[X], e))
    BY <2>2 DEF Token, FirstPrepare, SecondPrepare, ReceiverStart, Transmission, Stopping,
                Fetching, Standstill, Quiet, Asked, Answered
  <2>7. CASE b = R
    BY <2>4, <2>6, <2>7 DEF Still
  <2>8. CASE b = X
    <3>1. fw[X].pc \in {"main", "plc", "rf"}
      BY <2>5, <2>6 DEF Still, Sending
    <3> QED
      BY <1>2, <2>1, <2>5, <2>6, <2>8, <3>1 DEF t, e, R, X
  <2> QED
    BY <2>1, <2>7, <2>8
<1> QED
  BY <1>1, <1>2 DEF Working

LEMMA BootStep ==
  ASSUME NInv, NEW b \in Board, FwBoot(b)
  PROVE  Good(tool, Lines)'
<1>0. /\ TInv /\ Good(tool, Lines) /\ fw[b].pc = "boot" /\ UNCHANGED <<tool, down, up>>
  BY DEF NInv, FwBoot, Boot
<1>1. fw[b].cal = "CALIBRATED" /\ fw[b].pending = NoTest
  BY <1>0, LineFacts DEF Good, FwSound
<1>2. StartUp(tool, Lines)
  BY <1>0, WorkingPc DEF Good
<1>3. ComingUp(tool, b, Lines[b])
  BY <1>2 DEF StartUp
<1>4. /\ spi[b] = <<>> /\ up[b] = <<>> /\ b \notin tool.up /\ tool.listed[b] = 0
      /\ down[b] = <<>> /\ fw[b].timers = 0
  BY <1>0, <1>3, LineFacts DEF ComingUp
<1>5. BootCal(fw[b]) = {"CALIBRATED"}
  BY <1>1 DEF BootCal
<1>6. fw' = [fw EXCEPT ![b].pc = "main", ![b].cal = "CALIBRATED"] /\ gvspi_send(b, DevUp)
  BY <1>1, <1>5 DEF FwBoot, Boot, DevUp
<1>7. spi'[b] = <<DevUp>> /\ \A c \in Board : c # b => spi'[c] = spi[c]
  BY <1>0, <1>4, <1>6, TypeFacts DEF gvspi_send
<1>8. fw'[b] = [fw[b] EXCEPT !.pc = "main", !.cal = "CALIBRATED"]
        /\ \A c \in Board : c # b => fw'[c] = fw[c]
  BY <1>0, <1>6, TypeFacts
<1>9. /\ fw'[b].pc = "main" /\ fw'[b].timers = 0 /\ fw'[b].cal = "CALIBRATED"
      /\ fw'[b].pending = fw[b].pending /\ fw'[b].stats = fw[b].stats
  BY <1>0, <1>4, <1>8, TypeFacts DEF IsFw, FwFields
<1>10. FwSound(Lines'[b].fw)
  BY <1>0, <1>1, <1>9, LineFacts DEF Good, FwSound
<1>11. \A c \in Board : c # b => Lines'[c] = Lines[c]
  BY <1>0, <1>7, <1>8 DEF Lines, Line
<1>12. \A c \in Board : FwSound(Lines'[c].fw)
  BY <1>0, <1>10, <1>11 DEF Good
<1>13. ComingUp(tool, b, Lines'[b])
  BY <1>0, <1>4, <1>7, <1>9, LineFacts DEF ComingUp
<1>14. StartUp(tool, Lines')
  BY <1>2, <1>11, <1>13, StartUpStep
<1>15. Good(tool, Lines')
  BY <1>0, <1>12, <1>14 DEF Good
<1> QED
  BY <1>0, <1>15

\* What gvspi_send leaves in the slave.
Offered(s, a) == IF s = <<>> THEN <<a>> ELSE s

LEMMA OfferedSpi ==
  ASSUME TInv, NEW b \in Board, NEW a, gvspi_send(b, a)
  PROVE  spi'[b] = Offered(spi[b], a) /\ \A c \in Board : c # b => spi'[c] = spi[c]
  BY TypeFacts DEF gvspi_send, Offered

LEMMA PrepareEffect ==
  ASSUME TInv, NEW b \in Board, NEW m \in Cmd, PrepareCmd(b, m),
         FwSound(fw[b]), Still(fw[b])
  PROVE  /\ \A c \in Board : c # b => fw'[c] = fw[c] /\ spi'[c] = spi[c]
         /\ FwSound(fw'[b]) /\ Still(fw'[b]) /\ m.cmd = "PREPARE"
         /\ \E y \in Replies : spi'[b] = Offered(spi[b], Frame("PREPARE_CNF", y))
         /\ m.test.intf = "PLC" => fw'[b].stats["PLC"] = NoStats
<1>0. /\ fw = [c \in Board |-> fw[c]] /\ IsFw(fw[b]) /\ fw[b].stats \in [Intf -> Stats]
      /\ fw[b].cal = "CALIBRATED" /\ m.cmd = "PREPARE"
  BY TypeFacts DEF FwOK, FwSound, PrepareCmd
<1>1. CASE m.test.intf = "PLC"
  <2>1. /\ fw' = [fw EXCEPT ![b].prep = m.test, ![b].ready = TRUE, ![b].stats["PLC"] = NoStats]
        /\ gvspi_send(b, Frame("PREPARE_CNF", "SUCCESS"))
    BY <1>1 DEF PrepareCmd
  <2> DEFINE st == [fw[b].stats EXCEPT !["PLC"] = NoStats]
  <2>2. /\ fw'[b] = [fw[b] EXCEPT !.prep = m.test, !.ready = TRUE, !.stats = st]
        /\ \A c \in Board : c # b => fw'[c] = fw[c]
    BY <1>0, <2>1
  <2>3. st["PLC"] = NoStats /\ st["RF"] = fw[b].stats["RF"]
    BY <1>0 DEF Intf
  <2> HIDE DEF st
  <2>4. /\ fw'[b].pc = fw[b].pc /\ fw'[b].timers = fw[b].timers /\ fw'[b].cal = fw[b].cal
        /\ fw'[b].pending = fw[b].pending /\ fw'[b].stats = st
    BY <1>0, <2>2 DEF IsFw, FwFields
  <2>5. FwSound(fw'[b]) /\ Still(fw'[b])
    BY <2>3, <2>4 DEF FwSound, Still, Intf, NoStats
  <2>6. /\ spi'[b] = Offered(spi[b], Frame("PREPARE_CNF", "SUCCESS"))
        /\ \A c \in Board : c # b => spi'[c] = spi[c]
    BY <2>1, OfferedSpi
  <2> QED
    BY <1>0, <2>2, <2>3, <2>4, <2>5, <2>6 DEF Replies
<1>2. CASE m.test.intf # "PLC"
  <2>1. /\ fw' = [fw EXCEPT ![b].prep = m.test, ![b].ready = TRUE]
        /\ \E y \in Replies : gvspi_send(b, Frame("PREPARE_CNF", y))
    BY <1>0, <1>2 DEF PrepareCmd, Replies
  <2>2. /\ fw'[b] = [fw[b] EXCEPT !.prep = m.test, !.ready = TRUE]
        /\ \A c \in Board : c # b => fw'[c] = fw[c]
    BY <1>0, <2>1
  <2>4. /\ fw'[b].pc = fw[b].pc /\ fw'[b].timers = fw[b].timers /\ fw'[b].cal = fw[b].cal
        /\ fw'[b].pending = fw[b].pending /\ fw'[b].stats = fw[b].stats
    BY <1>0, <2>2 DEF IsFw, FwFields
  <2>5. FwSound(fw'[b]) /\ Still(fw'[b])
    BY <2>4 DEF FwSound, Still
  <2>6. /\ \E y \in Replies : spi'[b] = Offered(spi[b], Frame("PREPARE_CNF", y))
        /\ \A c \in Board : c # b => spi'[c] = spi[c]
    BY <2>1, OfferedSpi
  <2> QED
    BY <1>0, <1>2, <2>2, <2>5, <2>6
<1> QED
  BY <1>1, <1>2

LEMMA StartEffect ==
  ASSUME TInv, NEW b \in Board, NEW m \in Cmd, StartCmd(b, m),
         FwSound(fw[b]), Still(fw[b])
  PROVE  /\ \A c \in Board : c # b => fw'[c] = fw[c] /\ spi'[c] = spi[c]
         /\ FwSound(fw'[b]) /\ m.cmd = "START"
         /\ b = Receiver(m.test) =>
              /\ Still(fw'[b])
              /\ \/ fw'[b] = fw[b] /\ spi'[b] = spi[b]
                 \/ /\ fw'[b] = fw[b]
                    /\ spi'[b] = Offered(spi[b], Frame("START_CNF", "INVALID_TEST"))
                 \/ /\ spi'[b] = Offered(spi[b], Frame("START_CNF", "SUCCESS"))
                    /\ fw'[b].started = m.ex /\ fw'[b].stats["PLC"] = fw[b].stats["PLC"]
                    /\ m.test.intf = "RF" => fw'[b].stats["RF"] = NoStats
         /\ b = Transmitter(m.test) =>
              /\ \/ spi'[b] = spi[b]
                 \/ \E y \in Replies : spi'[b] = Offered(spi[b], Frame("START_CNF", y))
              /\ \/ Still(fw'[b])
                 \/ fw'[b].pc = "plc" /\ fw'[b].timers = 0 /\ fw'[b].plcTx.ex = m.ex
                 \/ fw'[b].pc = "main" /\ fw'[b].timers = 1 /\ fw'[b].rfTx.ex = m.ex
<1>0. /\ fw = [c \in Board |-> fw[c]] /\ IsFw(fw[b]) /\ fw[b].stats \in [Intf -> Stats]
      /\ fw[b].pc = "main" /\ fw[b].timers = 0 /\ m.cmd = "START"
      /\ m.test.intf \in Intf
  <2>1. m.test \in Plain
    BY DEF Cmd, StartCmd
  <2> QED
    BY <2>1, TypeFacts, PlainFacts DEF FwOK, Still, StartCmd
<1>1. Receiver(m.test) # Transmitter(m.test)
  BY DEF Receiver, Transmitter, Other
<1> DEFINE tx == [left |-> FrameCount, ex |-> m.ex]
           st == [fw[b].stats EXCEPT !["RF"] = NoStats]
<1>2. st["RF"] = NoStats /\ st["PLC"] = fw[b].stats["PLC"]
  BY <1>0 DEF Intf
<1>3. tx.ex = m.ex
  OBVIOUS
<1>4. CASE UNCHANGED fw /\ (UNCHANGED spi \/ gvspi_send(b, Frame("START_CNF", "INVALID_TEST")))
  <2>1. /\ spi'[b] = spi[b] \/ spi'[b] = Offered(spi[b], Frame("START_CNF", "INVALID_TEST"))
        /\ \A c \in Board : c # b => spi'[c] = spi[c]
    BY <1>4, OfferedSpi
  <2> QED
    BY <1>0, <1>4, <2>1 DEF Replies
<1>5. CASE /\ b = Transmitter(m.test)
           /\ gvspi_send(b, Frame("START_CNF", "SUCCESS"))
           /\ fw' = [fw EXCEPT ![b].pc = "plc", ![b].plcTx = tx, ![b].started = m.ex]
  <2> HIDE DEF tx
  <2>1. /\ fw'[b] = [fw[b] EXCEPT !.pc = "plc", !.plcTx = tx, !.started = m.ex]
        /\ \A c \in Board : c # b => fw'[c] = fw[c]
    BY <1>0, <1>5
  <2>2. /\ fw'[b].pc = "plc" /\ fw'[b].timers = 0 /\ fw'[b].cal = fw[b].cal
        /\ fw'[b].pending = fw[b].pending /\ fw'[b].stats = fw[b].stats /\ fw'[b].plcTx = tx
    BY <1>0, <2>1 DEF IsFw, FwFields
  <2>3. FwSound(fw'[b])
    BY <2>2 DEF FwSound
  <2>4. /\ spi'[b] = Offered(spi[b], Frame("START_CNF", "SUCCESS"))
        /\ \A c \in Board : c # b => spi'[c] = spi[c]
    BY <1>5, OfferedSpi
  <2> QED
    BY <1>0, <1>1, <1>3, <1>5, <2>1, <2>2, <2>3, <2>4 DEF Replies
<1>6. CASE /\ b = Transmitter(m.test)
           /\ gvspi_send(b, Frame("START_CNF", "SUCCESS"))
           /\ fw' = [fw EXCEPT ![b].stats["RF"] = NoStats, ![b].rfTx = tx,
                               ![b].timers = @ + 1, ![b].started = m.ex]
  <2> HIDE DEF tx
  <2>1. /\ fw'[b] = [fw[b] EXCEPT !.stats = st, !.rfTx = tx, !.timers = @ + 1, !.started = m.ex]
        /\ \A c \in Board : c # b => fw'[c] = fw[c]
    BY <1>0, <1>6
  <2> HIDE DEF st
  <2>2. /\ fw'[b].pc = "main" /\ fw'[b].timers = 1 /\ fw'[b].cal = fw[b].cal
        /\ fw'[b].pending = fw[b].pending /\ fw'[b].stats = st /\ fw'[b].rfTx = tx
    BY <1>0, <2>1 DEF IsFw, FwFields
  <2>3. FwSound(fw'[b])
    BY <1>2, <2>2 DEF FwSound, Intf, NoStats
  <2>4. /\ spi'[b] = Offered(spi[b], Frame("START_CNF", "SUCCESS"))
        /\ \A c \in Board : c # b => spi'[c] = spi[c]
    BY <1>6, OfferedSpi
  <2> QED
    BY <1>0, <1>1, <1>3, <1>6, <2>1, <2>2, <2>3, <2>4 DEF Replies
<1>7. CASE /\ b = Receiver(m.test)
           /\ gvspi_send(b, Frame("START_CNF", "SUCCESS"))
           /\ fw' = [fw EXCEPT ![b].started = m.ex,
                               ![b].stats["RF"] = IF m.test.intf = "RF" THEN NoStats ELSE @]
  <2> DEFINE su == IF m.test.intf = "RF" THEN st ELSE fw[b].stats
  <2>1. /\ fw'[b] = [fw[b] EXCEPT !.started = m.ex,
                        !.stats["RF"] = IF m.test.intf = "RF" THEN NoStats ELSE @]
        /\ \A c \in Board : c # b => fw'[c] = fw[c]
    BY <1>0, <1>7
  <2>2. /\ fw'[b].pc = "main" /\ fw'[b].timers = 0 /\ fw'[b].cal = fw[b].cal
        /\ fw'[b].pending = fw[b].pending /\ fw'[b].started = m.ex
        /\ fw'[b].stats = [fw[b].stats EXCEPT !["RF"] =
                             IF m.test.intf = "RF" THEN NoStats ELSE @]
    BY <1>0, <2>1 DEF IsFw, FwFields
  <2>3. fw'[b].stats["PLC"] = fw[b].stats["PLC"]
           /\ fw'[b].stats["RF"] = IF m.test.intf = "RF" THEN NoStats ELSE fw[b].stats["RF"]
    BY <1>0, <2>2 DEF Intf
  <2>4. FwSound(fw'[b]) /\ Still(fw'[b])
    BY <2>2, <2>3 DEF FwSound, Intf, NoStats, Still
  <2>5. /\ spi'[b] = Offered(spi[b], Frame("START_CNF", "SUCCESS"))
        /\ \A c \in Board : c # b => spi'[c] = spi[c]
    BY <1>7, OfferedSpi
  <2> QED
    BY <1>0, <1>1, <1>7, <2>1, <2>2, <2>3, <2>4, <2>5
<1> QED
  BY <1>4, <1>5, <1>6, <1>7 DEF StartCmd, fwVars

LEMMA OtherEffect ==
  ASSUME TInv, NEW b \in Board, NEW m \in Cmd,
         StopCmd(b, m) \/ GetResultCmd(b, m) \/ FlashParamCmd(b, m)
  PROVE  /\ UNCHANGED fw /\ \A c \in Board : c # b => spi'[c] = spi[c]
         /\ m.cmd \in {"STOP", "GET_RESULT", "FLASH_PARAM"}
         /\ m.cmd = "STOP" => spi'[b] = Offered(spi[b], Frame("STOP_CNF", "SUCCESS"))
         /\ m.cmd = "GET_RESULT" =>
              spi'[b] = spi[b] \/ spi'[b] = Offered(spi[b], ResultFrame(fw[b], m.test.intf))
         /\ m.cmd = "FLASH_PARAM" =>
              spi'[b] = Offered(spi[b], Frame("FLASH_PARAM_CNF", "SUCCESS"))
<1>1. CASE StopCmd(b, m)
  BY <1>1, OfferedSpi DEF StopCmd
<1>2. CASE GetResultCmd(b, m)
  <2>1. m.cmd = "GET_RESULT" /\ UNCHANGED fw
    BY <1>2 DEF GetResultCmd
  <2>2. UNCHANGED spi \/ gvspi_send(b, ResultFrame(fw[b], m.test.intf))
    BY <1>2 DEF GetResultCmd, ResultFrame
  <2> QED
    BY <2>1, <2>2, OfferedSpi
<1>3. CASE FlashParamCmd(b, m)
  BY <1>3, OfferedSpi DEF FlashParamCmd
<1> QED
  BY <1>1, <1>2, <1>3

\* The board takes the command of a test: it is the one that was asked.
LEMMA TakeLine ==
  ASSUME NEW l, NEW m, NEW n, IsRest(m.down, l.down, n),
         Head(l.down).cmd \notin FlashCmds, m.up = l.up
  PROVE  /\ ~Quiet(l) /\ (\A a, N : ~Answered(l, a, N)) /\ (\A e : ~Sending(l, e))
         /\ \A c : Asked(l, c) =>
              /\ Head(l.down) = c /\ FlashOnly(m.down) /\ NoFlash(m.down)
              /\ \A a : Still(m.fw) /\ m.spi = Offered(l.spi, a) =>
                          Answered(m, a, FlashCnf) \/ Quiet(m)
              /\ Still(m.fw) /\ m.spi = l.spi => Quiet(m)
              /\ Ids(m.up, TxCnf) /\ Ids(l.spi, TxCnf)
<1>1. ~FlashOnly(l.down)
  BY IsRestIds
<1>2. ASSUME NEW c, Asked(l, c)
      PROVE  /\ Head(l.down) = c /\ FlashOnly(m.down) /\ NoFlash(m.down)
             /\ \A a : Still(m.fw) /\ m.spi = Offered(l.spi, a) =>
                         Answered(m, a, FlashCnf) \/ Quiet(m)
             /\ Still(m.fw) /\ m.spi = l.spi => Quiet(m)
             /\ Ids(m.up, TxCnf) /\ Ids(l.spi, TxCnf)
  <2>1. HasCmd(l.down, c) /\ Ids(l.spi, FlashCnf) /\ Ids(m.up, FlashCnf)
    BY <1>2 DEF Asked
  <2>2. Head(l.down) = c /\ FlashOnly(m.down) /\ NoFlash(m.down)
    BY <2>1, CmdRest
  <2>3. ASSUME NEW a, Still(m.fw), m.spi = Offered(l.spi, a)
        PROVE  Answered(m, a, FlashCnf) \/ Quiet(m)
    <3>1. m.spi = <<a>> \/ m.spi = l.spi
      BY <2>3 DEF Offered
    <3> QED
      BY <2>1, <2>2, <2>3, <3>1 DEF Answered, Quiet
  <2>4. ASSUME Still(m.fw), m.spi = l.spi PROVE Quiet(m)
    BY <2>1, <2>2, <2>4 DEF Quiet
  <2>5. Ids(m.up, TxCnf) /\ Ids(l.spi, TxCnf)
    BY <2>1, IdsMore
  <2> QED
    BY <2>2, <2>3, <2>4, <2>5
<1> QED
  BY <1>1, <1>2 DEF Quiet, Answered, Sending

LEMMA OfferedIds ==
  ASSUME NEW s, Ids(s, TxCnf), NEW y
  PROVE  Ids(Offered(s, Frame("START_CNF", y)), TxCnf)
<1>1. Ids(<<Frame("START_CNF", y)>>, TxCnf)
  BY DEF Ids, Frame, TxCnf
<1> QED
  BY <1>1 DEF Offered

LEMMA HeadFacts ==
  ASSUME TInv, tool.q # <<>>
  PROVE  LET s == Head(tool.q)
             t == PlainOf(s)
         IN  /\ s \in Test /\ t \in Plain /\ t \in Test /\ t.intf = s.intf /\ t.intf \in Intf
             /\ Receiver(t) = Receiver(s) /\ Transmitter(t) = Transmitter(s)
             /\ Receiver(s) \in Board /\ Transmitter(s) \in Board
             /\ Receiver(s) # Transmitter(s) /\ Board = {Receiver(s), Transmitter(s)}
             /\ Other(Receiver(s)) = Transmitter(s) /\ Other(Transmitter(s)) = Receiver(s)
<1> DEFINE s == Head(tool.q)
           t == PlainOf(s)
<1>1. s \in Test
  BY HeadTest, TypeFacts
<1> HIDE DEF s
<1>2. t \in Plain /\ t \in Test /\ t.intf \in Intf
  BY <1>1, PlainFacts
<1>3. t.intf = s.intf /\ t.dir = s.dir
  BY <1>1 DEF PlainOf, Test
<1> HIDE DEF t
<1>4. Receiver(t) = Receiver(s) /\ Transmitter(t) = Transmitter(s)
  BY <1>3 DEF Receiver, Transmitter
<1>5. /\ Receiver(s) \in Board /\ Transmitter(s) \in Board
      /\ Receiver(s) # Transmitter(s) /\ Board = {Receiver(s), Transmitter(s)}
      /\ Other(Receiver(s)) = Transmitter(s) /\ Other(Transmitter(s)) = Receiver(s)
  BY DEF Receiver, Transmitter, Other, Board
<1> QED
  BY <1>1, <1>2, <1>3, <1>4, <1>5 DEF s, t

LEMMA RequestToken ==
  ASSUME TInv, NEW b \in Board, NEW n, NEW t \in Plain, NEW e,
         NEW R, NEW X, R = Receiver(t), X = Transmitter(t), R # X, R \in Board, X \in Board,
         b = R \/ b = X, prodTestExecCmd(b, Head(down[b])), Head(down[b]) \in Cmd,
         Head(down[b]).cmd \notin FlashCmds,
         IsRest(down'[b], down[b], n), \A c \in Board : c # b => down'[c] = down[c],
         up' = up, \A c \in Board : FwSound(fw[c]),
         Token(t, e, Lines[R], Lines[X])
  PROVE  /\ Token(t, e, Lines'[R], Lines'[X])
         /\ \A c \in Board : FwSound(fw'[c])
         /\ NoFlash(down'[b])
<1> DEFINE m == Head(down[b])
           l == Lines[b]
           l2 == Lines'[b]
<1>1. /\ l.down = down[b] /\ l.spi = spi[b] /\ l.up = up[b] /\ l.fw = fw[b]
      /\ l2.down = down'[b] /\ l2.spi = spi'[b] /\ l2.up = up'[b] /\ l2.fw = fw'[b]
  BY LineFacts
<1>2. ASSUME \A c \in Board : c # b => fw'[c] = fw[c] /\ spi'[c] = spi[c]
      PROVE  \A c \in Board : c # b => Lines'[c] = Lines[c]
  BY <1>2 DEF Lines, Line
<1> HIDE DEF m, l, l2
<1>3. /\ ~Quiet(l) /\ (\A a, N : ~Answered(l, a, N)) /\ (\A a : ~Sending(l, a))
      /\ \A c : Asked(l, c) =>
           /\ m = c /\ FlashOnly(l2.down) /\ NoFlash(l2.down)
           /\ \A a : Still(l2.fw) /\ l2.spi = Offered(l.spi, a) =>
                       Answered(l2, a, FlashCnf) \/ Quiet(l2)
           /\ Still(l2.fw) /\ l2.spi = l.spi => Quiet(l2)
           /\ Ids(l2.up, TxCnf) /\ Ids(l.spi, TxCnf)
  BY <1>1, TakeLine DEF m
<1>4. m \in Cmd /\ m.cmd \notin FlashCmds /\ prodTestExecCmd(b, m)
  BY DEF m
<1>5. FwSound(fw[b])
  OBVIOUS
<1>6. CASE b = R
  <2>1. Lines[R] = l /\ Lines'[R] = l2
    BY <1>6 DEF l, l2
  <2>2. CASE FirstPrepare(t, e, l, Lines[X])
    <3>1. Asked(l, Command("PREPARE", t, e)) /\ Quiet(Lines[X])
      BY <1>3, <2>2 DEF FirstPrepare
    <3>2. m = Command("PREPARE", t, e) /\ NoFlash(l2.down) /\ Still(fw[b])
      BY <1>1, <1>3, <3>1 DEF Asked
    <3>3. m.cmd = "PREPARE" /\ m.test = t
      BY <3>2 DEF Command
    <3>4. PrepareCmd(b, m)
      BY <1>4, <3>3 DEF prodTestExecCmd, StartCmd, StopCmd, GetResultCmd, DevSearchCmd, FlashParamCmd
    <3>5. /\ \A c \in Board : c # b => fw'[c] = fw[c] /\ spi'[c] = spi[c]
          /\ FwSound(fw'[b]) /\ Still(fw'[b])
          /\ \E y \in Replies : spi'[b] = Offered(spi[b], Frame("PREPARE_CNF", y))
          /\ m.test.intf = "PLC" => fw'[b].stats["PLC"] = NoStats
      BY <1>4, <1>5, <3>2, <3>4, PrepareEffect
    <3>6. (\E y \in Replies : Answered(l2, Frame("PREPARE_CNF", y), FlashCnf)) \/ Quiet(l2)
      BY <1>1, <1>3, <3>1, <3>5
    <3>7. PlcOwn(l2.fw, t.intf, e) /\ Flushed(R, l2)
      BY <1>1, <3>2, <3>3, <3>5 DEF PlcOwn, Own, NoStats, Flushed
    <3>8. Lines'[X] = Lines[X]
      BY <1>2, <1>6, <3>5
    <3>9. FirstPrepare(t, e, l2, Lines[X]) \/ Standstill(l2, Lines[X])
      BY <3>1, <3>6, <3>7 DEF FirstPrepare, Standstill
    <3>10. Token(t, e, l2, Lines[X])
      BY <3>9 DEF Token
    <3> QED
      BY <1>1, <2>1, <3>2, <3>5, <3>8, <3>10
  <2>3. CASE ReceiverStart(t, e, l, Lines[X])
    <3>1. Asked(l, Command("START", t, e)) /\ Quiet(Lines[X]) /\ PlcOwn(l.fw, t.intf, e)
             /\ BothFlushed(t, l, Lines[X])
      BY <1>3, <2>3 DEF ReceiverStart
    <3>2. m = Command("START", t, e) /\ NoFlash(l2.down) /\ Still(fw[b])
      BY <1>1, <1>3, <3>1 DEF Asked
    <3>3. m.cmd = "START" /\ m.test = t /\ m.ex = e
      BY <3>2 DEF Command
    <3>4. StartCmd(b, m)
      BY <1>4, <3>3 DEF prodTestExecCmd, PrepareCmd, StopCmd, GetResultCmd, DevSearchCmd, FlashParamCmd
    <3>5. /\ \A c \in Board : c # b => fw'[c] = fw[c] /\ spi'[c] = spi[c]
          /\ FwSound(fw'[b]) /\ Still(fw'[b])
          /\ \/ fw'[b] = fw[b] /\ spi'[b] = spi[b]
             \/ /\ fw'[b] = fw[b]
                /\ spi'[b] = Offered(spi[b], Frame("START_CNF", "INVALID_TEST"))
             \/ /\ spi'[b] = Offered(spi[b], Frame("START_CNF", "SUCCESS"))
                /\ fw'[b].started = m.ex /\ fw'[b].stats["PLC"] = fw[b].stats["PLC"]
                /\ m.test.intf = "RF" => fw'[b].stats["RF"] = NoStats
      BY <1>4, <1>5, <1>6, <3>2, <3>3, <3>4, StartEffect
    <3>6. t.intf = "PLC" \/ t.intf = "RF"
      BY PlainFacts DEF Intf
    <3>7. PlcOwn(l2.fw, t.intf, e)
      BY <1>1, <3>1, <3>5 DEF PlcOwn, Own
    <3>11. \/ Quiet(l2)
           \/ Answered(l2, Frame("START_CNF", "INVALID_TEST"), FlashCnf)
           \/ Answered(l2, Frame("START_CNF", "SUCCESS"), FlashCnf) /\ Started(l2.fw, t.intf, e)
      <4>1. Quiet(l2) \/ spi'[b] # spi[b]
        BY <1>1, <1>3, <3>1, <3>5
      <4>2. spi'[b] = Offered(spi[b], Frame("START_CNF", "INVALID_TEST")) =>
              Quiet(l2) \/ Answered(l2, Frame("START_CNF", "INVALID_TEST"), FlashCnf)
        BY <1>1, <1>3, <3>1, <3>5
      <4>3. /\ spi'[b] = Offered(spi[b], Frame("START_CNF", "SUCCESS"))
            /\ fw'[b].started = m.ex /\ fw'[b].stats["PLC"] = fw[b].stats["PLC"]
            /\ m.test.intf = "RF" => fw'[b].stats["RF"] = NoStats
            => /\ Quiet(l2) \/ Answered(l2, Frame("START_CNF", "SUCCESS"), FlashCnf)
               /\ Started(l2.fw, t.intf, e)
        <5>1. ASSUME fw'[b].started = m.ex, fw'[b].stats["PLC"] = fw[b].stats["PLC"],
                     m.test.intf = "RF" => fw'[b].stats["RF"] = NoStats
              PROVE  Started(l2.fw, t.intf, e)
          <6>1. Own(l2.fw, t.intf, e)
            BY <1>1, <3>1, <3>3, <3>6, <5>1 DEF PlcOwn, Own, NoStats
          <6> QED
            BY <1>1, <3>3, <5>1, <6>1 DEF Started
        <5>2. spi'[b] = Offered(spi[b], Frame("START_CNF", "SUCCESS")) =>
                Quiet(l2) \/ Answered(l2, Frame("START_CNF", "SUCCESS"), FlashCnf)
          BY <1>1, <1>3, <3>1, <3>5
        <5> QED
          BY <5>1, <5>2
      <4> QED
        BY <3>5, <4>1, <4>2, <4>3, Zenon
    <3>12. Lines'[X] = Lines[X]
      BY <1>2, <1>6, <3>5
    <3>13. BothFlushed(t, l2, Lines[X])
      BY <3>1, <3>2 DEF BothFlushed, Flushed
    <3>14. ReceiverStart(t, e, l2, Lines[X]) \/ Standstill(l2, Lines[X])
      BY <3>1, <3>7, <3>11, <3>13 DEF ReceiverStart, Standstill, Replies
    <3>15. Token(t, e, l2, Lines[X])
      BY <3>14 DEF Token
    <3> QED
      BY <1>1, <2>1, <3>2, <3>5, <3>12, <3>15
  <2>4. CASE Stopping(t, e, l, Lines[X]) \/ Fetching(t, e, l, Lines[X])
    <3>1. /\ Quiet(Lines[X]) /\ Own(l.fw, t.intf, e) /\ BothFlushed(t, l, Lines[X])
          /\ \/ Stopping(t, e, l, Lines[X]) /\ Asked(l, Command("STOP", t, e))
             \/ Fetching(t, e, l, Lines[X]) /\ Asked(l, Command("GET_RESULT", t, e))
      BY <1>3, <2>4 DEF Stopping, Fetching
    <3>2. PICK op \in {"STOP", "GET_RESULT"} :
            Asked(l, Command(op, t, e)) /\ m = Command(op, t, e) /\ NoFlash(l2.down) /\ Still(fw[b])
      BY <1>1, <1>3, <3>1 DEF Asked
    <3>3. m.cmd = op /\ m.test = t
      BY <3>2 DEF Command
    <3>4. StopCmd(b, m) \/ GetResultCmd(b, m)
      BY <1>4, <3>3 DEF prodTestExecCmd, PrepareCmd, StartCmd, DevSearchCmd, FlashParamCmd
    <3>5. /\ UNCHANGED fw /\ \A c \in Board : c # b => spi'[c] = spi[c]
          /\ m.cmd = "STOP" => spi'[b] = Offered(spi[b], Frame("STOP_CNF", "SUCCESS"))
          /\ m.cmd = "GET_RESULT" =>
               spi'[b] = spi[b] \/ spi'[b] = Offered(spi[b], ResultFrame(fw[b], m.test.intf))
      BY <1>4, <3>4, OtherEffect
    <3>6. l2.fw = l.fw /\ Still(l2.fw)
      BY <1>1, <3>2, <3>5
    <3>7. \A c \in Board : c # b => fw'[c] = fw[c] /\ spi'[c] = spi[c]
      BY <3>5
    <3>8. Lines'[X] = Lines[X]
      BY <1>2, <1>6, <3>7
    <3>9. BothFlushed(t, l2, Lines[X]) /\ Own(l2.fw, t.intf, e)
      BY <3>1, <3>2, <3>6 DEF BothFlushed, Flushed
    <3>10. ASSUME op = "STOP" PROVE Token(t, e, l2, Lines[X])
      <4>1. Answered(l2, Frame("STOP_CNF", "SUCCESS"), FlashCnf) \/ Quiet(l2)
        BY <1>1, <1>3, <3>2, <3>3, <3>5, <3>6, <3>10
      <4>2. Stopping(t, e, l2, Lines[X]) \/ Standstill(l2, Lines[X])
        BY <3>1, <3>9, <4>1 DEF Stopping, Standstill
      <4> QED
        BY <4>2 DEF Token
    <3>11. ASSUME op = "GET_RESULT" PROVE Token(t, e, l2, Lines[X])
      <4>1. spi'[b] = spi[b] \/ spi'[b] = Offered(spi[b], ResultFrame(l2.fw, t.intf))
        BY <1>1, <3>3, <3>5, <3>6, <3>11
      <4>2. Answered(l2, ResultFrame(l2.fw, t.intf), FlashCnf) \/ Quiet(l2)
        BY <1>1, <1>3, <3>2, <3>6, <4>1
      <4>3. Fetching(t, e, l2, Lines[X]) \/ Standstill(l2, Lines[X])
        BY <3>1, <3>9, <4>2 DEF Fetching, Standstill
      <4> QED
        BY <4>3 DEF Token
    <3>12. Token(t, e, l2, Lines[X])
      BY <3>10, <3>11
    <3>13. \A c \in Board : FwSound(fw'[c])
      BY <3>5
    <3> QED
      BY <1>1, <2>1, <3>2, <3>8, <3>12, <3>13
  <2>5. ~SecondPrepare(t, e, l, Lines[X]) /\ ~Transmission(t, e, l, Lines[X]) /\ ~Standstill(l, Lines[X])
    BY <1>3 DEF SecondPrepare, Transmission, Standstill
  <2>6. Token(t, e, l, Lines[X])
    BY <2>1
  <2> QED
    BY <2>2, <2>3, <2>4, <2>5, <2>6 DEF Token
<1>7. CASE b = X
  <2>1. Lines[X] = l /\ Lines'[X] = l2
    BY <1>7 DEF l, l2
  <2>2. CASE SecondPrepare(t, e, Lines[R], l)
    <3>1. /\ Asked(l, Command("PREPARE", t, e)) /\ Quiet(Lines[R])
          /\ PlcOwn(Lines[R].fw, t.intf, e) /\ Flushed(R, Lines[R])
      BY <1>3, <2>2 DEF SecondPrepare
    <3>2. m = Command("PREPARE", t, e) /\ NoFlash(l2.down) /\ Still(fw[b])
      BY <1>1, <1>3, <3>1 DEF Asked
    <3>3. m.cmd = "PREPARE" /\ m.test = t
      BY <3>2 DEF Command
    <3>4. PrepareCmd(b, m)
      BY <1>4, <3>3 DEF prodTestExecCmd, StartCmd, StopCmd, GetResultCmd, DevSearchCmd, FlashParamCmd
    <3>5. /\ \A c \in Board : c # b => fw'[c] = fw[c] /\ spi'[c] = spi[c]
          /\ FwSound(fw'[b]) /\ Still(fw'[b])
          /\ \E y \in Replies : spi'[b] = Offered(spi[b], Frame("PREPARE_CNF", y))
      BY <1>4, <1>5, <3>2, <3>4, PrepareEffect
    <3>6. (\E y \in Replies : Answered(l2, Frame("PREPARE_CNF", y), FlashCnf)) \/ Quiet(l2)
      BY <1>1, <1>3, <3>1, <3>5
    <3>7. Flushed(X, l2)
      BY <3>2 DEF Flushed
    <3>8. Lines'[R] = Lines[R]
      BY <1>2, <1>7, <3>5
    <3>9. SecondPrepare(t, e, Lines[R], l2) \/ Standstill(Lines[R], l2)
      BY <3>1, <3>6, <3>7 DEF SecondPrepare, Standstill
    <3>10. Token(t, e, Lines[R], l2)
      BY <3>9 DEF Token
    <3> QED
      BY <1>1, <2>1, <3>2, <3>5, <3>8, <3>10
  <2>3. CASE Transmission(t, e, Lines[R], l)
    <3>1. Asked(l, Command("START", t, e)) /\ Quiet(Lines[R]) /\ Started(Lines[R].fw, t.intf, e)
             /\ BothFlushed(t, Lines[R], l)
      BY <1>3, <2>3 DEF Transmission
    <3>2. m = Command("START", t, e) /\ NoFlash(l2.down) /\ FlashOnly(l2.down) /\ Still(fw[b])
      BY <1>1, <1>3, <3>1 DEF Asked
    <3>3. m.cmd = "START" /\ m.test = t /\ m.ex = e
      BY <3>2 DEF Command
    <3>4. StartCmd(b, m)
      BY <1>4, <3>3 DEF prodTestExecCmd, PrepareCmd, StopCmd, GetResultCmd, DevSearchCmd, FlashParamCmd
    <3>5. /\ \A c \in Board : c # b => fw'[c] = fw[c] /\ spi'[c] = spi[c]
          /\ FwSound(fw'[b])
          /\ \/ spi'[b] = spi[b]
             \/ \E y \in Replies : spi'[b] = Offered(spi[b], Frame("START_CNF", y))
          /\ \/ Still(fw'[b])
             \/ fw'[b].pc = "plc" /\ fw'[b].timers = 0 /\ fw'[b].plcTx.ex = e
             \/ fw'[b].pc = "main" /\ fw'[b].timers = 1 /\ fw'[b].rfTx.ex = e
      BY <1>4, <1>5, <1>7, <3>2, <3>3, <3>4, StartEffect
    <3>6. Ids(l2.up, TxCnf) /\ Ids(l2.spi, TxCnf)
      BY <1>1, <1>3, <3>1, <3>5, OfferedIds
    <3>7. Sending(l2, e)
      BY <1>1, <3>2, <3>5, <3>6 DEF Sending
    <3>8. Lines'[R] = Lines[R]
      BY <1>2, <1>7, <3>5
    <3>9. BothFlushed(t, Lines[R], l2)
      BY <3>1, <3>2 DEF BothFlushed, Flushed
    <3>10. Transmission(t, e, Lines[R], l2)
      BY <3>1, <3>7, <3>9 DEF Transmission
    <3>11. Token(t, e, Lines[R], l2)
      BY <3>10 DEF Token
    <3> QED
      BY <1>1, <2>1, <3>2, <3>5, <3>8, <3>11
  <2>4. /\ ~FirstPrepare(t, e, Lines[R], l) /\ ~ReceiverStart(t, e, Lines[R], l)
        /\ ~Stopping(t, e, Lines[R], l) /\ ~Fetching(t, e, Lines[R], l) /\ ~Standstill(Lines[R], l)
    BY <1>3 DEF FirstPrepare, ReceiverStart, Stopping, Fetching, Standstill
  <2>5. Token(t, e, Lines[R], l)
    BY <2>1
  <2> QED
    BY <2>2, <2>3, <2>4, <2>5 DEF Token
<1> QED
  BY <1>6, <1>7

LEMMA RequestStep ==
  ASSUME NInv, NEW b \in Board, RelayRequest(b)
  PROVE  Good(tool, Lines)'
<1> DEFINE m == Head(down[b])
<1>0. /\ TInv /\ Good(tool, Lines) /\ down[b] # <<>> /\ UNCHANGED <<tool, up>>
      /\ (m.cmd = "SPI_DISCONNECT" /\ UNCHANGED <<fw, spi>>) \/ prodTestExecCmd(b, m)
      /\ \A c \in Board : FwSound(fw[c])
  BY LineFacts DEF NInv, RelayRequest, fwVars, Good
<1>1. PICK n \in 1 .. ReadMax : /\ n <= Len(down[b])
                                /\ down' = [down EXCEPT ![b] = SubSeq(@, n + 1, Len(@))]
  BY DEF RelayRequest
<1>2. n \in Nat \ {0} /\ down[b] \in Seq(Cmd) /\ m \in Cmd
  <2>1. down[b] \in Seq(Cmd)
    BY <1>0, TypeFacts
  <2> QED
    BY <1>0, <2>1, HeadTailProperties, ToolAssumption
<1>3. /\ down'[b] = SubSeq(down[b], n + 1, Len(down[b]))
      /\ \A c \in Board : c # b => down'[c] = down[c]
  BY <1>0, <1>1, TypeFacts
<1>4. IsRest(down'[b], down[b], n)
  BY <1>1, <1>2, <1>3, RestOf
<1> HIDE DEF m
<1>5. Working(tool, Lines)
  BY <1>0, LineFacts DEF Good, StartUp, ComingUp
<1>6. CASE m.cmd \in FlashCmds
  <2>1. /\ UNCHANGED fw /\ \A c \in Board : c # b => spi'[c] = spi[c]
        /\ \/ spi'[b] = spi[b]
           \/ spi[b] = <<>> /\ spi'[b] = <<Frame("FLASH_PARAM_CNF", "SUCCESS")>>
    <3>1. CASE UNCHANGED <<fw, spi>>
      BY <3>1
    <3>2. CASE prodTestExecCmd(b, m)
      <4>1. FlashParamCmd(b, m)
        BY <1>6, <3>2 DEF prodTestExecCmd, PrepareCmd, StartCmd, StopCmd, GetResultCmd,
                          DevSearchCmd, FlashCmds
      <4>2. m.cmd = "FLASH_PARAM"
        BY <4>1 DEF FlashParamCmd
      <4> QED
        BY <1>0, <1>2, <4>1, <4>2, OtherEffect DEF Offered
    <3> QED
      BY <1>0, <3>1, <3>2
  <2>2. ASSUME NEW c \in Board PROVE Benign(Lines[c], Lines'[c])
    <3>1. CASE c = b
      BY <1>0, <1>4, <2>1, <3>1, LineFacts, FlashLine
    <3>2. CASE c # b
      BY <1>0, <1>3, <2>1, <3>2, LineFacts, BenignSame
    <3> QED
      BY <3>1, <3>2
  <2>3. Working(tool, Lines')
    BY <1>5, <2>2, WorkingBenign
  <2>4. \A c \in Board : FwSound(Lines'[c].fw)
    BY <1>0, <2>1, LineFacts
  <2>5. Good(tool, Lines')
    BY <1>0, <2>3, <2>4 DEF Good
  <2> QED
    BY <1>0, <2>5
<1>7. CASE m.cmd \notin FlashCmds
  <2>1. prodTestExecCmd(b, m)
    BY <1>0, <1>7 DEF FlashCmds
  <2>2. ~Quiet(Lines[b])
    BY <1>4, <1>7, LineFacts, IsRestIds DEF Quiet, m
  <2>3. UnderWay(tool, Lines)
    BY <1>5, <2>2 DEF Working, Idling
  <2> DEFINE t == PlainOf(Head(tool.q))
             e == Execution(tool)
             R == Receiver(Head(tool.q))
             X == Transmitter(Head(tool.q))
  <2>4. tool.q # <<>> /\ Token(t, e, Lines[R], Lines[X])
    BY <2>3 DEF UnderWay
  <2>5. /\ t \in Plain /\ R = Receiver(t) /\ X = Transmitter(t) /\ R # X
        /\ R \in Board /\ X \in Board /\ (b = R \/ b = X)
    BY <1>0, <2>4, HeadFacts
  <2> HIDE DEF t, e, R, X
  <2>6. /\ Token(t, e, Lines'[R], Lines'[X]) /\ \A c \in Board : FwSound(fw'[c])
        /\ NoFlash(down'[b])
    BY <1>0, <1>2, <1>3, <1>4, <1>7, <2>1, <2>4, <2>5, RequestToken DEF m
  <2>7. UnderWay(tool, Lines')
    BY <2>3, <2>6 DEF UnderWay, t, e, R, X
  <2>8. NoFlash(Lines'["REF"].down)
    <3>1. "REF" \in Board
      BY DEF Board
    <3>2. NoFlash(down["REF"])
      BY <1>5, <3>1, LineFacts DEF Working
    <3>3. NoFlash(down'["REF"])
      BY <1>3, <2>6, <3>1, <3>2
    <3> QED
      BY <3>1, <3>3, LineFacts
  <2>9. Working(tool, Lines')
    BY <1>5, <2>7, <2>8 DEF Working
  <2>10. Good(tool, Lines')
    BY <1>0, <2>6, <2>9, LineFacts DEF Good
  <2> QED
    BY <1>0, <2>10
<1> QED
  BY <1>6, <1>7

LEMMA ConnectFailsStep ==
  ASSUME NInv, NEW b \in Board, RelayConnectFails(b)
  PROVE  FALSE
<1>1. down[b] # <<>> /\ fw[b].pc = "boot" /\ Good(tool, Lines)
  BY DEF NInv, RelayConnectFails
<1>2. ~Working(tool, Lines)
  BY <1>1, WorkingPc
<1> QED
  BY <1>1, <1>2, LineFacts DEF Good, StartUp, ComingUp

-----------------------------------------------------------------------------
(***************************************************************************)
(* Transmission.                                                           *)
(***************************************************************************)
LEMMA HeardEffect ==
  ASSUME NEW f, f = [c \in Board |-> f[c]], \A c \in Board : IsFw(f[c]),
         NEW b \in Board, NEW i \in Intf, NEW e, NEW got \in BOOLEAN,
         \A c \in Board : f[c].stats \in [Intf -> Stats],
         \A c \in Board : FwSound(f[c])
  PROVE  LET g == Heard(f, b, i, e, got)
             r == Other(b)
         IN  /\ g[b] = f[b] /\ FwSound(g[r])
             /\ g[r].pc = f[r].pc /\ g[r].timers = f[r].timers /\ g[r].started = f[r].started
             /\ \A j \in Intf : Own(f[r], j, e) => Own(g[r], j, e)
<1> DEFINE r == Other(b)
           s == [n |-> f[r].stats[i].n + 1, from |-> f[r].stats[i].from \cup {e}]
           st == [f[r].stats EXCEPT ![i] = s]
           g == [f EXCEPT ![r].stats = st]
<1>1. r \in Board /\ r # b
  BY BoardFacts DEF Other
<1>2. Heard(f, b, i, e, got) = g \/ Heard(f, b, i, e, got) = f
  BY <1>1 DEF Heard
<1>3. /\ \A j \in Intf : j # i => st[j] = f[r].stats[j]
      /\ st[i] = s
  BY <1>1
<1> HIDE DEF st, r
<1>4. g[b] = f[b] /\ g[r] = [f[r] EXCEPT !.stats = st]
  BY <1>1
<1> HIDE DEF g
<1>5. /\ g[r].pc = f[r].pc /\ g[r].timers = f[r].timers /\ g[r].started = f[r].started
      /\ g[r].stats = st /\ g[r].cal = f[r].cal /\ g[r].pending = f[r].pending
  BY <1>1, <1>4 DEF IsFw, FwFields
<1>6. FwSound(g[r])
  <2>1. s.from # {}
    OBVIOUS
  <2> QED
    BY <1>1, <1>3, <1>5, <2>1 DEF FwSound
<1>7. ASSUME NEW j \in Intf, Own(f[r], j, e) PROVE Own(g[r], j, e)
  BY <1>1, <1>3, <1>5, <1>7 DEF Own
<1> QED
  BY <1>1, <1>2, <1>4, <1>5, <1>6, <1>7 DEF r

\* Firmware f transmits for execution e.
OnAir(f, e) ==
  \/ f.pc = "plc" /\ f.timers = 0 /\ f.plcTx.ex = e
  \/ f.pc = "main" /\ f.timers = 1 /\ f.rfTx.ex = e
  \/ f.pc = "rf" /\ f.timers = 0

LEMMA TransmitEffect ==
  ASSUME TInv, NEW b \in Board, NEW e, Transmit(b), OnAir(fw[b], e),
         \A c \in Board : FwSound(fw[c])
  PROVE  LET r == Other(b)
         IN  /\ FwSound(fw'[b]) /\ FwSound(fw'[r])
             /\ fw'[r].pc = fw[r].pc /\ fw'[r].timers = fw[r].timers
             /\ fw'[r].started = fw[r].started
             /\ \A j \in Intf : Own(fw[r], j, e) => Own(fw'[r], j, e)
             /\ spi'[r] = spi[r]
             /\ \/ spi'[b] = spi[b] /\ OnAir(fw'[b], e)
                \/ /\ spi'[b] = <<Frame("TEST_DONE", "SUCCESS")>> /\ Still(fw'[b])
<1> DEFINE r == Other(b)
<1>0. r \in Board /\ r # b
  BY BoardFacts DEF Other
<1>1. /\ fw = [c \in Board |-> fw[c]] /\ \A c \in Board : IsFw(fw[c]) /\ FwOK(fw[c])
      /\ \A c \in Board : fw[c].stats \in [Intf -> Stats]
      /\ fw[b].plcTx \in Tx /\ fw[b].rfTx \in Tx
  BY TypeFacts DEF FwOK
<1> HIDE DEF r
<1>2. ASSUME NEW f, NEW i \in Intf, NEW got \in BOOLEAN,
             f = [c \in Board |-> f[c]], IsFw(f[b]), f[r] = fw[r],
             f[b].stats = fw[b].stats, f[b].cal = fw[b].cal, f[b].pending = fw[b].pending,
             fw' = Heard(f, b, i, e, got)
      PROVE  /\ fw'[b] = f[b] /\ FwSound(fw'[b]) /\ FwSound(fw'[r])
             /\ fw'[r].pc = fw[r].pc /\ fw'[r].timers = fw[r].timers
             /\ fw'[r].started = fw[r].started
             /\ \A j \in Intf : Own(fw[r], j, e) => Own(fw'[r], j, e)
  <2>1. \A c \in Board : c = b \/ c = r
    BY DEF r, Other, Board
  <2>2. FwSound(f[b])
    BY <1>2 DEF FwSound
  <2>3. \A c \in Board : IsFw(f[c]) /\ FwSound(f[c]) /\ f[c].stats \in [Intf -> Stats]
    BY <1>1, <1>2, <2>1, <2>2
  <2> QED
    BY <1>2, <2>2, <2>3, HeardEffect DEF r
<1>3. ASSUME NEW got \in BOOLEAN, PlcFrame(b, got)
      PROVE  /\ FwSound(fw'[b]) /\ FwSound(fw'[r])
             /\ fw'[r].pc = fw[r].pc /\ fw'[r].timers = fw[r].timers
             /\ fw'[r].started = fw[r].started
             /\ \A j \in Intf : Own(fw[r], j, e) => Own(fw'[r], j, e)
             /\ UNCHANGED spi /\ OnAir(fw'[b], e)
  <2> DEFINE p == [fw[b].plcTx EXCEPT !.left = @ - 1]
             f == [fw EXCEPT ![b].plcTx = p]
  <2>1. fw[b].pc = "plc" /\ fw[b].timers = 0 /\ fw[b].plcTx.ex = e
    BY <1>3 DEF PlcFrame, OnAir
  <2>2. fw' = Heard(f, b, "PLC", e, got) /\ UNCHANGED spi
    BY <1>3, <2>1 DEF PlcFrame
  <2>3. p.ex = e
    BY <1>1, <2>1 DEF Tx
  <2> HIDE DEF p
  <2>4. f = [c \in Board |-> f[c]] /\ f[r] = fw[r] /\ f[b] = [fw[b] EXCEPT !.plcTx = p]
    BY <1>0, <1>1
  <2> HIDE DEF f
  <2>5. /\ IsFw(f[b]) /\ f[b].stats = fw[b].stats /\ f[b].cal = fw[b].cal
        /\ f[b].pending = fw[b].pending /\ f[b].pc = "plc" /\ f[b].timers = 0 /\ f[b].plcTx = p
    BY <1>1, <2>1, <2>4 DEF IsFw, FwFields
  <2>6. "PLC" \in Intf
    BY DEF Intf
  <2>7. /\ fw'[b] = f[b] /\ FwSound(fw'[b]) /\ FwSound(fw'[r])
        /\ fw'[r].pc = fw[r].pc /\ fw'[r].timers = fw[r].timers
        /\ fw'[r].started = fw[r].started
        /\ \A j \in Intf : Own(fw[r], j, e) => Own(fw'[r], j, e)
    BY <1>2, <2>2, <2>4, <2>5, <2>6
  <2> QED
    BY <2>2, <2>3, <2>5, <2>7 DEF OnAir
<1>4. ASSUME NEW got \in BOOLEAN, NEW newest \in BOOLEAN, RfFrame(b, got, newest)
      PROVE  /\ FwSound(fw'[b]) /\ FwSound(fw'[r])
             /\ fw'[r].pc = fw[r].pc /\ fw'[r].timers = fw[r].timers
             /\ fw'[r].started = fw[r].started
             /\ \A j \in Intf : Own(fw[r], j, e) => Own(fw'[r], j, e)
             /\ UNCHANGED spi /\ OnAir(fw'[b], e)
  <2>0. fw[b].pc = "main" /\ fw[b].timers > 0
    BY <1>4 DEF RfFrame
  <2>1. fw[b].pc = "main" /\ fw[b].timers = 1 /\ fw[b].rfTx.ex = e
    BY <2>0 DEF OnAir
  <2>2. newest = TRUE
    BY <1>4, <2>1 DEF RfFrame
  <2> DEFINE p == [fw[b].rfTx EXCEPT !.left = IF @ > 0 THEN @ - 1 ELSE 0]
             f == [fw EXCEPT ![b].rfTx = p]
             g == [f EXCEPT ![b].timers = @ - 1, ![b].pc = "rf"]
  <2>3. /\ UNCHANGED spi
        /\ fw' = Heard(f, b, "RF", e, got) \/ fw' = Heard(g, b, "RF", e, got)
    <3>1. [f EXCEPT ![b].timers = IF newest THEN @ ELSE @ - 1] = f
      <4>1. f[b] = [fw[b] EXCEPT !.rfTx = p]
        BY <1>0, <1>1
      <4>2. [f[b] EXCEPT !.timers = f[b].timers] = f[b]
        BY <1>1, <4>1 DEF IsFw, FwFields
      <4> QED
        BY <1>0, <1>1, <2>2, <4>2
    <3> QED
      BY <1>4, <2>1, <3>1 DEF RfFrame
  <2>4. p.ex = e
    BY <1>1, <2>1 DEF Tx
  <2> HIDE DEF p
  <2>5. f = [c \in Board |-> f[c]] /\ f[r] = fw[r] /\ f[b] = [fw[b] EXCEPT !.rfTx = p]
    BY <1>0, <1>1
  <2> HIDE DEF f
  <2>6. /\ IsFw(f[b]) /\ f[b].stats = fw[b].stats /\ f[b].cal = fw[b].cal
        /\ f[b].pending = fw[b].pending /\ f[b].pc = "main" /\ f[b].timers = 1 /\ f[b].rfTx = p
    BY <1>1, <2>1, <2>5 DEF IsFw, FwFields
  <2>7. /\ g = [c \in Board |-> g[c]] /\ g[r] = fw[r]
        /\ g[b] = [f[b] EXCEPT !.timers = @ - 1, !.pc = "rf"]
    BY <1>0, <2>5
  <2> HIDE DEF g
  <2>12. f[b].timers - 1 = 0
    BY <2>6
  <2>13. g[b] = [f[b] EXCEPT !.timers = 0, !.pc = "rf"]
    BY <2>7, <2>12
  <2>8. /\ IsFw(g[b]) /\ g[b].stats = fw[b].stats /\ g[b].cal = fw[b].cal
        /\ g[b].pending = fw[b].pending /\ g[b].pc = "rf" /\ g[b].timers = 0
    BY <2>6, <2>13 DEF IsFw, FwFields
  <2>9. "RF" \in Intf
    BY DEF Intf
  <2>10. CASE fw' = Heard(f, b, "RF", e, got)
    <3>1. /\ fw'[b] = f[b] /\ FwSound(fw'[b]) /\ FwSound(fw'[r])
          /\ fw'[r].pc = fw[r].pc /\ fw'[r].timers = fw[r].timers
          /\ fw'[r].started = fw[r].started
          /\ \A j \in Intf : Own(fw[r], j, e) => Own(fw'[r], j, e)
      BY <1>2, <2>5, <2>6, <2>9, <2>10
    <3> QED
      BY <2>3, <2>4, <2>6, <3>1 DEF OnAir
  <2>11. CASE fw' = Heard(g, b, "RF", e, got)
    <3>1. /\ fw'[b] = g[b] /\ FwSound(fw'[b]) /\ FwSound(fw'[r])
          /\ fw'[r].pc = fw[r].pc /\ fw'[r].timers = fw[r].timers
          /\ fw'[r].started = fw[r].started
          /\ \A j \in Intf : Own(fw[r], j, e) => Own(fw'[r], j, e)
      BY <1>2, <2>7, <2>8, <2>9, <2>11
    <3> QED
      BY <2>3, <2>8, <3>1 DEF OnAir
  <2> QED
    BY <2>3, <2>10, <2>11
<1>5. ASSUME TxDone(b)
      PROVE  /\ FwSound(fw'[b]) /\ fw'[r] = fw[r] /\ spi'[r] = spi[r]
             /\ spi'[b] = <<Frame("TEST_DONE", "SUCCESS")>> /\ Still(fw'[b])
  <2>1. /\ spi[b] = <<>> /\ fw' = [fw EXCEPT ![b].pc = "main"] /\ fw[b].pc # "main"
        /\ gvspi_send(b, Frame("TEST_DONE", "SUCCESS"))
    BY <1>5 DEF TxDone, Sent
  <2>2. spi'[b] = <<Frame("TEST_DONE", "SUCCESS")>> /\ spi'[r] = spi[r]
    BY <1>0, <2>1, OfferedSpi DEF Offered
  <2>3. fw'[b] = [fw[b] EXCEPT !.pc = "main"] /\ fw'[r] = fw[r]
    BY <1>0, <1>1, <2>1
  <2>4. fw[b].timers = 0
    BY <2>1 DEF OnAir
  <2>5. /\ fw'[b].pc = "main" /\ fw'[b].timers = 0 /\ fw'[b].stats = fw[b].stats
        /\ fw'[b].cal = fw[b].cal /\ fw'[b].pending = fw[b].pending
    BY <1>1, <2>3, <2>4 DEF IsFw, FwFields
  <2>6. FwSound(fw'[b]) /\ Still(fw'[b])
    BY <2>5 DEF FwSound, Still
  <2> QED
    BY <2>2, <2>3, <2>6
<1> QED
  BY <1>0, <1>3, <1>4, <1>5 DEF Transmit, r

LEMMA TransmitStep ==
  ASSUME NInv, NEW b \in Board, FwTransmit(b)
  PROVE  Good(tool, Lines)'
<1>0. /\ TInv /\ Good(tool, Lines) /\ UNCHANGED <<tool, down, up>>
      /\ Transmit(b) \/ SearchDone(b)
      /\ \A c \in Board : FwSound(fw[c])
  BY LineFacts DEF NInv, FwTransmit, Good
<1>1. fw[b].pc \in {"plc", "rf", "search"} \/ (fw[b].pc = "main" /\ fw[b].timers > 0)
  BY <1>0 DEF Transmit, SearchDone, PlcFrame, RfFrame, TxDone, Sent
<1>2. ~StartUp(tool, Lines) /\ ~Still(fw[b])
  BY <1>1, LineFacts DEF StartUp, ComingUp, Still
<1>3. Working(tool, Lines)
  BY <1>0, <1>2 DEF Good
<1> DEFINE t == PlainOf(Head(tool.q))
           e == Execution(tool)
           r == Other(b)
<1>4. /\ fw[b].pc # "search" /\ UnderWay(tool, Lines) /\ b = Transmitter(Head(tool.q))
      /\ Transmission(t, e, Lines[r], Lines[b]) /\ Sending(Lines[b], e)
  BY <1>2, <1>3, WorkingPc
<1>5. /\ r \in Board /\ r # b /\ r = Receiver(Head(tool.q)) /\ b = Transmitter(t) /\ r = Receiver(t)
      /\ t.intf \in Intf /\ \A c \in Board : c = b \/ c = r
  <2>1. tool.q # <<>>
    BY <1>4 DEF UnderWay
  <2> QED
    BY <1>0, <1>4, <2>1, HeadFacts
<1>6. Transmit(b)
  BY <1>0, <1>4 DEF SearchDone
<1> HIDE DEF t, e, r
<1>7. OnAir(fw[b], e)
  BY <1>2, <1>4, LineFacts DEF Sending, OnAir
<1>8. /\ FwSound(fw'[b]) /\ FwSound(fw'[r])
      /\ fw'[r].pc = fw[r].pc /\ fw'[r].timers = fw[r].timers
      /\ fw'[r].started = fw[r].started
      /\ \A j \in Intf : Own(fw[r], j, e) => Own(fw'[r], j, e)
      /\ spi'[r] = spi[r]
      /\ \/ spi'[b] = spi[b] /\ OnAir(fw'[b], e)
         \/ /\ spi'[b] = <<Frame("TEST_DONE", "SUCCESS")>> /\ Still(fw'[b])
  BY <1>0, <1>6, <1>7, TransmitEffect DEF r
<1> DEFINE l == Lines[b]
           l2 == Lines'[b]
           k == Lines[r]
           k2 == Lines'[r]
<1>9. /\ l.down = down[b] /\ l.spi = spi[b] /\ l.up = up[b] /\ l.fw = fw[b]
      /\ l2.down = down[b] /\ l2.spi = spi'[b] /\ l2.up = up[b] /\ l2.fw = fw'[b]
      /\ k.down = down[r] /\ k.spi = spi[r] /\ k.up = up[r] /\ k.fw = fw[r]
      /\ k2.down = down[r] /\ k2.spi = spi'[r] /\ k2.up = up[r] /\ k2.fw = fw'[r]
  BY <1>0, <1>5, LineFacts
<1> HIDE DEF l, l2, k, k2
<1>10. /\ Quiet(k) /\ Started(k.fw, t.intf, e) /\ BothFlushed(t, k, l) /\ Sending(l, e)
  BY <1>4 DEF Transmission, k, l
<1>11. Quiet(k2)
  BY <1>8, <1>9, <1>10 DEF Quiet, Still
<1>12. Started(k2.fw, t.intf, e)
  BY <1>5, <1>8, <1>9, <1>10 DEF Started
<1>13. BothFlushed(t, k2, l2)
  BY <1>9, <1>10 DEF BothFlushed, Flushed
<1>14. Sending(l2, e) \/ Answered(l2, Frame("TEST_DONE", "SUCCESS"), TxCnf)
  BY <1>8, <1>9, <1>10 DEF Sending, OnAir, Answered
<1>15. Token(t, e, k2, l2)
  BY <1>11, <1>12, <1>13, <1>14 DEF Token, Transmission
<1>16. UnderWay(tool, Lines')
  BY <1>4, <1>5, <1>15 DEF UnderWay, t, e, k2, l2
<1>17. NoFlash(Lines'["REF"].down)
  <2>1. "REF" \in Board
    BY DEF Board
  <2> QED
    BY <1>0, <1>3, <2>1, LineFacts DEF Working
<1>18. Working(tool, Lines')
  BY <1>3, <1>16, <1>17 DEF Working
<1>19. \A c \in Board : FwSound(Lines'[c].fw)
  BY <1>5, <1>8, LineFacts
<1>20. Good(tool, Lines')
  BY <1>0, <1>18, <1>19 DEF Good
<1> QED
  BY <1>0, <1>20

-----------------------------------------------------------------------------
(***************************************************************************)
(* The handlers of the tool while both boards are listed once.             *)
(***************************************************************************)
Ready(h) == IsTool(h) /\ h.devicesUP /\ \A b \in Board : h.listed[b] = 1

Keeps(g, h, F) == IsTool(g) /\ \A f \in Fields \ F : g[f] = h[f]

\* The handler sends m to board b and nothing else.
SendsOne(g, b, m) == \A c \in Board : g.out[c] = IF c = b THEN <<m>> ELSE <<>>

SendsNone(g) == \A c \in Board : g.out[c] = <<>>

LEMMA SendReady ==
  ASSUME NEW h, Ready(h), h.out = NoSends, NEW b \in Board, NEW cmd, NEW t
  PROVE  /\ Keeps(Send(h, b, cmd, t), h, {"out"})
         /\ SendsOne(Send(h, b, cmd, t), b, Command(cmd, t, Execution(h)))
<1> DEFINE m == [cmd |-> cmd, test |-> t, ex |-> Execution(h)]
           z == [i \in 1 .. h.listed[b] |-> m]
           o == [h.out EXCEPT ![b] = h.out[b] \o z]
<1>1. h.listed["DUT"] = 1 /\ h.listed["REF"] = 1 /\ h.listed[b] = 1
  BY DEF Ready, Board
<1>2. ~FewClients(h)
  BY <1>1 DEF FewClients
<1>3. Send(h, b, cmd, t) = [h EXCEPT !.out = o]
  BY <1>2 DEF Send
<1>4. z = <<m>>
  BY <1>1
<1>5. m = Command(cmd, t, Execution(h))
  BY DEF Command
<1> HIDE DEF m, z
<1>6. <<>> \o <<m>> = <<m>>
  OBVIOUS
<1>7. \A c \in Board : o[c] = IF c = b THEN <<m>> ELSE <<>>
  BY <1>4, <1>6 DEF NoSends
<1> HIDE DEF o
<1>8. IsTool(h)
  BY DEF Ready
<1>9. Keeps([h EXCEPT !.out = o], h, {"out"}) /\ [h EXCEPT !.out = o].out = o
  BY <1>8 DEF IsTool, Fields, Keeps
<1> QED
  BY <1>3, <1>5, <1>7, <1>9 DEF SendsOne

LEMMA KeepsTrans ==
  ASSUME NEW f, NEW g, NEW h, NEW F, NEW G, Keeps(f, g, F), Keeps(g, h, G)
  PROVE  Keeps(f, h, F \cup G)
  BY DEF Keeps

LEMMA KeepsReady ==
  ASSUME NEW g, NEW h, NEW F, Ready(h), Keeps(g, h, F), {"devicesUP", "listed"} \cap F = {}
  PROVE  Ready(g)
<1>1. g.devicesUP = h.devicesUP /\ g.listed = h.listed
  BY DEF Keeps, Fields
<1> QED
  BY <1>1 DEF Ready, Keeps

LEMMA KeepsExecution ==
  ASSUME NEW g, NEW h, NEW F, Keeps(g, h, F), {"run", "tests"} \cap F = {}
  PROVE  Execution(g) = Execution(h)
<1>1. g.run = h.run /\ g.tests = h.tests
  BY DEF Keeps, Fields
<1> QED
  BY <1>1 DEF Execution

LEMMA StatusKeeps ==
  ASSUME NEW h, IsTool(h), NEW v
  PROVE  Keeps([h EXCEPT !.status = v], h, {"status"}) /\ [h EXCEPT !.status = v].status = v
  BY DEF IsTool, Fields, Keeps

\* The run goes on: only the status changes, and it still names a test.
Goes(g, h) ==
  /\ Keeps(g, h, {"status", "out"})
  /\ h.status.test # NoTest => g.status.test # NoTest

LEMMA ContinueReady ==
  ASSUME NEW h, Ready(h), h.out = NoSends, NEW t \in Test, NEW b \in Board
  PROVE  /\ \A op \in {"PREPARE", "START"} :
              /\ Goes(Continue(h, t, op, b), h)
              /\ SendsOne(Continue(h, t, op, b), b, Command(op, PlainOf(t), Execution(h)))
         /\ \A op \in {"STOP", "GET_RESULT"} :
              /\ Goes(Continue(h, t, op, b), h)
              /\ SendsOne(Continue(h, t, op, b), Receiver(PlainOf(t)),
                          Command(op, PlainOf(t), Execution(h)))
<1>0. ASSUME NEW op \in {"PREPARE", "START", "STOP", "GET_RESULT"}
      PROVE  LET g == [h EXCEPT !.status = Status(PlainOf(t), op, b)]
             IN  /\ Continue(h, t, op, b) = IF op \in {"PREPARE", "START"}
                                              THEN Send(g, b, op, PlainOf(t))
                                              ELSE Send(g, Receiver(PlainOf(t)), op, PlainOf(t))
                 /\ \A d \in Board :
                      /\ Goes(Send(g, d, op, PlainOf(t)), h)
                      /\ SendsOne(Send(g, d, op, PlainOf(t)), d,
                                  Command(op, PlainOf(t), Execution(h)))
  <2> DEFINE v == Status(PlainOf(t), op, b)
             g == [h EXCEPT !.status = v]
  <2>0. v.at = b /\ v.test # NoTest
    BY PlainFacts DEF Status
  <2> HIDE DEF v
  <2>1. Keeps(g, h, {"status"}) /\ g.status = v
    BY StatusKeeps DEF Ready
  <2>2. Continue(h, t, op, b) = TestStep(g, PlainOf(t), op)
    BY DEF Continue, v
  <2> HIDE DEF g
  <2>3. Ready(g) /\ Execution(g) = Execution(h) /\ g.out = NoSends
    <3>1. Ready(g)
      BY <2>1, KeepsReady
    <3>2. Execution(g) = Execution(h)
      BY <2>1, KeepsExecution
    <3>3. g.out = h.out
      BY <2>1 DEF Keeps, Fields
    <3> QED
      BY <3>1, <3>2, <3>3
  <2>4. Continue(h, t, op, b) = IF op \in {"PREPARE", "START"}
                                  THEN Send(g, b, op, PlainOf(t))
                                  ELSE Send(g, Receiver(PlainOf(t)), op, PlainOf(t))
    BY <2>0, <2>1, <2>2 DEF TestStep
  <2>5. ASSUME NEW d \in Board
        PROVE  /\ Goes(Send(g, d, op, PlainOf(t)), h)
               /\ SendsOne(Send(g, d, op, PlainOf(t)), d, Command(op, PlainOf(t), Execution(h)))
    <3>1. /\ Keeps(Send(g, d, op, PlainOf(t)), g, {"out"})
          /\ SendsOne(Send(g, d, op, PlainOf(t)), d, Command(op, PlainOf(t), Execution(h)))
      BY <2>3, SendReady
    <3>2. Keeps(Send(g, d, op, PlainOf(t)), h, {"out"} \cup {"status"})
      BY <2>1, <3>1, KeepsTrans
    <3>3. {"out"} \cup {"status"} = {"status", "out"}
      OBVIOUS
    <3>4. Send(g, d, op, PlainOf(t)).status = v
      BY <2>1, <3>1 DEF Keeps, Fields
    <3> QED
      BY <2>0, <3>1, <3>2, <3>3, <3>4 DEF Goes
  <2> QED
    BY <2>4, <2>5 DEF g, v
<1>1. Receiver(PlainOf(t)) \in Board
  BY BoardFacts
<1>2. ASSUME NEW op \in {"PREPARE", "START"}
      PROVE  /\ Goes(Continue(h, t, op, b), h)
             /\ SendsOne(Continue(h, t, op, b), b, Command(op, PlainOf(t), Execution(h)))
  BY <1>0, <1>2
<1>3. ASSUME NEW op \in {"STOP", "GET_RESULT"}
      PROVE  /\ Goes(Continue(h, t, op, b), h)
             /\ SendsOne(Continue(h, t, op, b), Receiver(PlainOf(t)),
                         Command(op, PlainOf(t), Execution(h)))
  BY <1>0, <1>1, <1>3
<1> QED
  BY <1>2, <1>3

\* TEST_DONE: STOP to the receiver.
LEMMA TestDoneReady ==
  ASSUME NEW h, Ready(h), h.out = NoSends, h.q # <<>>, Head(h.q) \in Test, NEW b, NEW m,
         m.rsp = "SUCCESS"
  PROVE  /\ Goes(TestDone(h, b, m), h)
         /\ SendsOne(TestDone(h, b, m), Receiver(PlainOf(Head(h.q))),
                     Command("STOP", PlainOf(Head(h.q)), Execution(h)))
<1> DEFINE t == Head(h.q)
           p == PlainOf(t)
           v == Status(p, "STOP", h.status.at)
           g == [h EXCEPT !.status = v]
<1>1. t \in Test /\ p \in Plain /\ t # NoTest /\ p # NoTest /\ p.sweep = FALSE
  BY PlainFacts
<1>2. v.test = p /\ v.op = "STOP"
  BY DEF Status
<1>3. issueCmd_StopTest(h, t) = g
  BY <1>1 DEF issueCmd_StopTest
<1>4. TestDone(h, b, m) = executeTests(g)
  BY <1>3 DEF TestDone
<1> HIDE DEF t, p, v
<1>5. Keeps(g, h, {"status"}) /\ g.status = v
  BY StatusKeeps DEF Ready
<1> HIDE DEF g
<1>6. executeTests(g) = Send(g, Receiver(p), "STOP", p)
  BY <1>1, <1>2, <1>5 DEF executeTests, TestStep
<1>7. Ready(g) /\ Execution(g) = Execution(h) /\ g.out = NoSends
  <2>1. Ready(g)
    BY <1>5, KeepsReady
  <2>2. Execution(g) = Execution(h)
    BY <1>5, KeepsExecution
  <2>3. g.out = h.out
    BY <1>5 DEF Keeps, Fields
  <2> QED
    BY <2>1, <2>2, <2>3
<1>8. Receiver(p) \in Board
  BY BoardFacts
<1>9. /\ Keeps(Send(g, Receiver(p), "STOP", p), g, {"out"})
      /\ SendsOne(Send(g, Receiver(p), "STOP", p), Receiver(p), Command("STOP", p, Execution(h)))
  BY <1>7, <1>8, SendReady
<1>10. Keeps(Send(g, Receiver(p), "STOP", p), h, {"out"} \cup {"status"})
  BY <1>5, <1>9, KeepsTrans
<1>11. {"out"} \cup {"status"} = {"status", "out"}
  OBVIOUS
<1>12. Send(g, Receiver(p), "STOP", p).status = v
  BY <1>5, <1>9 DEF Keeps, Fields
<1> QED
  BY <1>1, <1>2, <1>4, <1>6, <1>9, <1>10, <1>11, <1>12 DEF t, p, Goes

-----------------------------------------------------------------------------
(***************************************************************************)
(* What a handler sends reaches the streams.  k is the line of a board     *)
(* after the read that the handler works on, l the line after it.          *)
(***************************************************************************)
LEMMA FinishFields ==
  ASSUME NEW g, IsTool(g), Finish(g)
  PROVE  /\ IsTool(tool') /\ tool'.out = NoSends
         /\ \A f \in Fields \ {"out"} : tool'[f] = g[f]
<1>1. tool' = [g EXCEPT !.out = NoSends]
  BY DEF Finish
<1> QED
  BY <1>1 DEF IsTool, Fields

LEMMA FinishJoin ==
  ASSUME TInv, NEW g, Finish(g), \A c \in Board : g.out[c] \in Seq(Cmd)
  PROVE  \A c \in Board : IsJoin(down'[c], down[c], g.out[c])
<1>1. ASSUME NEW c \in Board PROVE IsJoin(down'[c], down[c], g.out[c])
  <2>1. down'[c] = down[c] \o g.out[c]
    BY DEF Finish
  <2>2. down[c] \in Seq(Cmd) /\ g.out[c] \in Seq(Cmd)
    BY TypeFacts
  <2> QED
    BY <2>1, <2>2, Join
<1> QED
  BY <1>1

LEMMA SendsType ==
  ASSUME NEW g
  PROVE  /\ SendsNone(g) => \A c \in Board : g.out[c] \in Seq(Cmd)
         /\ \A b, m : m \in Cmd /\ SendsOne(g, b, m) => \A c \in Board : g.out[c] \in Seq(Cmd)
<1>1. <<>> \in Seq(Cmd) /\ \A m \in Cmd : <<m>> \in Seq(Cmd)
  BY EmptySeq
<1>2. SendsNone(g) => \A c \in Board : g.out[c] \in Seq(Cmd)
  BY <1>1 DEF SendsNone
<1>3. ASSUME NEW b, NEW m, m \in Cmd, SendsOne(g, b, m), NEW c \in Board
      PROVE  g.out[c] \in Seq(Cmd)
  <2>1. g.out[c] = <<m>> \/ g.out[c] = <<>>
    BY <1>3 DEF SendsOne
  <2> QED
    BY <1>1, <1>3, <2>1
<1> QED
  BY <1>2, <1>3

\* A command is sent on a quiet line.
LEMMA AskLine ==
  ASSUME NEW k, NEW l, l.up = k.up, l.fw = k.fw, l.spi = k.spi,
         NEW c, IsJoin(l.down, k.down, <<c>>)
  PROVE  /\ Quiet(k) => Asked(l, c)
         /\ NoFlash(k.down) /\ c.cmd # "FLASH_PARAM" => NoFlash(l.down)
         /\ Quiet(k) /\ c.cmd \in FlashCmds => Quiet(l)
<1>1. Quiet(k) => Asked(l, c)
  BY CmdJoin DEF Quiet, Asked
<1>2. NoFlash(k.down) /\ c.cmd # "FLASH_PARAM" => NoFlash(l.down)
  <2>1. c.cmd # "FLASH_PARAM" => NoFlash(<<c>>)
    BY DEF NoFlash
  <2> QED
    BY <2>1, IsJoinIds
<1>3. Quiet(k) /\ c.cmd \in FlashCmds => Quiet(l)
  <2>1. c.cmd \in FlashCmds => FlashOnly(<<c>>)
    BY DEF FlashOnly
  <2>2. FlashOnly(k.down) /\ c.cmd \in FlashCmds => FlashOnly(l.down)
    BY <2>1, IsJoinIds
  <2> QED
    BY <2>2 DEF Quiet
<1> QED
  BY <1>1, <1>2, <1>3

\* Nothing is sent on the line.
LEMMA SameLine ==
  ASSUME NEW k, NEW l, l.up = k.up, l.fw = k.fw, l.spi = k.spi, IsJoin(l.down, k.down, <<>>)
  PROVE  Benign(k, l)
<1>1. \A i \in 1 .. Len(<<>>) : <<>>[i].cmd = "SPI_DISCONNECT"
  OBVIOUS
<1> QED
  BY <1>1, SendLine

\* The lines between the read and the sends of a handler.
Mid(k) ==
  \A c \in Board : /\ k[c].down = down[c] /\ k[c].spi = spi[c]
                   /\ k[c].up = up'[c] /\ k[c].fw = fw[c]

LEMMA SendsOneLines ==
  ASSUME TInv, NEW g, Finish(g), NEW d, NEW m \in Cmd, SendsOne(g, d, m),
         UNCHANGED <<fw, spi>>, NEW k, Mid(k)
  PROVE  /\ \A c \in Board : c # d => Benign(k[c], Lines'[c])
         /\ d \in Board =>
              /\ Quiet(k[d]) => Asked(Lines'[d], m)
              /\ NoFlash(k[d].down) /\ m.cmd # "FLASH_PARAM" => NoFlash(Lines'[d].down)
              /\ Quiet(k[d]) /\ m.cmd \in FlashCmds => Quiet(Lines'[d])
         /\ m.cmd = "SPI_DISCONNECT" => \A c \in Board : Benign(k[c], Lines'[c])
         /\ \A c \in Board : Lines'[c].fw = k[c].fw
<1>1. \A c \in Board : IsJoin(down'[c], down[c], g.out[c])
  BY SendsType, FinishJoin
<1>2. \A c \in Board : /\ IsJoin(Lines'[c].down, k[c].down, g.out[c])
                       /\ Lines'[c].up = k[c].up /\ Lines'[c].fw = k[c].fw
                       /\ Lines'[c].spi = k[c].spi
  BY <1>1, LineFacts DEF Mid
<1>3. ASSUME NEW c \in Board, c # d PROVE Benign(k[c], Lines'[c])
  <2>1. g.out[c] = <<>>
    BY <1>3 DEF SendsOne
  <2> QED
    BY <1>2, <2>1, SameLine
<1>4. ASSUME d \in Board
      PROVE  /\ Quiet(k[d]) => Asked(Lines'[d], m)
             /\ NoFlash(k[d].down) /\ m.cmd # "FLASH_PARAM" => NoFlash(Lines'[d].down)
             /\ Quiet(k[d]) /\ m.cmd \in FlashCmds => Quiet(Lines'[d])
  <2>1. g.out[d] = <<m>>
    BY <1>4 DEF SendsOne
  <2>2. IsJoin(Lines'[d].down, k[d].down, <<m>>)
    BY <1>2, <1>4, <2>1
  <2> QED
    BY <1>2, <1>4, <2>2, AskLine
<1>5. ASSUME m.cmd = "SPI_DISCONNECT", NEW c \in Board PROVE Benign(k[c], Lines'[c])
  <2>1. CASE c # d
    BY <1>3, <2>1
  <2>2. CASE c = d
    <3>1. g.out[c] = <<m>>
      BY <2>2 DEF SendsOne
    <3>2. \A i \in 1 .. Len(<<m>>) : <<m>>[i].cmd = "SPI_DISCONNECT"
      BY <1>5
    <3>3. IsJoin(Lines'[c].down, k[c].down, <<m>>)
      BY <1>2, <3>1
    <3> QED
      BY <1>2, <3>2, <3>3, SendLine
  <2> QED
    BY <2>1, <2>2
<1> QED
  BY <1>2, <1>3, <1>4, <1>5

LEMMA SendsNoneLines ==
  ASSUME TInv, NEW g, Finish(g), SendsNone(g), UNCHANGED <<fw, spi>>, NEW k, Mid(k)
  PROVE  \A c \in Board : Benign(k[c], Lines'[c]) /\ Lines'[c].fw = k[c].fw
<1>1. \A c \in Board : IsJoin(down'[c], down[c], g.out[c])
  BY SendsType, FinishJoin
<1>2. ASSUME NEW c \in Board PROVE Benign(k[c], Lines'[c]) /\ Lines'[c].fw = k[c].fw
  <2>1. g.out[c] = <<>>
    BY DEF SendsNone
  <2>2. /\ IsJoin(Lines'[c].down, k[c].down, <<>>)
        /\ Lines'[c].up = k[c].up /\ Lines'[c].fw = k[c].fw
        /\ Lines'[c].spi = k[c].spi
    BY <1>1, <2>1, LineFacts DEF Mid
  <2> QED
    BY <2>2, SameLine
<1> QED
  BY <1>2

-----------------------------------------------------------------------------
(***************************************************************************)
(* The frames of a run, one by one.                                        *)
(***************************************************************************)
LEMMA FrameFields ==
  \A i, y : Frame(i, y).id = i /\ Frame(i, y).rsp = y
  BY DEF Frame

LEMMA HandledReady ==
  ASSUME NEW h, Ready(h), h.out = NoSends, h.q # <<>>, Head(h.q) \in Test, NEW ok,
         NEW t, t = PlainOf(Head(h.q)), NEW e, e = Execution(h),
         NEW R, R = Receiver(Head(h.q)), NEW X, X = Transmitter(Head(h.q))
  PROVE  /\ LET g == Handled(h, R, Frame("PREPARE_CNF", "SUCCESS"), ok)
            IN  Goes(g, h) /\ SendsOne(g, X, Command("PREPARE", t, e))
         /\ LET g == Handled(h, X, Frame("PREPARE_CNF", "SUCCESS"), ok)
            IN  Goes(g, h) /\ SendsOne(g, R, Command("START", t, e))
         /\ LET g == Handled(h, R, Frame("START_CNF", "SUCCESS"), ok)
            IN  Goes(g, h) /\ SendsOne(g, X, Command("START", t, e))
         /\ LET g == Handled(h, X, Frame("TEST_DONE", "SUCCESS"), ok)
            IN  Goes(g, h) /\ SendsOne(g, R, Command("STOP", t, e))
         /\ LET g == Handled(h, R, Frame("STOP_CNF", "SUCCESS"), ok)
            IN  Goes(g, h) /\ SendsOne(g, R, Command("GET_RESULT", t, e))
         /\ \A b : Handled(h, b, Frame("PREPARE_CNF", "INVALID_TEST"), ok) = h
         /\ \A b : Handled(h, b, Frame("START_CNF", "INVALID_TEST"), ok) = h
         /\ \A m : m.id = "START_CNF" => Handled(h, X, m, ok) = h
<1> DEFINE s == Head(h.q)
<1>1. /\ R \in Board /\ X \in Board /\ R # X /\ Other(R) = X /\ Other(X) = R
      /\ FirstPrepared(s) = R
  BY DEF Receiver, Transmitter, Other, Board, FirstPrepared
<1>2. Receiver(PlainOf(s)) = R
  <2>1. PlainOf(s).dir = s.dir
    BY DEF PlainOf, Test
  <2> QED
    BY <2>1 DEF Receiver, Transmitter
<1>3. h.devicesUP
  BY DEF Ready
<1>4. LET g == Handled(h, R, Frame("PREPARE_CNF", "SUCCESS"), ok)
      IN  Goes(g, h) /\ SendsOne(g, X, Command("PREPARE", t, e))
  <2>1. Handled(h, R, Frame("PREPARE_CNF", "SUCCESS"), ok) = Continue(h, s, "PREPARE", X)
    BY <1>1, <1>3, FrameFields DEF Handled, PrepareCnf, PrepareNext
  <2> QED
    BY <1>1, <2>1, ContinueReady
<1>5. LET g == Handled(h, X, Frame("PREPARE_CNF", "SUCCESS"), ok)
      IN  Goes(g, h) /\ SendsOne(g, R, Command("START", t, e))
  <2>1. Handled(h, X, Frame("PREPARE_CNF", "SUCCESS"), ok) = Continue(h, s, "START", R)
    BY <1>1, <1>3, FrameFields DEF Handled, PrepareCnf, PrepareNext
  <2> QED
    BY <1>1, <2>1, ContinueReady
<1>6. LET g == Handled(h, R, Frame("START_CNF", "SUCCESS"), ok)
      IN  Goes(g, h) /\ SendsOne(g, X, Command("START", t, e))
  <2>1. Handled(h, R, Frame("START_CNF", "SUCCESS"), ok) = Continue(h, s, "START", X)
    BY <1>1, FrameFields DEF Handled, StartCnf
  <2> QED
    BY <1>1, <2>1, ContinueReady
<1>7. LET g == Handled(h, X, Frame("TEST_DONE", "SUCCESS"), ok)
      IN  Goes(g, h) /\ SendsOne(g, R, Command("STOP", t, e))
  <2> DEFINE m == Frame("TEST_DONE", "SUCCESS")
  <2>1. m.id = "TEST_DONE" /\ m.rsp = "SUCCESS"
    BY FrameFields
  <2> HIDE DEF m
  <2>2. Handled(h, X, m, ok) = TestDone(h, X, m)
    BY <2>1 DEF Handled
  <2>3. Goes(TestDone(h, X, m), h)
           /\ SendsOne(TestDone(h, X, m), R, Command("STOP", t, e))
    BY <1>2, <2>1, TestDoneReady
  <2> QED
    BY <2>2, <2>3 DEF m
<1>8. LET g == Handled(h, R, Frame("STOP_CNF", "SUCCESS"), ok)
      IN  Goes(g, h) /\ SendsOne(g, R, Command("GET_RESULT", t, e))
  <2>1. Handled(h, R, Frame("STOP_CNF", "SUCCESS"), ok) = Continue(h, s, "GET_RESULT", "DUT")
    BY FrameFields DEF Handled, StopCnf
  <2>2. "DUT" \in Board
    BY DEF Board
  <2> QED
    BY <1>2, <2>1, <2>2, ContinueReady
<1>9. \A b : Handled(h, b, Frame("PREPARE_CNF", "INVALID_TEST"), ok) = h
  BY <1>3, FrameFields DEF Handled, PrepareCnf
<1>10. \A b : Handled(h, b, Frame("START_CNF", "INVALID_TEST"), ok) = h
  BY FrameFields DEF Handled, StartCnf
<1>11. \A m : m.id = "START_CNF" => Handled(h, X, m, ok) = h
  BY <1>1 DEF Handled, StartCnf
<1> QED
  BY <1>4, <1>5, <1>6, <1>7, <1>8, <1>9, <1>10, <1>11

\* A read takes frames off the line; the handler looks at the first of them.
IsRead(l, k, m) ==
  /\ Benign(l, k) /\ k.fw = l.fw /\ k.down = l.down
  /\ Quiet(l) => m.id \in FlashCnf
  /\ \A c : Asked(l, c) => m.id \in FlashCnf
  /\ \A e : Sending(l, e) => m.id \in TxCnf
  /\ \A a, N : Answered(l, a, N) =>
       \/ m = a /\ Quiet(k)
       \/ m.id \in N /\ (Answered(k, a, N) \/ Quiet(k))

LEMMA ReadStep ==
  ASSUME TInv, NEW b \in Board, ToolReceive(b)
  PROVE  \E k, ok :
           /\ Mid(k) /\ ok \in Verdicts(tool, Head(up[b]))
           /\ Finish(Handled(tool, b, Head(up[b]), ok))
           /\ UNCHANGED <<fw, spi, used>> /\ up[b] # <<>> /\ Head(up[b]) \in FrameType
           /\ \A c \in Board : c # b => Benign(Lines[c], k[c]) /\ up'[c] = up[c]
           /\ IsRead(Lines[b], k[b], Head(up[b]))
           /\ \E n \in 1 .. ReadMax : n <= Len(up[b]) /\ up'[b] = SubSeq(up[b], n + 1, Len(up[b]))
<1>0. /\ up[b] # <<>> /\ UNCHANGED <<fw, spi, used>>
      /\ up \in [Board -> Seq(FrameType)] /\ up[b] \in Seq(FrameType)
  BY TypeFacts DEF ToolReceive, messageReceived
<1>1. PICK n \in 1 .. ReadMax, ok \in Verdicts(tool, Head(up[b])) :
        /\ n <= Len(up[b])
        /\ up' = [up EXCEPT ![b] = SubSeq(@, n + 1, Len(@))]
        /\ Finish(Handled(tool, b, Head(up[b]), ok))
  BY DEF ToolReceive, messageReceived
<1>2. up'[b] = SubSeq(up[b], n + 1, Len(up[b])) /\ \A c \in Board : c # b => up'[c] = up[c]
  BY <1>0, <1>1
<1>3. IsRest(up'[b], up[b], n)
  <2>1. n \in Nat \ {0}
    BY ToolAssumption
  <2> QED
    BY <1>0, <1>1, <1>2, <2>1, RestOf
<1> DEFINE k == [c \in Board |-> [down |-> down[c], spi |-> spi[c], up |-> up'[c], fw |-> fw[c]]]
<1>4. \A c \in Board : /\ k[c].down = down[c] /\ k[c].spi = spi[c]
                       /\ k[c].up = up'[c] /\ k[c].fw = fw[c]
  OBVIOUS
<1> HIDE DEF k
<1>5. Mid(k)
  BY <1>4 DEF Mid
<1>6. ASSUME NEW c \in Board, c # b PROVE Benign(Lines[c], k[c])
  BY <1>2, <1>4, <1>6, LineFacts, BenignSame
<1> DEFINE l == Lines[b]
           j == k[b]
           m == Head(up[b])
<1>7. /\ j.down = l.down /\ j.fw = l.fw /\ j.spi = l.spi /\ l.up = up[b] /\ j.up = up'[b]
  BY <1>4, LineFacts
<1>8. IsRest(j.up, l.up, n) /\ Head(l.up) = m
  BY <1>3, <1>7
<1> HIDE DEF l, j, m
<1>9. /\ Quiet(l) => Quiet(j) /\ m.id \in FlashCnf
      /\ \A c : Asked(l, c) => Asked(j, c) /\ m.id \in FlashCnf
      /\ \A e : Sending(l, e) => Sending(j, e) /\ m.id \in TxCnf
      /\ \A a, N : Answered(l, a, N) =>
           \/ m = a /\ Quiet(j)
           \/ m.id \in N /\ (Answered(j, a, N) \/ Quiet(j))
  BY <1>7, <1>8, ReadLine
<1>10. Benign(l, j)
  BY <1>7, <1>9 DEF Benign
<1>11. IsRead(l, j, m)
  BY <1>7, <1>9, <1>10 DEF IsRead
<1>12. m \in FrameType
  BY <1>0, HeadTailProperties DEF m
<1> QED
  BY <1>0, <1>1, <1>2, <1>5, <1>6, <1>11, <1>12 DEF l, j, m

\* What the handler may find when the receiver has something to say.
LEMMA ReadReceiver ==
  ASSUME NEW t, NEW e, NEW r, NEW x, Token(t, e, r, x),
         NEW y, Benign(x, y), NEW k, NEW m, IsRead(r, k, m), m.id \notin FlashCnf
  PROVE  /\ Quiet(k) /\ Quiet(y)
         /\ \/ /\ m = Frame("PREPARE_CNF", "SUCCESS")
               /\ PlcOwn(k.fw, t.intf, e) /\ Flushed(Receiver(t), k)
            \/ m = Frame("PREPARE_CNF", "INVALID_TEST")
            \/ m = Frame("START_CNF", "INVALID_TEST")
            \/ /\ m = Frame("START_CNF", "SUCCESS")
               /\ Started(k.fw, t.intf, e) /\ BothFlushed(t, k, y)
            \/ /\ m = Frame("STOP_CNF", "SUCCESS")
               /\ Own(k.fw, t.intf, e) /\ BothFlushed(t, k, y)
            \/ /\ m = ResultFrame(k.fw, t.intf)
               /\ Own(k.fw, t.intf, e) /\ BothFlushed(t, k, y)
<1>1. /\ ~Quiet(r) /\ \A c : ~Asked(r, c)
      /\ \A a : Answered(r, a, FlashCnf) => m = a /\ Quiet(k)
      /\ k.fw = r.fw
  BY DEF IsRead
<1>2. /\ Quiet(x) => Quiet(y)
      /\ \A b : Flushed(b, r) => Flushed(b, k)
      /\ \A b : Flushed(b, x) => Flushed(b, y)
  BY DEF IsRead, Benign, Flushed
<1>3. BothFlushed(t, r, x) => BothFlushed(t, k, y)
  BY <1>2 DEF BothFlushed
<1>4. CASE FirstPrepare(t, e, r, x)
  <2>1. PICK s \in Replies : Answered(r, Frame("PREPARE_CNF", s), FlashCnf)
    BY <1>1, <1>4 DEF FirstPrepare
  <2>2. Quiet(x) /\ PlcOwn(r.fw, t.intf, e) /\ Flushed(Receiver(t), r)
    BY <1>1, <1>4 DEF FirstPrepare
  <2> QED
    BY <1>1, <1>2, <2>1, <2>2 DEF Replies
<1>5. CASE ReceiverStart(t, e, r, x)
  <2>1. PICK s \in Replies : /\ Answered(r, Frame("START_CNF", s), FlashCnf)
                             /\ s = "SUCCESS" => Started(r.fw, t.intf, e)
    BY <1>1, <1>5 DEF ReceiverStart
  <2>2. Quiet(x) /\ BothFlushed(t, r, x)
    BY <1>5 DEF ReceiverStart
  <2> QED
    BY <1>1, <1>2, <1>3, <2>1, <2>2 DEF Replies
<1>6. CASE Stopping(t, e, r, x)
  BY <1>1, <1>2, <1>3, <1>6 DEF Stopping
<1>7. CASE Fetching(t, e, r, x)
  BY <1>1, <1>2, <1>3, <1>7 DEF Fetching
<1> QED
  BY <1>1, <1>4, <1>5, <1>6, <1>7 DEF Token, SecondPrepare, Transmission, Standstill

\* ... and when the transmitter has.
LEMMA ReadTransmitter ==
  ASSUME NEW t, NEW e, NEW r, NEW x, Token(t, e, r, x),
         NEW y, Benign(r, y), NEW k, NEW m, IsRead(x, k, m), m.id \notin FlashCnf
  PROVE  \/ /\ m = Frame("PREPARE_CNF", "SUCCESS") /\ Quiet(k) /\ Quiet(y)
            /\ PlcOwn(y.fw, t.intf, e) /\ BothFlushed(t, y, k)
         \/ m = Frame("PREPARE_CNF", "INVALID_TEST") /\ Standstill(y, k)
         \/ m.id = "START_CNF" /\ Token(t, e, y, k)
         \/ /\ m = Frame("TEST_DONE", "SUCCESS") /\ Quiet(k) /\ Quiet(y)
            /\ Own(y.fw, t.intf, e) /\ BothFlushed(t, y, k)
<1>1. /\ ~Quiet(x) /\ \A c : ~Asked(x, c)
      /\ \A a : Answered(x, a, FlashCnf) => m = a /\ Quiet(k)
      /\ \A a : Answered(x, a, TxCnf) => m.id = "START_CNF" \/ (m = a /\ Quiet(k))
      /\ \A n : Sending(x, n) => m.id = "START_CNF"
      /\ k.fw = x.fw
  BY DEF IsRead, TxCnf, FlashCnf
<1>2. /\ Quiet(r) => Quiet(y)
      /\ \A b : Flushed(b, r) => Flushed(b, y)
      /\ \A b : Flushed(b, x) => Flushed(b, k)
      /\ y.fw = r.fw
  BY DEF IsRead, Benign, Flushed
<1>3. BothFlushed(t, r, x) => BothFlushed(t, y, k)
  BY <1>2 DEF BothFlushed
<1>4. Token(t, e, y, k)
  BY TokenBenign DEF IsRead
<1>5. CASE SecondPrepare(t, e, r, x)
  <2>1. PICK s \in Replies : Answered(x, Frame("PREPARE_CNF", s), FlashCnf)
    BY <1>1, <1>5 DEF SecondPrepare
  <2>2. /\ Quiet(r) /\ PlcOwn(r.fw, t.intf, e) /\ BothFlushed(t, r, x)
    BY <1>1, <1>5 DEF SecondPrepare, BothFlushed
  <2> QED
    BY <1>1, <1>2, <1>3, <2>1, <2>2 DEF Replies, Standstill
<1>6. CASE Transmission(t, e, r, x)
  <2>1. Quiet(r) /\ Own(r.fw, t.intf, e) /\ BothFlushed(t, r, x)
    BY <1>6 DEF Transmission, Started
  <2>2. Sending(x, e) \/ Answered(x, Frame("TEST_DONE", "SUCCESS"), TxCnf)
    BY <1>1, <1>6 DEF Transmission
  <2> QED
    BY <1>1, <1>2, <1>3, <1>4, <2>1, <2>2
<1> QED
  BY <1>1, <1>5, <1>6 DEF Token, FirstPrepare, ReceiverStart, Stopping, Fetching, Standstill

\* The token goes on as command m to board d.
LEMMA HandOver ==
  ASSUME TInv, NEW g, Finish(g), NEW d \in Board, NEW m \in Cmd, SendsOne(g, d, m),
         m.cmd # "FLASH_PARAM", UNCHANGED <<fw, spi>>, NEW k, Mid(k)
  PROVE  /\ Quiet(k[d]) => Asked(Lines'[d], m)
         /\ \A c \in Board : c # d /\ Quiet(k[c]) => Quiet(Lines'[c])
         /\ \A c \in Board : Lines'[c].fw = k[c].fw
         /\ \A c \in Board : NoFlash(k[c].down) => NoFlash(Lines'[c].down)
         /\ \A b : \A c \in Board : Flushed(b, k[c]) => Flushed(b, Lines'[c])
<1>1. /\ \A c \in Board : c # d => Benign(k[c], Lines'[c])
      /\ Quiet(k[d]) => Asked(Lines'[d], m)
      /\ NoFlash(k[d].down) => NoFlash(Lines'[d].down)
      /\ \A c \in Board : Lines'[c].fw = k[c].fw
  BY SendsOneLines
<1>2. \A c \in Board : c # d /\ Quiet(k[c]) => Quiet(Lines'[c])
  BY <1>1 DEF Benign
<1>3. \A c \in Board : NoFlash(k[c].down) => NoFlash(Lines'[c].down)
  BY <1>1 DEF Benign
<1>4. \A b : \A c \in Board : Flushed(b, k[c]) => Flushed(b, Lines'[c])
  BY <1>3 DEF Flushed
<1> QED
  BY <1>1, <1>2, <1>3, <1>4

LEMMA CommandType ==
  ASSUME TInv, NEW t \in Plain
  PROVE  \A op \in {"PREPARE", "START", "STOP", "GET_RESULT"} :
           /\ Command(op, t, Execution(tool)) \in Cmd
           /\ Command(op, t, Execution(tool)).cmd # "FLASH_PARAM"
<1>1. Execution(tool) \in Executions
  BY ExecutionType DEF TInv
<1> QED
  BY <1>1, CmdType DEF Command

\* A result arrived, and nothing else is under way.
Arrived(b, m, k) ==
  LET t == PlainOf(Head(tool.q))
      R == Receiver(Head(tool.q))
      X == Transmitter(Head(tool.q))
  IN  /\ b = R /\ m = ResultFrame(fw[R], t.intf) /\ Own(fw[R], t.intf, Execution(tool))
      /\ Quiet(k[R]) /\ Quiet(k[X]) /\ BothFlushed(t, k[R], k[X])

LEMMA ReceiveToken ==
  ASSUME TInv, Ready(tool), tool.out = NoSends, UnderWay(tool, Lines), NEW b \in Board,
         NEW m, NEW ok, Finish(Handled(tool, b, m, ok)), UNCHANGED <<fw, spi>>,
         NEW k, Mid(k), IsRead(Lines[b], k[b], m), m.id \notin FlashCnf,
         \A c \in Board : c # b => Benign(Lines[c], k[c])
  PROVE  \/ /\ Goes(Handled(tool, b, m, ok), tool)
            /\ Token(PlainOf(Head(tool.q)), Execution(tool),
                     Lines'[Receiver(Head(tool.q))], Lines'[Transmitter(Head(tool.q))])
            /\ \A c \in Board : NoFlash(k[c].down) => NoFlash(Lines'[c].down)
         \/ Arrived(b, m, k)
<1> DEFINE s == Head(tool.q)
           t == PlainOf(s)
           e == Execution(tool)
           R == Receiver(s)
           X == Transmitter(s)
           g == Handled(tool, b, m, ok)
           Goal == /\ Goes(g, tool)
                   /\ Token(t, e, Lines'[R], Lines'[X])
                   /\ \A c \in Board : NoFlash(k[c].down) => NoFlash(Lines'[c].down)
<1>1. tool.q # <<>> /\ Token(t, e, Lines[R], Lines[X])
  BY DEF UnderWay
<1>2. /\ s \in Test /\ t \in Plain /\ R \in Board /\ X \in Board /\ R # X /\ (b = R \/ b = X)
      /\ Receiver(t) = R /\ Transmitter(t) = X
  BY <1>1, HeadFacts
<1>3. /\ LET f == Handled(tool, R, Frame("PREPARE_CNF", "SUCCESS"), ok)
         IN  Goes(f, tool) /\ SendsOne(f, X, Command("PREPARE", t, e))
      /\ LET f == Handled(tool, X, Frame("PREPARE_CNF", "SUCCESS"), ok)
         IN  Goes(f, tool) /\ SendsOne(f, R, Command("START", t, e))
      /\ LET f == Handled(tool, R, Frame("START_CNF", "SUCCESS"), ok)
         IN  Goes(f, tool) /\ SendsOne(f, X, Command("START", t, e))
      /\ LET f == Handled(tool, X, Frame("TEST_DONE", "SUCCESS"), ok)
         IN  Goes(f, tool) /\ SendsOne(f, R, Command("STOP", t, e))
      /\ LET f == Handled(tool, R, Frame("STOP_CNF", "SUCCESS"), ok)
         IN  Goes(f, tool) /\ SendsOne(f, R, Command("GET_RESULT", t, e))
      /\ \A c : Handled(tool, c, Frame("PREPARE_CNF", "INVALID_TEST"), ok) = tool
      /\ \A c : Handled(tool, c, Frame("START_CNF", "INVALID_TEST"), ok) = tool
      /\ \A f : f.id = "START_CNF" => Handled(tool, X, f, ok) = tool
  BY <1>1, <1>2, HandledReady
<1>4. \A op \in {"PREPARE", "START", "STOP", "GET_RESULT"} :
        Command(op, t, e) \in Cmd /\ Command(op, t, e).cmd # "FLASH_PARAM"
  BY <1>2, CommandType
<1>5. k[R].fw = fw[R] /\ k[X].fw = fw[X]
  BY <1>2 DEF Mid
<1> HIDE DEF s, t, e, R, X
<1>6. ASSUME g = tool, Token(t, e, k[R], k[X]) PROVE Goal
  <2>1. Goes(tool, tool)
    BY DEF Goes, Keeps, Ready
  <2>2. SendsNone(g)
    BY <1>6 DEF SendsNone, NoSends
  <2>3. \A c \in Board : Benign(k[c], Lines'[c])
    BY <2>2, SendsNoneLines
  <2>4. Token(t, e, Lines'[R], Lines'[X])
    BY <1>2, <1>6, <2>3, TokenBenign
  <2>5. \A c \in Board : NoFlash(k[c].down) => NoFlash(Lines'[c].down)
    BY <2>3 DEF Benign
  <2> QED
    BY <1>6, <2>1, <2>4, <2>5
<1>7. ASSUME NEW d \in {R, X}, NEW op \in {"PREPARE", "START", "STOP", "GET_RESULT"},
             SendsOne(g, d, Command(op, t, e)), Quiet(k[R]), Quiet(k[X])
      PROVE  /\ Asked(Lines'[d], Command(op, t, e))
             /\ d = R => Quiet(Lines'[X])
             /\ d = X => Quiet(Lines'[R])
             /\ Lines'[R].fw = fw[R] /\ Lines'[X].fw = fw[X]
             /\ \A c \in Board : NoFlash(k[c].down) => NoFlash(Lines'[c].down)
             /\ \A a : \A c \in Board : Flushed(a, k[c]) => Flushed(a, Lines'[c])
  <2>1. d \in Board /\ Quiet(k[d]) /\ Command(op, t, e) \in Cmd
           /\ Command(op, t, e).cmd # "FLASH_PARAM"
    BY <1>2, <1>4, <1>7
  <2>2. /\ Quiet(k[d]) => Asked(Lines'[d], Command(op, t, e))
        /\ \A c \in Board : c # d /\ Quiet(k[c]) => Quiet(Lines'[c])
        /\ \A c \in Board : Lines'[c].fw = k[c].fw
        /\ \A c \in Board : NoFlash(k[c].down) => NoFlash(Lines'[c].down)
        /\ \A a : \A c \in Board : Flushed(a, k[c]) => Flushed(a, Lines'[c])
    BY <1>7, <2>1, HandOver
  <2> QED
    BY <1>2, <1>5, <1>7, <2>1, <2>2
<1> HIDE DEF g
<1>8. CASE b = R
  <2>1. Benign(Lines[X], k[X]) /\ IsRead(Lines[R], k[R], m)
    BY <1>2, <1>8
  <2>2. /\ Quiet(k[R]) /\ Quiet(k[X])
        /\ \/ /\ m = Frame("PREPARE_CNF", "SUCCESS")
              /\ PlcOwn(fw[R], t.intf, e) /\ Flushed(Receiver(t), k[R])
           \/ m = Frame("PREPARE_CNF", "INVALID_TEST")
           \/ m = Frame("START_CNF", "INVALID_TEST")
           \/ /\ m = Frame("START_CNF", "SUCCESS")
              /\ Started(fw[R], t.intf, e) /\ BothFlushed(t, k[R], k[X])
           \/ /\ m = Frame("STOP_CNF", "SUCCESS")
              /\ Own(fw[R], t.intf, e) /\ BothFlushed(t, k[R], k[X])
           \/ /\ m = ResultFrame(fw[R], t.intf)
              /\ Own(fw[R], t.intf, e) /\ BothFlushed(t, k[R], k[X])
    BY <1>1, <1>5, <2>1, ReadReceiver
  <2>3. CASE /\ m = Frame("PREPARE_CNF", "SUCCESS")
             /\ PlcOwn(fw[R], t.intf, e) /\ Flushed(Receiver(t), k[R])
    <3>1. Goes(g, tool) /\ SendsOne(g, X, Command("PREPARE", t, e))
      BY <1>3, <1>8, <2>3 DEF g
    <3>2. /\ Asked(Lines'[X], Command("PREPARE", t, e)) /\ Quiet(Lines'[R])
          /\ Lines'[R].fw = fw[R] /\ Flushed(Receiver(t), Lines'[R])
          /\ \A c \in Board : NoFlash(k[c].down) => NoFlash(Lines'[c].down)
      BY <1>2, <1>7, <2>2, <2>3, <3>1
    <3>3. SecondPrepare(t, e, Lines'[R], Lines'[X])
      BY <2>3, <3>2 DEF SecondPrepare
    <3> QED
      BY <3>1, <3>2, <3>3 DEF Token, s, t, e, R, X, g
  <2>4. CASE m = Frame("PREPARE_CNF", "INVALID_TEST") \/ m = Frame("START_CNF", "INVALID_TEST")
    <3>1. g = tool
      BY <1>3, <2>4 DEF g
    <3>2. Token(t, e, k[R], k[X])
      BY <2>2 DEF Token, Standstill
    <3>3. Goal
      BY <1>6, <3>1, <3>2
    <3> QED
      BY <3>3 DEF s, t, e, R, X, g
  <2>5. CASE /\ m = Frame("START_CNF", "SUCCESS")
             /\ Started(fw[R], t.intf, e) /\ BothFlushed(t, k[R], k[X])
    <3>1. Goes(g, tool) /\ SendsOne(g, X, Command("START", t, e))
      BY <1>3, <1>8, <2>5 DEF g
    <3>2. /\ Asked(Lines'[X], Command("START", t, e)) /\ Quiet(Lines'[R])
          /\ Lines'[R].fw = fw[R]
          /\ \A a : \A c \in Board : Flushed(a, k[c]) => Flushed(a, Lines'[c])
          /\ \A c \in Board : NoFlash(k[c].down) => NoFlash(Lines'[c].down)
      BY <1>2, <1>7, <2>2, <3>1
    <3>3. BothFlushed(t, Lines'[R], Lines'[X])
      BY <1>2, <2>5, <3>2 DEF BothFlushed
    <3>4. Transmission(t, e, Lines'[R], Lines'[X])
      BY <2>5, <3>2, <3>3 DEF Transmission
    <3> QED
      BY <3>1, <3>2, <3>4 DEF Token, s, t, e, R, X, g
  <2>6. CASE /\ m = Frame("STOP_CNF", "SUCCESS")
             /\ Own(fw[R], t.intf, e) /\ BothFlushed(t, k[R], k[X])
    <3>1. Goes(g, tool) /\ SendsOne(g, R, Command("GET_RESULT", t, e))
      BY <1>3, <1>8, <2>6 DEF g
    <3>2. /\ Asked(Lines'[R], Command("GET_RESULT", t, e)) /\ Quiet(Lines'[X])
          /\ Lines'[R].fw = fw[R]
          /\ \A a : \A c \in Board : Flushed(a, k[c]) => Flushed(a, Lines'[c])
          /\ \A c \in Board : NoFlash(k[c].down) => NoFlash(Lines'[c].down)
      BY <1>2, <1>7, <2>2, <3>1
    <3>3. BothFlushed(t, Lines'[R], Lines'[X])
      BY <1>2, <2>6, <3>2 DEF BothFlushed
    <3>4. Fetching(t, e, Lines'[R], Lines'[X])
      BY <2>6, <3>2, <3>3 DEF Fetching
    <3> QED
      BY <3>1, <3>2, <3>4 DEF Token, s, t, e, R, X, g
  <2>7. CASE /\ m = ResultFrame(fw[R], t.intf)
             /\ Own(fw[R], t.intf, e) /\ BothFlushed(t, k[R], k[X])
    BY <1>8, <2>2, <2>7 DEF Arrived, s, t, e, R, X
  <2> QED
    BY <2>2, <2>3, <2>4, <2>5, <2>6, <2>7
<1>9. CASE b = X
  <2>1. Benign(Lines[R], k[R]) /\ IsRead(Lines[X], k[X], m)
    BY <1>2, <1>9
  <2>2. \/ /\ m = Frame("PREPARE_CNF", "SUCCESS") /\ Quiet(k[X]) /\ Quiet(k[R])
           /\ PlcOwn(fw[R], t.intf, e) /\ BothFlushed(t, k[R], k[X])
        \/ m = Frame("PREPARE_CNF", "INVALID_TEST") /\ Standstill(k[R], k[X])
        \/ m.id = "START_CNF" /\ Token(t, e, k[R], k[X])
        \/ /\ m = Frame("TEST_DONE", "SUCCESS") /\ Quiet(k[X]) /\ Quiet(k[R])
           /\ Own(fw[R], t.intf, e) /\ BothFlushed(t, k[R], k[X])
    BY <1>1, <1>5, <2>1, ReadTransmitter
  <2>3. CASE /\ m = Frame("PREPARE_CNF", "SUCCESS") /\ Quiet(k[X]) /\ Quiet(k[R])
             /\ PlcOwn(fw[R], t.intf, e) /\ BothFlushed(t, k[R], k[X])
    <3>1. Goes(g, tool) /\ SendsOne(g, R, Command("START", t, e))
      BY <1>3, <1>9, <2>3 DEF g
    <3>2. /\ Asked(Lines'[R], Command("START", t, e)) /\ Quiet(Lines'[X])
          /\ Lines'[R].fw = fw[R]
          /\ \A a : \A c \in Board : Flushed(a, k[c]) => Flushed(a, Lines'[c])
          /\ \A c \in Board : NoFlash(k[c].down) => NoFlash(Lines'[c].down)
      BY <1>2, <1>7, <2>3, <3>1
    <3>3. BothFlushed(t, Lines'[R], Lines'[X])
      BY <1>2, <2>3, <3>2 DEF BothFlushed
    <3>4. ReceiverStart(t, e, Lines'[R], Lines'[X])
      BY <2>3, <3>2, <3>3 DEF ReceiverStart
    <3> QED
      BY <3>1, <3>2, <3>4 DEF Token, s, t, e, R, X, g
  <2>4. CASE m = Frame("PREPARE_CNF", "INVALID_TEST") /\ Standstill(k[R], k[X])
    <3>1. g = tool
      BY <1>3, <2>4 DEF g
    <3>2. Token(t, e, k[R], k[X])
      BY <2>4 DEF Token
    <3>3. Goal
      BY <1>6, <3>1, <3>2
    <3> QED
      BY <3>3 DEF s, t, e, R, X, g
  <2>5. CASE m.id = "START_CNF" /\ Token(t, e, k[R], k[X])
    <3>1. g = tool
      BY <1>3, <1>9, <2>5 DEF g
    <3>2. Goal
      BY <1>6, <2>5, <3>1
    <3> QED
      BY <3>2 DEF s, t, e, R, X, g
  <2>6. CASE /\ m = Frame("TEST_DONE", "SUCCESS") /\ Quiet(k[X]) /\ Quiet(k[R])
             /\ Own(fw[R], t.intf, e) /\ BothFlushed(t, k[R], k[X])
    <3>1. Goes(g, tool) /\ SendsOne(g, R, Command("STOP", t, e))
      BY <1>3, <1>9, <2>6 DEF g
    <3>2. /\ Asked(Lines'[R], Command("STOP", t, e)) /\ Quiet(Lines'[X])
          /\ Lines'[R].fw = fw[R]
          /\ \A a : \A c \in Board : Flushed(a, k[c]) => Flushed(a, Lines'[c])
          /\ \A c \in Board : NoFlash(k[c].down) => NoFlash(Lines'[c].down)
      BY <1>2, <1>7, <2>6, <3>1
    <3>3. BothFlushed(t, Lines'[R], Lines'[X])
      BY <1>2, <2>6, <3>2 DEF BothFlushed
    <3>4. Stopping(t, e, Lines'[R], Lines'[X])
      BY <2>6, <3>2, <3>3 DEF Stopping
    <3> QED
      BY <3>1, <3>2, <3>4 DEF Token, s, t, e, R, X, g
  <2> QED
    BY <2>2, <2>3, <2>4, <2>5, <2>6
<1> QED
  BY <1>2, <1>8, <1>9

-----------------------------------------------------------------------------
(***************************************************************************)
(* The boxes and the end of a test.                                        *)
(***************************************************************************)
\* A box changes the queue and the boxes only.
LEMMA SetBoxKeeps ==
  ASSUME NEW h, IsTool(h), NEW t, NEW v
  PROVE  Keeps(SetBox(h, t, v), h, {"q", "box"})
<1>1. ASSUME NEW g, IsTool(g), NEW q, NEW B
      PROVE  /\ Keeps(g, g, {"q", "box"}) /\ Keeps([g EXCEPT !.q = q], g, {"q", "box"})
             /\ Keeps([g EXCEPT !.box = B], g, {"q", "box"})
             /\ Keeps([g EXCEPT !.q = q, !.box = B], g, {"q", "box"})
  BY <1>1 DEF IsTool, Fields, Keeps
<1>2. ASSUME NEW g, IsTool(g) PROVE Keeps(Checked(g, t), g, {"q", "box"})
  <2> DEFINE q1 == Append(g.q, t)
             q2 == RemoveFirst(Append(g.q, t), Twin(t))
             B  == g.box \ {Twin(t)}
  <2>1. \/ Checked(g, t) = g
        \/ Checked(g, t) = [g EXCEPT !.q = q1]
        \/ Checked(g, t) = [g EXCEPT !.q = q2, !.box = B]
    BY DEF Checked
  <2> HIDE DEF q1, q2, B
  <2>2. Keeps(g, g, {"q", "box"}) /\ Keeps([g EXCEPT !.q = q1], g, {"q", "box"})
    BY <1>1, <1>2, Zenon
  <2>3. Keeps([g EXCEPT !.q = q2, !.box = B], g, {"q", "box"})
    BY <1>1, <1>2, Zenon
  <2> QED
    BY <2>1, <2>2, <2>3, Zenon
<1>3. ASSUME NEW g, IsTool(g) PROVE Keeps(Unchecked(g, t), g, {"q", "box"})
  <2> DEFINE q == RemoveFirst(g.q, t)
  <2>1. Unchecked(g, t) = [g EXCEPT !.q = q]
    BY DEF Unchecked
  <2> HIDE DEF q
  <2>2. Keeps([g EXCEPT !.q = q], g, {"q", "box"})
    BY <1>1, <1>3, Zenon
  <2> QED
    BY <2>1, <2>2, Zenon
<1> DEFINE B == h.box \cup {t}
           C == h.box \ {t}
           on == [h EXCEPT !.box = B]
           off == [h EXCEPT !.box = C]
<1>4. SetBox(h, t, v) \in {h, Checked(on, t), Unchecked(off, t)}
  BY DEF SetBox
<1> HIDE DEF B, C
<1>5. Keeps(h, h, {"q", "box"}) /\ Keeps(on, h, {"q", "box"}) /\ Keeps(off, h, {"q", "box"})
  BY <1>1
<1> HIDE DEF on, off
<1>6. Keeps(Checked(on, t), on, {"q", "box"}) /\ Keeps(Unchecked(off, t), off, {"q", "box"})
  BY <1>2, <1>3, <1>5 DEF Keeps
<1>7. Keeps(Checked(on, t), h, {"q", "box"}) /\ Keeps(Unchecked(off, t), h, {"q", "box"})
  BY <1>5, <1>6 DEF Keeps
<1> QED
  BY <1>4, <1>5, <1>7

LEMMA KeepsBox ==
  ASSUME NEW f, NEW g, NEW h, Keeps(f, g, {"q", "box"}), Keeps(g, h, {"q", "box"})
  PROVE  Keeps(f, h, {"q", "box"})
  BY DEF Keeps

LEMMA BoxKeeps ==
  ASSUME NEW h, IsTool(h), NEW t
  PROVE  /\ Keeps(Enable(h, t), h, {"q", "box"}) /\ Keeps(Disable(h, t), h, {"q", "box"})
         /\ Keeps(Toggle(h, t), h, {"q", "box"})
<1>1. Keeps(SetBox(h, t, FALSE), h, {"q", "box"})
        /\ Keeps(SetBox(h, t, t \notin h.box), h, {"q", "box"})
  BY SetBoxKeeps
<1>3. IsTool(SetBox(h, t, FALSE))
  BY <1>1 DEF Keeps
<1>2. Keeps(SetBox(SetBox(h, t, FALSE), t, TRUE), SetBox(h, t, FALSE), {"q", "box"})
  BY <1>3, SetBoxKeeps
<1> QED
  BY <1>1, <1>2, KeepsBox DEF Enable, Disable, Toggle

LEMMA SerialKeeps ==
  ASSUME NEW h, IsTool(h), NEW cap, NEW mod
  PROVE  Keeps(ForSerial(h, cap, mod), h, {"q", "box"})
<1> DEFINE on(d) == [PlainTest("PLC", d) EXCEPT !.sweep = mod]
           off(d) == [PlainTest("PLC", d) EXCEPT !.sweep = ~mod]
           g1 == Enable(h, on("RX"))
           g2 == Enable(g1, on("TX"))
           g3 == Disable(g2, off("RX"))
           g4 == Disable(g3, off("TX"))
<1>1. ForSerial(h, cap, mod) = IF cap # "RF_PLC" THEN h ELSE g4
  BY DEF ForSerial
<1> HIDE DEF on, off
<1>2. Keeps(g1, h, {"q", "box"})
  BY BoxKeeps
<1> HIDE DEF g1
<1>3. Keeps(g2, h, {"q", "box"})
  BY <1>2, BoxKeeps, KeepsBox DEF Keeps
<1> HIDE DEF g2
<1>4. Keeps(g3, h, {"q", "box"})
  BY <1>3, BoxKeeps, KeepsBox DEF Keeps
<1> HIDE DEF g3
<1>5. Keeps(g4, h, {"q", "box"})
  BY <1>4, BoxKeeps, KeepsBox DEF Keeps
<1> HIDE DEF g4
<1>6. Keeps(h, h, {"q", "box"})
  BY DEF Keeps
<1> QED
  BY <1>1, <1>5, <1>6, Zenon

LEMMA FillKeeps ==
  ASSUME NEW h, IsTool(h), NEW cap
  PROVE  Keeps(EnableTests2(h, cap), h, {"q", "box"}) /\ Keeps(Refill(h, cap), h, {"q", "box"})
<1> DEFINE i == IF cap = "PLC" THEN "PLC" ELSE "RF"
           q == <<SweepTest(i, "TX"), SweepTest(i, "RX")>>
           B == h.box \cup ToSet(q)
           g1 == SetBox(h, SweepTest(i, "TX"), TRUE)
           g2 == SetBox(g1, SweepTest(i, "RX"), TRUE)
<1>1. EnableTests2(h, cap) = g2 /\ Refill(h, cap) = [h EXCEPT !.q = q, !.box = B]
  BY DEF EnableTests2, Refill
<1> HIDE DEF i, q, B
<1>2. Keeps(g1, h, {"q", "box"})
  BY SetBoxKeeps
<1> HIDE DEF g1
<1>5. IsTool(g1)
  BY <1>2 DEF Keeps
<1>3. Keeps(g2, h, {"q", "box"})
  <2>1. Keeps(g2, g1, {"q", "box"})
    BY <1>5, SetBoxKeeps
  <2> QED
    BY <1>2, <2>1, KeepsBox
<1> HIDE DEF g2
<1>4. Keeps([h EXCEPT !.q = q, !.box = B], h, {"q", "box"})
  BY DEF IsTool, Fields, Keeps
<1> QED
  BY <1>1, <1>3, <1>4

\* enableUI with an empty queue: the buttons come back, the queue stays empty.
LEMMA EnableKeeps ==
  ASSUME NEW h, IsTool(h), h.q = <<>>
  PROVE  /\ Keeps(enableUI(h), h, {"q", "box", "stopOn", "runOn", "boxOn"})
         /\ enableUI(h).q = <<>> /\ enableUI(h).stopOn = FALSE /\ enableUI(h).runOn = TRUE
<1> DEFINE g0 == [h EXCEPT !.stopOn = FALSE, !.runOn = TRUE, !.boxOn = Test]
           g1 == Disable(g0, PlainTest("RF", "TX"))
           g2 == Disable(g1, PlainTest("RF", "RX"))
           g3 == Disable(g2, PlainTest("PLC", "TX"))
           g4 == Disable(g3, PlainTest("PLC", "RX"))
<1>1. enableUI(h) = g4
  BY DEF enableUI, UncheckPlain
<1>2. ASSUME NEW g, IsTool(g), g.q = <<>>, NEW t
      PROVE  Keeps(Disable(g, t), g, {"q", "box"}) /\ Disable(g, t).q = <<>>
  <2>1. Keeps(Disable(g, t), g, {"q", "box"})
    BY <1>2, BoxKeeps
  <2> DEFINE B == g.box \ {t}
             f == [g EXCEPT !.box = B]
  <2>2. Disable(g, t) \in {g, Unchecked(f, t)}
    BY DEF Disable, SetBox
  <2> HIDE DEF B
  <2>3. IsTool(f) /\ f.q = <<>>
    BY <1>2 DEF IsTool, Fields
  <2> HIDE DEF f
  <2>4. RemoveFirst(f.q, t) = <<>>
    BY <2>3 DEF RemoveFirst
  <2>5. Unchecked(f, t).q = <<>>
    BY <2>3, <2>4 DEF Unchecked, IsTool, Fields
  <2> QED
    BY <1>2, <2>1, <2>2, <2>5
<1>3. /\ Keeps(g0, h, {"q", "box", "stopOn", "runOn", "boxOn"})
      /\ g0.q = <<>> /\ g0.stopOn = FALSE /\ g0.runOn = TRUE
  BY DEF IsTool, Fields, Keeps
<1> HIDE DEF g0
<1>4. Keeps(g1, g0, {"q", "box"}) /\ g1.q = <<>>
  BY <1>2, <1>3 DEF Keeps
<1> HIDE DEF g1
<1>5. Keeps(g2, g0, {"q", "box"}) /\ g2.q = <<>>
  BY <1>2, <1>4, KeepsBox DEF Keeps
<1> HIDE DEF g2
<1>6. Keeps(g3, g0, {"q", "box"}) /\ g3.q = <<>>
  BY <1>2, <1>5, KeepsBox DEF Keeps
<1> HIDE DEF g3
<1>7. Keeps(g4, g0, {"q", "box"}) /\ g4.q = <<>>
  BY <1>2, <1>6, KeepsBox DEF Keeps
<1> HIDE DEF g4
<1>8. g4.stopOn = FALSE /\ g4.runOn = TRUE
  BY <1>3, <1>7 DEF Keeps, Fields
<1>9. Keeps(g4, h, {"q", "box", "stopOn", "runOn", "boxOn"})
  BY <1>3, <1>7 DEF Keeps
<1> QED
  BY <1>1, <1>7, <1>8, <1>9

\* The sweep parameters when the test at the head is over, and when t begins.
Over(h) == [h.params EXCEPT ![Head(h.q).intf] = IF Head(h.q).sweep THEN 0 ELSE @]

Begun(p, t) == IF t.sweep THEN [p EXCEPT ![t.intf] = @ + SweepLen[t.intf]] ELSE p

LEMMA BeginReady ==
  ASSUME NEW h, Ready(h), h.out = NoSends, NEW t
  PROVE  LET g == BeginTest(h, t)
         IN  /\ Keeps(g, h, {"params", "sweepTestRunning", "out"})
             /\ g.params = Begun(h.params, t)
             /\ SendsOne(g, Receiver(t), Command("PREPARE", PlainOf(t), Execution(g)))
<1> DEFINE p == [h.params EXCEPT ![t.intf] = @ + SweepLen[t.intf]]
           k == [h EXCEPT !.params = p, !.sweepTestRunning = TRUE]
           f == IF t.sweep THEN k ELSE h
           g == Send(f, Receiver(t), "PREPARE", PlainOf(t))
<1>1. BeginTest(h, t) = g
  BY DEF BeginTest, FirstPrepared
<1>2. Begun(h.params, t) = IF t.sweep THEN p ELSE h.params
  BY DEF Begun
<1> HIDE DEF p
<1>3. IsTool(h)
  BY DEF Ready
<1>4. Keeps(k, h, {"params", "sweepTestRunning"}) /\ k.params = p
  BY <1>3 DEF IsTool, Fields, Keeps
<1>5. Keeps(h, h, {"params", "sweepTestRunning"})
  BY <1>3 DEF Keeps
<1> HIDE DEF k
<1>6. Keeps(f, h, {"params", "sweepTestRunning"}) /\ f.params = Begun(h.params, t)
  BY <1>2, <1>4, <1>5
<1> HIDE DEF f
<1>7. Ready(f)
  BY <1>6, KeepsReady
<1>8. f.out = NoSends
  BY <1>6 DEF Keeps, Fields
<1>9. Receiver(t) \in Board
  BY BoardFacts
<1>10. /\ Keeps(g, f, {"out"})
       /\ SendsOne(g, Receiver(t), Command("PREPARE", PlainOf(t), Execution(f)))
  BY <1>7, <1>8, <1>9, SendReady
<1> HIDE DEF g
<1>11. Execution(g) = Execution(f)
  BY <1>10, KeepsExecution
<1>12. g.params = f.params
  BY <1>10 DEF Keeps, Fields
<1>13. Keeps(g, h, {"params", "sweepTestRunning", "out"})
  BY <1>6, <1>10 DEF Keeps
<1> QED
  BY <1>1, <1>6, <1>10, <1>11, <1>12, <1>13

\* With both boards listed nothing is scanned.
LEMMA ListReady ==
  ASSUME NEW h, Ready(h)
  PROVE  ~FewClients(h) /\ getSelectedClientList(h) = h
<1>1. h.listed["DUT"] = 1 /\ h.listed["REF"] = 1
  BY DEF Ready, Board
<1> QED
  BY <1>1 DEF FewClients, getSelectedClientList

LEMMA FlashReady ==
  ASSUME NEW h, Ready(h), h.out = NoSends
  PROVE  LET g == flashParams(h)
         IN  /\ Keeps(g, h, {"out"})
             /\ \/ g = h /\ SendsNone(g)
                \/ /\ h.summary \notin {"none", "new"} /\ AllPassed(h)
                   /\ SendsOne(g, "DUT", Command("FLASH_PARAM", NoTest, Execution(h)))
<1> DEFINE g == Send(h, "DUT", "FLASH_PARAM", NoTest)
<1>1. "DUT" \in Board
  BY DEF Board
<1>2. Keeps(g, h, {"out"}) /\ SendsOne(g, "DUT", Command("FLASH_PARAM", NoTest, Execution(h)))
  BY <1>1, SendReady
<1> HIDE DEF g
<1>3. Keeps(h, h, {"out"}) /\ SendsNone(h)
  BY DEF Keeps, Ready, SendsNone, NoSends
<1>4. getSelectedClientList(h) = h
  BY ListReady
<1>5. \/ flashParams(h) = h
      \/ flashParams(h) = g /\ h.summary \notin {"none", "new"} /\ AllPassed(h)
  BY <1>4 DEF flashParams, g
<1> QED
  BY <1>2, <1>3, <1>5

Entry(h, m, ok) ==
  [test |-> Head(h.q), ok |-> ok, from |-> m.stats.from, ex |-> Execution(h)]

Recorded(g, h, m, ok) == g.tests = Append(h.tests, Entry(h, m, ok))

\* What a result does: the next entry of a sweep, the next test, or the end.
NextEntry(g, h) ==
  /\ Head(h.q).sweep /\ h.params[Head(h.q).intf] > 1
  /\ Keeps(g, h, {"status", "out", "tests", "params"})
  /\ g.params = [h.params EXCEPT ![Head(h.q).intf] = @ - 1]
  /\ SendsOne(g, Receiver(Head(h.q)), Command("PREPARE", PlainOf(Head(h.q)), Execution(g)))

NextTest(g, h) ==
  /\ Head(h.q).sweep => h.params[Head(h.q).intf] = 1
  /\ Tail(h.q) # <<>> /\ g.q = Tail(h.q)
  /\ Keeps(g, h, {"q", "status", "out", "tests", "params", "testRunning", "sweepTestRunning"})
  /\ g.params = Begun(Over(h), Head(g.q))
  /\ SendsOne(g, Receiver(Head(g.q)), Command("PREPARE", PlainOf(Head(g.q)), Execution(g)))

\* The queue for the next board.
NextBoard ==
  LET i == IF Capability = "PLC" THEN "PLC" ELSE "RF"
  IN  <<SweepTest(i, "TX"), SweepTest(i, "RX")>>

LastTest(g, h) ==
  /\ Head(h.q).sweep => h.params[Head(h.q).intf] = 1
  /\ Tail(h.q) = <<>> /\ g.stopOn = FALSE /\ g.runOn /\ g.params = Over(h) /\ g.q = NextBoard
  /\ Keeps(g, h, {"q", "box", "status", "out", "tests", "params", "testRunning",
                  "sweepTestRunning", "stopOn", "runOn", "boxOn", "summary"})
  /\ \/ SendsNone(g)
     \/ /\ AllPassed(g)
        /\ SendsOne(g, "DUT", Command("FLASH_PARAM", NoTest, Execution(g)))

LEMMA KeepsWeaker ==
  ASSUME NEW g, NEW h, NEW F, Keeps(g, h, F), NEW G, F \subseteq G
  PROVE  Keeps(g, h, G)
  BY DEF Keeps

LEMMA FinishReady ==
  ASSUME NEW r, Ready(r), r.out = NoSends, Head(r.q) \in Test
  PROVE  LET g == FinishTest(r)
         IN  /\ g.status.test # NoTest
             /\ Tail(r.q) # <<>> =>
                  /\ g.q = Tail(r.q)
                  /\ Keeps(g, r, {"q", "status", "out", "params", "testRunning",
                                  "sweepTestRunning"})
                  /\ g.params = Begun(Over(r), Head(g.q))
                  /\ SendsOne(g, Receiver(Head(g.q)),
                              Command("PREPARE", PlainOf(Head(g.q)), Execution(g)))
             /\ Tail(r.q) = <<>> =>
                  /\ g.stopOn = FALSE /\ g.runOn /\ g.params = Over(r) /\ g.q = NextBoard
                  /\ Keeps(g, r, {"q", "box", "status", "out", "params", "testRunning",
                                  "sweepTestRunning", "stopOn", "runOn", "boxOn", "summary"})
                  /\ \/ SendsNone(g)
                     \/ /\ AllPassed(g)
                        /\ SendsOne(g, "DUT", Command("FLASH_PARAM", NoTest, Execution(g)))
<1> DEFINE t == Head(r.q)
           p == [r.params EXCEPT ![t.intf] = IF t.sweep THEN 0 ELSE @]
           d == [r EXCEPT !.q = Tail(@), !.testRunning = FALSE, !.params = p]
           x == TestsDone(d)
           w == IF t.sweep THEN FALSE ELSE x.sweepTestRunning
           y == [x EXCEPT !.sweepTestRunning = w]
           v == Status(PlainOf(t), "GET_RESULT_CNF", "DUT")
           z == [y EXCEPT !.status = v]
           g == IF z.q # <<>> THEN BeginTest(z, Head(z.q)) ELSE Refill(z, Capability)
<1>1. FinishTest(r) = g
  BY DEF FinishTest, Continue, TestStep
<1>2. IsTool(r) /\ p = Over(r)
  BY DEF Ready, Over
<1> HIDE DEF p
<1>3. Keeps(d, r, {"q", "testRunning", "params"}) /\ d.q = Tail(r.q) /\ d.params = p
  BY <1>2 DEF IsTool, Fields, Keeps
<1> HIDE DEF d
<1>4. Ready(d)
  BY <1>3, KeepsReady
<1>5. d.out = NoSends /\ IsTool(d)
  BY <1>3 DEF Keeps, Fields
<1>0. v.test # NoTest
  BY PlainFacts DEF Status
<1>6. ASSUME IsTool(x)
      PROVE  /\ Keeps(z, x, {"sweepTestRunning", "status"}) /\ z.status.test # NoTest
             /\ z.q = x.q /\ z.params = x.params /\ z.out = x.out
  <2> HIDE DEF x, w, v
  <2>1. Keeps(y, x, {"sweepTestRunning"})
    BY <1>6 DEF IsTool, Fields, Keeps
  <2> HIDE DEF y
  <2>2. Keeps(z, y, {"status"}) /\ z.status = v
    BY <2>1 DEF IsTool, Fields, Keeps
  <2> HIDE DEF z
  <2>3. Keeps(z, x, {"sweepTestRunning", "status"})
    BY <2>1, <2>2 DEF Keeps
  <2> QED
    BY <1>0, <2>2, <2>3 DEF Keeps, Fields
<1>7. ASSUME Tail(r.q) # <<>>
      PROVE  /\ g.status.test # NoTest /\ g.q = Tail(r.q)
             /\ Keeps(g, r, {"q", "status", "out", "params", "testRunning", "sweepTestRunning"})
             /\ g.params = Begun(Over(r), Head(g.q))
             /\ SendsOne(g, Receiver(Head(g.q)),
                         Command("PREPARE", PlainOf(Head(g.q)), Execution(g)))
  <2>1. x = d
    BY <1>3, <1>7 DEF TestsDone
  <2>2. /\ Keeps(z, d, {"sweepTestRunning", "status"}) /\ z.status.test # NoTest
        /\ z.q = d.q /\ z.params = p /\ z.out = NoSends
    BY <1>3, <1>5, <1>6, <2>1
  <2> HIDE DEF z
  <2>3. Ready(z)
    BY <1>4, <2>2, KeepsReady
  <2>4. g = BeginTest(z, Head(z.q))
    BY <1>3, <1>7, <2>2
  <2>5. /\ Keeps(g, z, {"params", "sweepTestRunning", "out"})
        /\ g.params = Begun(z.params, Head(z.q))
        /\ SendsOne(g, Receiver(Head(z.q)), Command("PREPARE", PlainOf(Head(z.q)), Execution(g)))
    BY <2>2, <2>3, <2>4, BeginReady
  <2> HIDE DEF g
  <2>6. g.q = z.q /\ g.status = z.status
    BY <2>5 DEF Keeps, Fields
  <2>7. Keeps(g, r, {"q", "status", "out", "params", "testRunning", "sweepTestRunning"})
    BY <1>3, <2>2, <2>5 DEF Keeps
  <2> QED
    BY <1>2, <1>3, <2>2, <2>5, <2>6, <2>7
<1>8. ASSUME Tail(r.q) = <<>>
      PROVE  /\ g.status.test # NoTest /\ g.stopOn = FALSE /\ g.runOn /\ g.params = Over(r) /\ g.q = NextBoard
             /\ Keeps(g, r, {"q", "box", "status", "out", "params", "testRunning",
                             "sweepTestRunning", "stopOn", "runOn", "boxOn", "summary"})
             /\ \/ SendsNone(g)
                \/ /\ AllPassed(g)
                   /\ SendsOne(g, "DUT", Command("FLASH_PARAM", NoTest, Execution(g)))
  <2> DEFINE n == enableUI(d)
             u == [n EXCEPT !.summary = "done"]
  <2>1. x = flashParams(u)
    BY <1>3, <1>8 DEF TestsDone
  <2>16. /\ Keeps(n, d, {"q", "box", "stopOn", "runOn", "boxOn"})
         /\ n.q = <<>> /\ n.stopOn = FALSE /\ n.runOn = TRUE
    BY <1>3, <1>5, <1>8, EnableKeeps
  <2> HIDE DEF n
  <2>17. Keeps(u, n, {"summary"})
    BY <2>16 DEF IsTool, Fields, Keeps
  <2> HIDE DEF u
  <2>2. /\ Keeps(u, d, {"q", "box", "stopOn", "runOn", "boxOn", "summary"})
        /\ u.q = <<>> /\ u.stopOn = FALSE /\ u.runOn = TRUE
    BY <2>16, <2>17 DEF Keeps, Fields
  <2>3. Ready(u)
    BY <1>4, <2>2, KeepsReady
  <2>4. u.out = NoSends
    BY <1>5, <2>2 DEF Keeps, Fields
  <2>5. /\ Keeps(x, u, {"out"})
        /\ \/ x = u /\ SendsNone(x)
           \/ /\ AllPassed(u)
              /\ SendsOne(x, "DUT", Command("FLASH_PARAM", NoTest, Execution(u)))
    BY <2>1, <2>3, <2>4, FlashReady
  <2>6. /\ Keeps(z, x, {"sweepTestRunning", "status"}) /\ z.status.test # NoTest
        /\ z.q = x.q /\ z.out = x.out
    BY <1>6, <2>5 DEF Keeps
  <2> HIDE DEF z, x
  <2>7. z.q = <<>> /\ IsTool(z)
    BY <2>2, <2>5, <2>6 DEF Keeps, Fields
  <2>8. g = Refill(z, Capability)
    BY <2>7
  <2>9. Keeps(g, z, {"q", "box"})
    BY <2>7, <2>8, FillKeeps
  <2>15. g.q = NextBoard
    BY <2>7, <2>8 DEF Refill, NextBoard, IsTool, Fields
  <2> HIDE DEF g
  <2>18. g.status = z.status
    BY <2>9 DEF Keeps, Fields
  <2>10. Keeps(g, u, {"q", "box", "sweepTestRunning", "status", "out"}) /\ g.out = x.out
    BY <2>5, <2>6, <2>9 DEF Keeps, Fields
  <2>11. Keeps(g, r, {"q", "box", "status", "out", "params", "testRunning",
                      "sweepTestRunning", "stopOn", "runOn", "boxOn", "summary"})
    BY <1>3, <2>2, <2>10 DEF Keeps
  <2>12. g.stopOn = u.stopOn /\ g.runOn = u.runOn /\ g.params = u.params /\ g.tests = u.tests
            /\ u.params = d.params
    BY <2>2, <2>10 DEF Keeps, Fields
  <2>13. Execution(g) = Execution(u) /\ (AllPassed(u) => AllPassed(g))
    <3>1. Execution(g) = Execution(u)
      BY <2>10, KeepsExecution
    <3> QED
      BY <2>12, <3>1 DEF AllPassed
  <2>14. /\ SendsNone(x) => SendsNone(g)
         /\ \A m : SendsOne(x, "DUT", m) => SendsOne(g, "DUT", m)
    BY <2>10 DEF SendsNone, SendsOne
  <2> QED
    BY <1>2, <1>3, <2>2, <2>5, <2>6, <2>11, <2>12, <2>13, <2>14, <2>15, <2>18
<1> HIDE DEF g
<1> QED
  BY <1>1, <1>7, <1>8, Zenon

LEMMA ResultReady ==
  ASSUME NEW h, Ready(h), h.out = NoSends, h.q # <<>>, Head(h.q) \in Test,
         h.params \in [Intf -> Nat], Head(h.q).sweep => h.params[Head(h.q).intf] > 0,
         NEW b, NEW m, NEW ok
  PROVE  LET g == GetResultCnf(h, b, m, ok)
         IN  /\ Recorded(g, h, m, ok)
             /\ NextEntry(g, h) \/ NextTest(g, h) \/ LastTest(g, h)
             /\ h.status.test # NoTest => g.status.test # NoTest
<1> DEFINE t == Head(h.q)
           T == Append(h.tests, Entry(h, m, ok))
           r == [h EXCEPT !.tests = T]
           g == GetResultCnf(h, b, m, ok)
<1>1. t.intf \in Intf /\ t.sweep \in BOOLEAN /\ t \in Test
  BY PlainFacts
<1>2. Record(h, m, ok) = r
  BY ListReady DEF Record, Entry
<1>3. Receiver(t) \in Board /\ FirstPrepared(t) = Receiver(t)
  BY BoardFacts DEF FirstPrepared
<1> HIDE DEF T
<1>4. Keeps(r, h, {"tests"}) /\ r.tests = T
  BY DEF Ready, IsTool, Fields, Keeps
<1>5. h.params[t.intf] \in Nat
  BY <1>1
<1> HIDE DEF r
<1>6. Ready(r)
  BY <1>4, KeepsReady
<1>7. r.out = NoSends /\ r.q = h.q /\ r.params = h.params
  BY <1>4 DEF Keeps, Fields
<1>8. CASE t.sweep /\ h.params[t.intf] > 1
  <2> DEFINE p == [h.params EXCEPT ![t.intf] = @ - 1]
             d == [r EXCEPT !.params = p]
  <2>1. g = Continue([r EXCEPT !.params[t.intf] = @ - 1], t, "PREPARE", Receiver(t))
    BY <1>2, <1>3, <1>5, <1>8 DEF GetResultCnf
  <2>2. [r EXCEPT !.params[t.intf] = @ - 1] = [r EXCEPT !.params = [r.params EXCEPT ![t.intf] = @ - 1]]
    OBVIOUS
  <2>3. g = Continue(d, t, "PREPARE", Receiver(t))
    BY <1>7, <2>1, <2>2
  <2> HIDE DEF p
  <2>4. Keeps(d, r, {"params"}) /\ d.params = p
    BY <1>6 DEF Ready, IsTool, Fields, Keeps
  <2> HIDE DEF d
  <2>5. Ready(d)
    BY <1>6, <2>4, KeepsReady
  <2>6. d.out = NoSends /\ d.tests = T
    BY <1>4, <1>7, <2>4 DEF Keeps, Fields
  <2>13. Goes(g, d) /\ SendsOne(g, Receiver(t), Command("PREPARE", PlainOf(t), Execution(d)))
    BY <1>1, <1>3, <2>3, <2>5, <2>6, ContinueReady
  <2>7. Keeps(g, d, {"status", "out"})
          /\ SendsOne(g, Receiver(t), Command("PREPARE", PlainOf(t), Execution(d)))
    BY <2>13 DEF Goes
  <2>14. d.status = h.status
    BY <1>4, <2>4 DEF Keeps, Fields
  <2>15. h.status.test # NoTest => g.status.test # NoTest
    BY <2>13, <2>14 DEF Goes
  <2> HIDE DEF g
  <2>8. g.tests = T /\ g.params = p
    BY <2>4, <2>6, <2>7 DEF Keeps, Fields
  <2>9. Execution(g) = Execution(d)
    BY <2>7, KeepsExecution
  <2>10. Keeps(g, h, {"status", "out", "tests", "params"})
    BY <1>4, <2>4, <2>7 DEF Keeps
  <2>11. Recorded(g, h, m, ok)
    BY <2>8 DEF Recorded, T
  <2>12. NextEntry(g, h)
    BY <1>8, <2>7, <2>8, <2>9, <2>10 DEF NextEntry, p
  <2> QED
    BY <2>11, <2>12, <2>15 DEF g
<1>9. CASE ~t.sweep \/ h.params[t.intf] = 1
  <2>1. g = FinishTest(r)
    BY <1>1, <1>2, <1>5, <1>9 DEF GetResultCnf
  <2>2. /\ g.status.test # NoTest
        /\ Tail(r.q) # <<>> =>
             /\ g.q = Tail(r.q)
             /\ Keeps(g, r, {"q", "status", "out", "params", "testRunning",
                             "sweepTestRunning"})
             /\ g.params = Begun(Over(r), Head(g.q))
             /\ SendsOne(g, Receiver(Head(g.q)),
                         Command("PREPARE", PlainOf(Head(g.q)), Execution(g)))
        /\ Tail(r.q) = <<>> =>
             /\ g.stopOn = FALSE /\ g.runOn /\ g.params = Over(r) /\ g.q = NextBoard
             /\ Keeps(g, r, {"q", "box", "status", "out", "params", "testRunning",
                             "sweepTestRunning", "stopOn", "runOn", "boxOn", "summary"})
             /\ \/ SendsNone(g)
                \/ /\ AllPassed(g)
                   /\ SendsOne(g, "DUT", Command("FLASH_PARAM", NoTest, Execution(g)))
    <3>1. Head(r.q) \in Test
      BY <1>1, <1>7
    <3> HIDE DEF g
    <3> QED
      BY <1>6, <1>7, <2>1, <3>1, FinishReady, Zenon
  <2>3. Over(r) = Over(h)
    BY <1>7 DEF Over
  <2> HIDE DEF g
  <2>4. t.sweep => h.params[t.intf] = 1
    BY <1>9
  <2>5. CASE Tail(h.q) # <<>>
    <3>1. Keeps(g, r, {"q", "status", "out", "params", "testRunning", "sweepTestRunning"})
      BY <1>7, <2>2, <2>5
    <3>2. g.tests = T
      BY <1>4, <3>1 DEF Keeps, Fields
    <3>3. Keeps(g, h, {"q", "status", "out", "tests", "params", "testRunning", "sweepTestRunning"})
      BY <1>4, <3>1 DEF Keeps
    <3>4. NextTest(g, h)
      BY <1>7, <2>2, <2>3, <2>4, <2>5, <3>3 DEF NextTest
    <3> QED
      BY <2>2, <3>2, <3>4 DEF Recorded, T, g
  <2>6. CASE Tail(h.q) = <<>>
    <3>1. Keeps(g, r, {"q", "box", "status", "out", "params", "testRunning",
                       "sweepTestRunning", "stopOn", "runOn", "boxOn", "summary"})
      BY <1>7, <2>2, <2>6
    <3>2. g.tests = T
      BY <1>4, <3>1 DEF Keeps, Fields
    <3>3. Keeps(g, h, {"q", "box", "status", "out", "tests", "params", "testRunning",
                       "sweepTestRunning", "stopOn", "runOn", "boxOn", "summary"})
      BY <1>4, <3>1 DEF Keeps
    <3>4. LastTest(g, h)
      BY <1>7, <2>2, <2>3, <2>4, <2>6, <3>3 DEF LastTest
    <3> QED
      BY <2>2, <3>2, <3>4 DEF Recorded, T, g
  <2> QED
    BY <2>5, <2>6
<1> QED
  BY <1>1, <1>5, <1>8, <1>9

\* The three things a frame from a listed board does.  Without a test FLASH_PARAM_CNF
\* ends the process.
Confirms(g, k) ==
  /\ Keeps(g, tool, {"out", "dead"})
  /\ tool.status.test # NoTest => Keeps(g, tool, {"out"})
  /\ \/ SendsOne(g, "DUT", Command("SPI_DISCONNECT", NoTest, Execution(tool)))
     \/ SendsNone(g)
  /\ \A c \in Board : Benign(Lines[c], k[c])

Passes(g, k) ==
  /\ UnderWay(tool, Lines) /\ Goes(g, tool)
  /\ Token(PlainOf(Head(tool.q)), Execution(tool),
           Lines'[Receiver(Head(tool.q))], Lines'[Transmitter(Head(tool.q))])
  /\ \A c \in Board : NoFlash(k[c].down) => NoFlash(Lines'[c].down)

Ends(g, b, k) ==
  /\ UnderWay(tool, Lines) /\ Arrived(b, Head(up[b]), k)
  /\ \E ok \in Verdicts(tool, Head(up[b])) : Recorded(g, tool, Head(up[b]), ok)
  /\ NextEntry(g, tool) \/ NextTest(g, tool) \/ LastTest(g, tool)
  /\ tool.status.test # NoTest => g.status.test # NoTest

LEMMA WorkingReady ==
  ASSUME NInv, Working(tool, Lines)
  PROVE  Ready(tool) /\ tool.out = NoSends
  BY TypeFacts DEF NInv, Good, Working, Ready

LEMMA ReceiveCases ==
  ASSUME NInv, Working(tool, Lines), NEW b \in Board, ToolReceive(b)
  PROVE  \E g, k :
           /\ Finish(g) /\ Rest(g, used["run"]) /\ Sound(g)
           /\ Mid(k) /\ UNCHANGED <<fw, spi, used>>
           /\ Confirms(g, k) \/ Passes(g, k) \/ Ends(g, b, k)
<1>0. TInv /\ Ready(tool) /\ tool.out = NoSends
  BY WorkingReady DEF NInv
<1> DEFINE m == Head(up[b])
<1>1. PICK k, ok :
        /\ Mid(k) /\ ok \in Verdicts(tool, m)
        /\ Finish(Handled(tool, b, m, ok))
        /\ UNCHANGED <<fw, spi, used>> /\ up[b] # <<>> /\ m \in FrameType
        /\ \A c \in Board : c # b => Benign(Lines[c], k[c]) /\ up'[c] = up[c]
        /\ IsRead(Lines[b], k[b], m)
  BY <1>0, ReadStep
<1> DEFINE g == Handled(tool, b, m, ok)
<1>2. ok \in BOOLEAN
  <2>1. Verdicts(tool, m) \in SUBSET BOOLEAN
    BY DEF Verdicts
  <2> QED
    BY <1>1, <2>1
<1> HIDE DEF m
<1>3. Rest(g, used["run"]) /\ Sound(g)
  <2>1. tool.listed[b] < ListMax
    BY DEF ToolReceive, messageReceived
  <2>2. Rest(tool, used["run"]) /\ Sound(tool)
    BY <1>0, TypeFacts
  <2>3. Sound(g)
    BY <2>2, HandledSound
  <2>4. Rest(g, used["run"])
    BY <1>1, <1>2, <2>1, <2>2, HandledRest
  <2> QED
    BY <2>3, <2>4
<1>4. CASE m.id \in FlashCnf
  <2> DEFINE s == Send(tool, "DUT", "SPI_DISCONNECT", NoTest)
  <2>1. g \in {s, Crash(tool)}
    BY <1>4 DEF Handled, FlashParamCnf, FlashCnf
  <2>2. "DUT" \in Board
    BY DEF Board
  <2>6. /\ Keeps(s, tool, {"out"})
        /\ SendsOne(s, "DUT", Command("SPI_DISCONNECT", NoTest, Execution(tool)))
    BY <1>0, <2>2, SendReady
  <2> HIDE DEF s
  <2>7. Keeps(Crash(tool), tool, {"dead"}) /\ SendsNone(Crash(tool))
    BY <1>0 DEF Ready, IsTool, Fields, Keeps, Crash, SendsNone, NoSends
  <2>8. tool.status.test # NoTest => g = s
    BY <1>4 DEF Handled, FlashParamCnf, FlashCnf, s
  <2>3. /\ Keeps(g, tool, {"out", "dead"})
        /\ tool.status.test # NoTest => Keeps(g, tool, {"out"})
        /\ \/ SendsOne(g, "DUT", Command("SPI_DISCONNECT", NoTest, Execution(tool)))
           \/ SendsNone(g)
    <3>1. Keeps(s, tool, {"out", "dead"}) /\ Keeps(Crash(tool), tool, {"out", "dead"})
      BY <2>6, <2>7, KeepsWeaker
    <3> HIDE DEF g
    <3> QED
      BY <2>1, <2>6, <2>7, <2>8, <3>1, Zenon
  <2>4. \A c \in Board : Benign(Lines[c], k[c])
    BY <1>1 DEF IsRead
  <2>5. Confirms(g, k)
    BY <2>3, <2>4 DEF Confirms
  <2> QED
    BY <1>1, <1>3, <2>5
<1>5. CASE m.id \notin FlashCnf
  <2>1. UnderWay(tool, Lines)
    <3>1. ~Quiet(Lines[b])
      BY <1>1, <1>5 DEF IsRead
    <3> QED
      BY <3>1 DEF Working, Idling
  <2>2. \/ Passes(g, k) \/ Arrived(b, m, k)
    <3>1. \/ /\ Goes(Handled(tool, b, m, ok), tool)
             /\ Token(PlainOf(Head(tool.q)), Execution(tool),
                      Lines'[Receiver(Head(tool.q))], Lines'[Transmitter(Head(tool.q))])
             /\ \A c \in Board : NoFlash(k[c].down) => NoFlash(Lines'[c].down)
          \/ Arrived(b, m, k)
      BY <1>0, <1>1, <1>5, <2>1, ReceiveToken
    <3> QED
      BY <2>1, <3>1 DEF Passes
  <2>3. ASSUME Arrived(b, m, k) PROVE Ends(g, b, k)
    <3>1. m.id = "GET_RESULT_CNF"
      BY <2>3 DEF Arrived, ResultFrame, Frame
    <3>2. g = GetResultCnf(tool, b, m, ok)
      BY <3>1 DEF Handled
    <3>3. /\ tool.q # <<>>
          /\ Head(tool.q).sweep => tool.params[Head(tool.q).intf] > 0
      BY <2>1 DEF UnderWay
    <3>4. Head(tool.q) \in Test /\ tool.params \in [Intf -> Nat]
      BY <1>0, <3>3, HeadFacts DEF TInv, Rest
    <3>5. /\ Recorded(g, tool, m, ok)
          /\ NextEntry(g, tool) \/ NextTest(g, tool) \/ LastTest(g, tool)
          /\ tool.status.test # NoTest => g.status.test # NoTest
      BY <1>0, <3>2, <3>3, <3>4, ResultReady
    <3> QED
      BY <1>1, <2>1, <2>3, <3>5 DEF Ends, m
  <2> QED
    BY <1>1, <1>3, <2>2, <2>3
<1> QED
  BY <1>4, <1>5

\* The boards listed, and no FLASH_PARAM for the reference board, before and after.
LEMMA WorkingFields ==
  ASSUME NInv, Working(tool, Lines), NEW g, IsTool(g), Finish(g), NEW k, Mid(k),
         UNCHANGED <<fw, spi>>, NEW F, Keeps(g, tool, F),
         {"devicesUP", "listed"} \cap F = {},
         NoFlash(k["REF"].down) => NoFlash(Lines'["REF"].down),
         Idling(tool', Lines') \/ UnderWay(tool', Lines')
  PROVE  Good(tool, Lines)'
<1>0. /\ tool.devicesUP /\ (\A b \in Board : tool.listed[b] = 1)
      /\ NoFlash(Lines["REF"].down)
  BY DEF NInv, Good, Working
<1>1. tool'.out = NoSends /\ \A f \in Fields \ {"out"} : tool'[f] = g[f]
  BY FinishFields
<1>2. tool'.devicesUP = g.devicesUP /\ tool'.listed = g.listed
  BY <1>1 DEF Fields
<1>3. g.devicesUP = tool.devicesUP /\ g.listed = tool.listed
  BY DEF Keeps, Fields
<1>4. NoFlash(Lines'["REF"].down)
  <2>1. "REF" \in Board
    BY DEF Board
  <2>2. k["REF"].down = Lines["REF"].down
    BY <2>1, LineFacts DEF Mid
  <2> QED
    BY <1>0, <2>2
<1>5. Working(tool', Lines')
  BY <1>0, <1>2, <1>3, <1>4 DEF Working
<1>6. \A c \in Board : FwSound(Lines'[c].fw)
  BY LineFacts DEF NInv, Good
<1>7. Good(tool', Lines')
  BY <1>0, <1>1, <1>2, <1>3, <1>5, <1>6 DEF Good
<1> QED
  BY <1>7

LEMMA CommandsOf ==
  ASSUME NEW g, NEW n, Rest(g, n)
  PROVE  /\ \A t \in Plain, op \in {"PREPARE", "START", "STOP", "GET_RESULT"} :
              Command(op, t, Execution(g)) \in Cmd
         /\ Command("FLASH_PARAM", NoTest, Execution(g)) \in Cmd
         /\ Command("SPI_DISCONNECT", NoTest, Execution(g)) \in Cmd
         /\ \A op, t, e : Command(op, t, e).cmd = op
<1>1. Execution(g) \in Executions
  BY ExecutionType
<1> QED
  BY <1>1, CmdType DEF Command

LEMMA ConfirmLines ==
  ASSUME NInv, NEW g, Finish(g), NEW k, Mid(k), UNCHANGED <<fw, spi>>, Confirms(g, k)
  PROVE  \A c \in Board : Benign(k[c], Lines'[c])
<1>0. TInv /\ Rest(tool, used["run"])
  BY TypeFacts DEF NInv
<1> DEFINE m == Command("SPI_DISCONNECT", NoTest, Execution(tool))
<1>1. m \in Cmd /\ m.cmd = "SPI_DISCONNECT" /\ (SendsOne(g, "DUT", m) \/ SendsNone(g))
  BY <1>0, CommandsOf DEF Confirms
<1> HIDE DEF m
<1> QED
  BY <1>0, <1>1, SendsOneLines, SendsNoneLines

LEMMA ConfirmGood ==
  ASSUME NInv, Working(tool, Lines), NEW g, Finish(g), Rest(g, used["run"]), NEW k, Mid(k),
         UNCHANGED <<fw, spi>>, Confirms(g, k)
  PROVE  Good(tool, Lines)'
<1>0. IsTool(g) /\ Keeps(g, tool, {"out", "dead"})
  BY DEF Rest, Confirms
<1>2. \A c \in Board : Benign(k[c], Lines'[c])
  BY ConfirmLines
<1>3. Working(tool, Lines')
  <2>1. \A c \in Board : Benign(Lines[c], Lines'[c])
    BY <1>2, BenignTrans DEF Confirms
  <2> QED
    BY <2>1, WorkingBenign
<1>4. /\ tool'.stopOn = tool.stopOn /\ tool'.runOn = tool.runOn /\ tool'.boxOn = tool.boxOn
      /\ tool'.q = tool.q /\ tool'.params = tool.params /\ tool'.run = tool.run
      /\ tool'.tests = tool.tests
  BY <1>0, FinishFields DEF Keeps, Fields
<1>8. Execution(tool') = Execution(tool)
  BY <1>4 DEF Execution
<1>5. Idling(tool', Lines') \/ UnderWay(tool', Lines')
  BY <1>3, <1>4, <1>8 DEF Working, Idling, UnderWay
<1>6. NoFlash(k["REF"].down) => NoFlash(Lines'["REF"].down)
  BY <1>2 DEF Benign, Board
<1>7. {"devicesUP", "listed"} \cap {"out", "dead"} = {}
  OBVIOUS
<1> QED
  BY <1>0, <1>5, <1>6, <1>7, WorkingFields

LEMMA PassGood ==
  ASSUME NInv, Working(tool, Lines), NEW g, Finish(g), Rest(g, used["run"]), NEW k, Mid(k),
         UNCHANGED <<fw, spi>>, Passes(g, k)
  PROVE  Good(tool, Lines)'
<1>0. /\ IsTool(g) /\ Keeps(g, tool, {"status", "out"}) /\ UnderWay(tool, Lines)
      /\ Token(PlainOf(Head(tool.q)), Execution(tool),
               Lines'[Receiver(Head(tool.q))], Lines'[Transmitter(Head(tool.q))])
      /\ NoFlash(k["REF"].down) => NoFlash(Lines'["REF"].down)
  BY DEF Rest, Passes, Goes, Board
<1>1. /\ tool'.stopOn = tool.stopOn /\ tool'.runOn = tool.runOn /\ tool'.boxOn = tool.boxOn
      /\ tool'.q = tool.q /\ tool'.params = tool.params /\ tool'.run = tool.run
      /\ tool'.tests = tool.tests
  BY <1>0, FinishFields DEF Keeps, Fields
<1>2. Execution(tool') = Execution(tool)
  BY <1>1 DEF Execution
<1>3. UnderWay(tool', Lines')
  BY <1>0, <1>1, <1>2 DEF UnderWay
<1>4. {"devicesUP", "listed"} \cap {"status", "out"} = {}
  OBVIOUS
<1> QED
  BY <1>0, <1>3, <1>4, WorkingFields

\* The PREPARE of the next execution.
LEMMA Prepares ==
  ASSUME TInv, NEW g, Finish(g), IsTool(g), Execution(g) \in Executions, NEW k, Mid(k),
         UNCHANGED <<fw, spi>>, NEW s \in Test, \A c \in Board : Quiet(k[c]),
         SendsOne(g, Receiver(s), Command("PREPARE", PlainOf(s), Execution(g)))
  PROVE  /\ Token(PlainOf(s), Execution(tool'), Lines'[Receiver(s)], Lines'[Transmitter(s)])
         /\ NoFlash(k["REF"].down) => NoFlash(Lines'["REF"].down)
<1> DEFINE t == PlainOf(s)
           m == Command("PREPARE", t, Execution(g))
<1>1. t \in Plain
  BY PlainFacts
<1>2. m \in Cmd /\ m.cmd = "PREPARE"
  BY <1>1, CmdType DEF Command
<1>3. Receiver(s) \in Board /\ Transmitter(s) \in Board /\ Receiver(s) # Transmitter(s)
  BY DEF Receiver, Transmitter, Other, Board
<1>4. Execution(tool') = Execution(g)
  <2>2. tool'.run = g.run /\ tool'.tests = g.tests
    BY FinishFields DEF Fields
  <2> QED
    BY <2>2 DEF Execution
<1> HIDE DEF m, t
<1>5. /\ Asked(Lines'[Receiver(s)], m)
      /\ Quiet(Lines'[Transmitter(s)])
      /\ \A c \in Board : NoFlash(k[c].down) => NoFlash(Lines'[c].down)
  BY <1>2, <1>3, HandOver DEF m, t
<1>6. FirstPrepare(t, Execution(tool'), Lines'[Receiver(s)], Lines'[Transmitter(s)])
  BY <1>4, <1>5 DEF FirstPrepare, m
<1> QED
  BY <1>5, <1>6 DEF Token, Board, t

LEMMA EndGood ==
  ASSUME NInv, Working(tool, Lines), NEW g, Finish(g), Rest(g, used["run"]), Sound(g),
         NEW k, Mid(k), UNCHANGED <<fw, spi>>, NEW b \in Board, Ends(g, b, k)
  PROVE  Good(tool, Lines)'
<1>0. TInv /\ IsTool(g) /\ UnderWay(tool, Lines) /\ Execution(g) \in Executions
  BY ExecutionType DEF NInv, Rest, Ends
<1>1. /\ tool.stopOn /\ ~tool.runOn /\ tool.boxOn = {} /\ tool.q # <<>>
  BY <1>0 DEF UnderWay
<1>2. \A c \in Board : Quiet(k[c])
  <2>1. Board = {Receiver(Head(tool.q)), Transmitter(Head(tool.q))}
    BY <1>0, <1>1, HeadFacts
  <2> QED
    BY <2>1 DEF Ends, Arrived
<1>3. /\ tool'.stopOn = g.stopOn /\ tool'.runOn = g.runOn /\ tool'.boxOn = g.boxOn
      /\ tool'.q = g.q /\ tool'.params = g.params
  BY <1>0, FinishFields DEF Fields
<1>4. CASE NextEntry(g, tool)
  <2> DEFINE s == Head(tool.q)
             i == s.intf
  <2>1. /\ g.stopOn = tool.stopOn /\ g.runOn = tool.runOn /\ g.boxOn = tool.boxOn /\ g.q = tool.q
    BY <1>4 DEF NextEntry, Keeps, Fields
  <2>2. s \in Test /\ i \in Intf
    BY <1>0, <1>1, HeadFacts, PlainFacts
  <2>3. tool.params \in [Intf -> Nat]
    BY <1>0 DEF TInv, Rest
  <2> HIDE DEF s, i
  <2>4. g.params = [tool.params EXCEPT ![i] = @ - 1] /\ tool.params[i] > 1
    BY <1>4 DEF NextEntry, s, i
  <2>5. g.params[i] > 0
    <3>1. g.params[i] = tool.params[i] - 1
      BY <2>2, <2>3, <2>4
    <3>2. tool.params[i] \in Nat
      BY <2>2, <2>3
    <3> QED
      BY <2>4, <3>1, <3>2
  <2>6. SendsOne(g, Receiver(s), Command("PREPARE", PlainOf(s), Execution(g)))
    BY <1>4 DEF NextEntry, s
  <2>7. /\ Token(PlainOf(s), Execution(tool'), Lines'[Receiver(s)], Lines'[Transmitter(s)])
        /\ NoFlash(k["REF"].down) => NoFlash(Lines'["REF"].down)
    BY <1>0, <1>2, <2>2, <2>6, Prepares
  <2>8. UnderWay(tool', Lines')
    BY <1>1, <1>3, <2>1, <2>5, <2>7 DEF UnderWay, s, i
  <2>9. Keeps(g, tool, {"status", "out", "tests", "params"})
    BY <1>4 DEF NextEntry
  <2>10. {"devicesUP", "listed"} \cap {"status", "out", "tests", "params"} = {}
    OBVIOUS
  <2> QED
    BY <1>0, <2>7, <2>8, <2>9, <2>10, WorkingFields
<1>5. CASE NextTest(g, tool)
  <2> DEFINE s == Head(g.q)
             i == s.intf
  <2>1. /\ g.stopOn = tool.stopOn /\ g.runOn = tool.runOn /\ g.boxOn = tool.boxOn
    BY <1>5 DEF NextTest, Keeps, Fields
  <2>2. g.q # <<>>
    BY <1>5 DEF NextTest
  <2>3. s \in Test
    BY <2>2, HeadTest
  <2>4. i \in Intf
    BY <2>3, PlainFacts
  <2> HIDE DEF s, i
  <2>5. g.params = Begun(Over(tool), s)
    BY <1>5 DEF NextTest, s
  <2>6. g.params \in [Intf -> Nat]
    BY DEF Rest
  <2>7. s.sweep => g.params[i] > 0
    <3>1. Over(tool) \in [Intf -> Nat]
      <4>1. tool.params \in [Intf -> Nat]
        BY <1>0 DEF TInv, Rest
      <4> QED
        BY <4>1 DEF Over
    <3> HIDE DEF Over
    <3>2. s.sweep => g.params[i] = Over(tool)[i] + SweepLen[i]
      BY <2>4, <2>5, <3>1 DEF Begun, i
    <3>3. Over(tool)[i] \in Nat /\ SweepLen[i] \in Nat \ {0}
      BY <2>4, <3>1, ToolAssumption
    <3> QED
      BY <3>2, <3>3
  <2>8. SendsOne(g, Receiver(s), Command("PREPARE", PlainOf(s), Execution(g)))
    BY <1>5 DEF NextTest, s
  <2>9. /\ Token(PlainOf(s), Execution(tool'), Lines'[Receiver(s)], Lines'[Transmitter(s)])
        /\ NoFlash(k["REF"].down) => NoFlash(Lines'["REF"].down)
    BY <1>0, <1>2, <2>3, <2>8, Prepares
  <2>10. UnderWay(tool', Lines')
    BY <1>1, <1>3, <2>1, <2>2, <2>7, <2>9 DEF UnderWay, s, i
  <2>11. Keeps(g, tool, {"q", "status", "out", "tests", "params", "testRunning",
                         "sweepTestRunning"})
    BY <1>5 DEF NextTest
  <2>12. {"devicesUP", "listed"} \cap
           {"q", "status", "out", "tests", "params", "testRunning", "sweepTestRunning"} = {}
    OBVIOUS
  <2> QED
    BY <1>0, <2>9, <2>10, <2>11, <2>12, WorkingFields
<1>6. CASE LastTest(g, tool)
  <2>1. ~g.stopOn
    BY <1>6 DEF LastTest
  <2>2. (\A c \in Board : Quiet(Lines'[c]))
          /\ (NoFlash(k["REF"].down) => NoFlash(Lines'["REF"].down))
    <3>1. CASE SendsNone(g)
      BY <1>0, <1>2, <3>1, SendsNoneLines DEF Benign, Board
    <3>2. CASE SendsOne(g, "DUT", Command("FLASH_PARAM", NoTest, Execution(g)))
      <4> DEFINE m == Command("FLASH_PARAM", NoTest, Execution(g))
      <4>1. m \in Cmd /\ m.cmd \in FlashCmds
        BY CommandsOf DEF FlashCmds
      <4> HIDE DEF m
      <4>2. /\ \A c \in Board : c # "DUT" => Benign(k[c], Lines'[c])
            /\ Quiet(k["DUT"]) => Quiet(Lines'["DUT"])
        BY <1>0, <3>2, <4>1, SendsOneLines DEF m, Board
      <4> QED
        BY <1>2, <4>2 DEF Benign, Board
    <3> QED
      BY <1>6, <3>1, <3>2 DEF LastTest
  <2>3. Idling(tool', Lines')
    BY <1>3, <2>1, <2>2 DEF Idling
  <2>4. Keeps(g, tool, {"q", "box", "status", "out", "tests", "params", "testRunning",
                        "sweepTestRunning", "stopOn", "runOn", "boxOn", "summary"})
    BY <1>6 DEF LastTest
  <2>5. {"devicesUP", "listed"} \cap
           {"q", "box", "status", "out", "tests", "params", "testRunning",
            "sweepTestRunning", "stopOn", "runOn", "boxOn"} = {}
    OBVIOUS
  <2> QED
    BY <1>0, <2>2, <2>3, <2>4, <2>5, WorkingFields
<1> QED
  BY <1>4, <1>5, <1>6 DEF Ends

LEMMA DeviceUpReady ==
  ASSUME TInv, ~tool.testRunning, ~tool.sweepTestRunning, tool.out = NoSends,
         NEW b \in Board, tool.listed[b] = 0, NEW ok
  PROVE  LET g == Handled(tool, b, DevUp, ok)
             U == tool.up \cup {b}
         IN  /\ SendsNone(g) /\ g.up = U /\ g.listed[b] = 1
             /\ \A c \in Board : c # b => g.listed[c] = tool.listed[c]
             /\ U # Board => Keeps(g, tool, {"up", "listed"})
             /\ U = Board => /\ Keeps(g, tool, {"up", "listed", "devicesUP", "runOn", "boxOn",
                                                "q", "box"})
                             /\ g.devicesUP
<1> DEFINE U == tool.up \cup {b}
           li == [tool.listed EXCEPT ![b] = @ + 1]
           x == [tool EXCEPT !.up = U, !.listed = li]
           B == x.boxOn \cup TestsOf(Capability)
           y == [x EXCEPT !.devicesUP = TRUE, !.runOn = TRUE, !.boxOn = B]
           z == EnableTests2(y, Capability)
           g == Handled(tool, b, DevUp, ok)
<1>1. IsTool(tool) /\ tool.listed \in [Board -> 0 .. ListMax]
  BY TypeFacts DEF Rest
<1>2. g = IF x.up = Board THEN z ELSE x
  <2>1. g = isDeviceUP(tool, b)
    BY DEF Handled, DevUp, Frame, DeviceUp
  <2> QED
    BY <2>1 DEF isDeviceUP
<1>3. li[b] = 1 /\ \A c \in Board : c # b => li[c] = tool.listed[c]
  <2>1. tool.listed[b] + 1 = 1
    OBVIOUS
  <2> QED
    BY <1>1, <2>1
<1> HIDE DEF li, U
<1>4. Keeps(x, tool, {"up", "listed"}) /\ x.up = U /\ x.listed = li
  BY <1>1 DEF IsTool, Fields, Keeps
<1> HIDE DEF x, B
<1>5. Keeps(y, x, {"devicesUP", "runOn", "boxOn"}) /\ y.devicesUP = TRUE
  BY <1>4 DEF IsTool, Fields, Keeps
<1> HIDE DEF y
<1>6. Keeps(z, y, {"q", "box"})
  BY <1>5, FillKeeps DEF Keeps
<1> HIDE DEF z
<1>7. z.devicesUP = TRUE /\ z.up = U /\ z.listed = li /\ z.out = NoSends /\ x.out = NoSends
  BY <1>4, <1>5, <1>6 DEF Keeps, Fields
<1>8. Keeps(z, tool, {"up", "listed", "devicesUP", "runOn", "boxOn", "q", "box"})
  BY <1>4, <1>5, <1>6 DEF Keeps
<1>9. SendsNone(x) /\ SendsNone(z)
  BY <1>7 DEF SendsNone, NoSends
<1> HIDE DEF g
<1>10. CASE U = Board
  BY <1>2, <1>3, <1>4, <1>7, <1>8, <1>9, <1>10 DEF g, U
<1>11. CASE U # Board
  BY <1>2, <1>3, <1>4, <1>9, <1>11 DEF g, U
<1> QED
  BY <1>10, <1>11

\* Nothing at all is under way on this line.
Clear(l) == l.down = <<>> /\ l.spi = <<>> /\ l.up = <<>> /\ Still(l.fw)

LEMMA NotYetWorking ==
  ASSUME NEW h, NEW l, NEW m, StartUp(h, l)
  PROVE  ~Working(h, m)
<1>1. PICK b \in Board : b \notin h.up
  BY DEF StartUp
<1>2. h.listed[b] = 0
  BY <1>1 DEF StartUp, ComingUp
<1> QED
  BY <1>2 DEF Working

LEMMA DeviceUpStep ==
  ASSUME NInv, StartUp(tool, Lines), NEW b \in Board, ToolReceive(b)
  PROVE  Good(tool, Lines)' /\ tool'.tests = tool.tests /\ tool'.planned = tool.planned
           /\ tool'.params = tool.params /\ tool'.stopOn = tool.stopOn /\ down' = down
           /\ tool'.run = tool.run /\ tool'.status = tool.status
           /\ tool'.summary = tool.summary /\ tool'.dead = tool.dead
           /\ (Working(tool', Lines') => \A c \in Board : Clear(Lines'[c]))
<1>0. /\ TInv /\ tool.out = NoSends /\ \A c \in Board : FwSound(Lines[c].fw)
  BY DEF NInv, Good
<1>1. PICK k, ok :
        /\ Mid(k) /\ Finish(Handled(tool, b, Head(up[b]), ok))
        /\ UNCHANGED <<fw, spi, used>> /\ up[b] # <<>>
        /\ \A c \in Board : c # b => up'[c] = up[c]
        /\ \E n \in 1 .. ReadMax : n <= Len(up[b]) /\ up'[b] = SubSeq(up[b], n + 1, Len(up[b]))
  BY <1>0, ReadStep
<1>2. /\ up[b] = <<DevUp>> /\ spi[b] = <<>> /\ fw[b].pc = "main" /\ b \notin tool.up
      /\ tool.listed[b] = 0 /\ down[b] = <<>> /\ fw[b].timers = 0
  <2>1. ComingUp(tool, b, Lines[b])
    BY DEF StartUp
  <2> QED
    BY <1>1, <2>1, LineFacts DEF ComingUp
<1>3. up'[b] = <<>>
  <2>1. PICK n \in 1 .. ReadMax : n <= Len(up[b]) /\ up'[b] = SubSeq(up[b], n + 1, Len(up[b]))
    BY <1>1
  <2>4. n \in Nat \ {0} /\ up[b] \in Seq(FrameType)
    BY <1>0, TypeFacts, ToolAssumption
  <2>5. Len(up[b]) = 1
    BY <1>2
  <2>2. n \in Nat \ {0} /\ up[b] \in Seq(FrameType) /\ Len(up[b]) = 1 /\ n = 1
    BY <2>1, <2>4, <2>5
  <2>3. Len(up'[b]) = 0 /\ up'[b] \in Seq(FrameType)
    BY <2>1, <2>2, Drop
  <2> QED
    BY <2>3, EmptySeq
<1> DEFINE g == Handled(tool, b, DevUp, ok)
           U == tool.up \cup {b}
<1>4. Finish(g)
  BY <1>1, <1>2, HeadTailProperties DEF DevUp
<1>5. /\ SendsNone(g) /\ g.up = U /\ g.listed[b] = 1
      /\ \A c \in Board : c # b => g.listed[c] = tool.listed[c]
      /\ U # Board => Keeps(g, tool, {"up", "listed"})
      /\ U = Board => /\ Keeps(g, tool, {"up", "listed", "devicesUP", "runOn", "boxOn",
                                         "q", "box"})
                      /\ g.devicesUP
  BY <1>0, <1>2, DeviceUpReady DEF StartUp
<1> HIDE DEF g
<1>6. IsTool(g) /\ \A f \in Fields \ {"up", "listed", "devicesUP", "runOn", "boxOn", "q", "box"} :
                     g[f] = tool[f]
  BY <1>5 DEF Keeps
<1>7. /\ tool'.out = NoSends /\ \A f \in Fields \ {"out"} : tool'[f] = g[f]
  BY <1>4, <1>6, FinishFields
<1>8. /\ tool'.dead = tool.dead /\ tool'.stopOn = tool.stopOn /\ tool'.summary = tool.summary
      /\ tool'.testRunning = tool.testRunning /\ tool'.sweepTestRunning = tool.sweepTestRunning
      /\ tool'.tests = tool.tests /\ tool'.planned = tool.planned /\ tool'.params = tool.params
      /\ tool'.run = tool.run /\ tool'.status = tool.status
      /\ tool'.up = g.up /\ tool'.listed = g.listed /\ tool'.devicesUP = g.devicesUP
      /\ tool'.runOn = g.runOn /\ tool'.boxOn = g.boxOn
  BY <1>6, <1>7 DEF Fields
<1>9. down' = down
  <2>1. down' = [c \in Board |-> down[c] \o g.out[c]] /\ down \in [Board -> Seq(Cmd)]
    BY <1>0, <1>4, TypeFacts DEF Finish
  <2>2. ASSUME NEW c \in Board PROVE down[c] \o g.out[c] = down[c]
    BY <1>5, <2>1, ConcatEmptySeq DEF SendsNone
  <2> QED
    BY <2>1, <2>2
<1>10. \A c \in Board : FwSound(Lines'[c].fw)
  BY <1>0, <1>1, LineFacts
<1>11. tool'.out = NoSends
  BY <1>7
<1>12. ~tool'.stopOn
  BY <1>8 DEF StartUp
<1>13. CASE U # Board
  <2>1. g.runOn = tool.runOn /\ g.boxOn = tool.boxOn
    BY <1>5, <1>13 DEF Keeps, Fields
  <2>2. ASSUME NEW c \in Board PROVE ComingUp(tool', c, Lines'[c])
    <3>1. CASE c = b
      BY <1>1, <1>2, <1>3, <1>5, <1>8, <1>9, <3>1, LineFacts DEF ComingUp
    <3>2. CASE c # b
      <4>1. ComingUp(tool, c, Lines[c])
        BY DEF StartUp
      <4>2. tool'.listed[c] = tool.listed[c] /\ (c \in tool'.up <=> c \in tool.up)
        BY <1>5, <1>8, <3>2
      <4>3. Lines'[c].down = Lines[c].down /\ Lines'[c].spi = Lines[c].spi
               /\ Lines'[c].up = Lines[c].up /\ Lines'[c].fw = Lines[c].fw
        BY <1>1, <1>9, <3>2, LineFacts
      <4> QED
        BY <4>1, <4>2, <4>3 DEF ComingUp
    <3> QED
      BY <3>1, <3>2
  <2>3. StartUp(tool', Lines')
    BY <1>5, <1>8, <1>13, <2>1, <2>2 DEF StartUp
  <2>4. Good(tool', Lines')
    BY <1>10, <1>11, <2>3 DEF Good
  <2>5. ~Working(tool', Lines')
    BY <2>3, NotYetWorking
  <2> QED
    BY <1>8, <1>9, <2>4, <2>5
<1>14. CASE U = Board
  <2>1. tool'.devicesUP
    BY <1>5, <1>8, <1>14
  <2>2. ASSUME NEW c \in Board
        PROVE  /\ tool'.listed[c] = 1 /\ Quiet(Lines'[c]) /\ NoFlash(Lines'[c].down)
               /\ Clear(Lines'[c])
    <3>0. FlashOnly(<<>>) /\ NoFlash(<<>>)
      BY DEF FlashOnly, NoFlash
    <3>1. CASE c = b
      BY <1>1, <1>2, <1>3, <1>5, <1>8, <1>9, <3>0, <3>1, LineFacts, IdsEmpty DEF Quiet, Still, Clear
    <3>2. CASE c # b
      <4>1. ComingUp(tool, c, Lines[c])
        BY DEF StartUp
      <4>2. c \in tool.up /\ tool'.listed[c] = tool.listed[c]
        BY <1>5, <1>8, <1>14, <3>2
      <4>3. Lines'[c].down = Lines[c].down /\ Lines'[c].spi = Lines[c].spi
               /\ Lines'[c].up = Lines[c].up /\ Lines'[c].fw = Lines[c].fw
        BY <1>1, <1>9, <3>2, LineFacts
      <4> QED
        BY <3>0, <4>1, <4>2, <4>3, IdsEmpty DEF ComingUp, Quiet, Still, Clear
    <3> QED
      BY <3>1, <3>2
  <2>3. Working(tool', Lines')
    BY <1>12, <2>1, <2>2 DEF Working, Idling, Board
  <2>4. Good(tool', Lines')
    BY <1>10, <1>11, <2>3 DEF Good
  <2> QED
    BY <1>8, <1>9, <2>2, <2>4
<1> QED
  BY <1>13, <1>14

LEMMA ReceiveStep ==
  ASSUME NInv, NEW b \in Board, ToolReceive(b)
  PROVE  Good(tool, Lines)'
<1>1. CASE StartUp(tool, Lines)
  BY <1>1, DeviceUpStep
<1>2. CASE Working(tool, Lines)
  <2>1. PICK g, k :
          /\ Finish(g) /\ Rest(g, used["run"]) /\ Sound(g)
          /\ Mid(k) /\ UNCHANGED <<fw, spi, used>>
          /\ Confirms(g, k) \/ Passes(g, k) \/ Ends(g, b, k)
    BY <1>2, ReceiveCases
  <2> QED
    BY <1>2, <2>1, ConfirmGood, PassGood, EndGood
<1> QED
  BY <1>1, <1>2 DEF NInv, Good

-----------------------------------------------------------------------------
(***************************************************************************)
(* The operator.                                                           *)
(***************************************************************************)
LEMMA FinishNone ==
  ASSUME TInv, NEW g, Finish(g), SendsNone(g)
  PROVE  down' = down
<1>1. down' = [c \in Board |-> down[c] \o g.out[c]] /\ down \in [Board -> Seq(Cmd)]
  BY TypeFacts DEF Finish
<1>2. ASSUME NEW c \in Board PROVE down[c] \o g.out[c] = down[c]
  BY <1>1, ConcatEmptySeq DEF SendsNone
<1> QED
  BY <1>1, <1>2

LEMMA MidLines ==
  ASSUME UNCHANGED up
  PROVE  Mid(Lines)
  BY LineFacts DEF Mid

LEMMA ClickStep ==
  ASSUME NInv, NEW t \in Test, CheckBox_Click(t), UNCHANGED <<fw, spi>>
  PROVE  /\ Good(tool, Lines)' /\ Working(tool, Lines) /\ Idling(tool, Lines) /\ down' = down
         /\ Keeps(Toggle(tool, t), tool, {"q", "box"}) /\ Finish(Toggle(tool, t))
<1>0. /\ TInv /\ IsTool(tool) /\ Finish(Toggle(tool, t)) /\ UNCHANGED up /\ t \in tool.boxOn
      /\ Mid(Lines)
  BY TypeFacts, MidLines DEF NInv, CheckBox_Click
<1>1. Working(tool, Lines) /\ Idling(tool, Lines) /\ tool.out = NoSends
  BY <1>0 DEF NInv, Good, StartUp, Working, UnderWay
<1> DEFINE g == Toggle(tool, t)
<1>2. Keeps(g, tool, {"q", "box"})
  BY <1>0, BoxKeeps
<1> HIDE DEF g
<1>3. Finish(g) /\ IsTool(g) /\ SendsNone(g)
  BY <1>0, <1>1, <1>2 DEF Keeps, Fields, SendsNone, NoSends, g
<1>4. \A c \in Board : Benign(Lines[c], Lines'[c])
  BY <1>0, <1>3, SendsNoneLines
<1>5. tool'.stopOn = tool.stopOn
  BY <1>2, <1>3, FinishFields DEF Keeps, Fields
<1>6. Idling(tool', Lines')
  BY <1>1, <1>4, <1>5 DEF Idling, Benign
<1>7. NoFlash(Lines["REF"].down) => NoFlash(Lines'["REF"].down)
  BY <1>4 DEF Benign, Board
<1>8. {"devicesUP", "listed"} \cap {"q", "box"} = {}
  OBVIOUS
<1>9. Good(tool, Lines)'
  BY <1>0, <1>1, <1>2, <1>3, <1>6, <1>7, <1>8, WorkingFields
<1>10. down' = down
  BY <1>0, <1>3, FinishNone
<1> QED
  BY <1>0, <1>1, <1>2, <1>9, <1>10 DEF g

LEMMA FlashStep ==
  ASSUME NInv, btn_flashParams_Click, UNCHANGED <<fw, spi>>
  PROVE  /\ Good(tool, Lines)' /\ tool' = tool
         /\ down' = down \/ (Working(tool, Lines) /\ AllPassed(tool))
<1>0. /\ TInv /\ IsTool(tool) /\ Finish(flashParams(tool)) /\ UNCHANGED up /\ Mid(Lines)
      /\ ~tool.stopOn /\ tool.out = NoSends
  BY TypeFacts, MidLines DEF NInv, btn_flashParams_Click, Idle, Good
<1>1. CASE StartUp(tool, Lines)
  <2>1. flashParams(tool) = tool
    BY <1>1 DEF StartUp, flashParams
  <2>2. SendsNone(tool)
    BY <1>0 DEF SendsNone, NoSends
  <2>3. down' = down
    BY <1>0, <2>1, <2>2, FinishNone
  <2>4. tool' = tool
    BY <1>0, <2>1 DEF Finish, IsTool, Fields
  <2>5. Lines' = Lines
    BY <1>0, <2>3 DEF Lines, Line
  <2> QED
    BY <2>3, <2>4, <2>5 DEF NInv
<1>2. CASE Working(tool, Lines)
  <2> DEFINE g == flashParams(tool)
             m == Command("FLASH_PARAM", NoTest, Execution(tool))
  <2>1. Ready(tool)
    BY <1>2, WorkingReady
  <2>2. /\ Keeps(g, tool, {"out"})
        /\ \/ g = tool /\ SendsNone(g)
           \/ AllPassed(tool) /\ SendsOne(g, "DUT", m)
    BY <1>0, <2>1, FlashReady
  <2>3. m \in Cmd /\ m.cmd \in FlashCmds
    BY <1>0, CommandsOf DEF FlashCmds, TInv
  <2> HIDE DEF g, m
  <2>4. Finish(g) /\ IsTool(g)
    BY <1>0, <2>2 DEF g, Keeps
  <2>5. Idling(tool, Lines)
    BY <1>0, <1>2 DEF Working, UnderWay
  <2>6. (\A c \in Board : Quiet(Lines'[c]))
          /\ (NoFlash(Lines["REF"].down) => NoFlash(Lines'["REF"].down))
    <3>1. CASE SendsNone(g)
      BY <1>0, <2>4, <2>5, <3>1, SendsNoneLines DEF Benign, Board, Idling
    <3>2. CASE SendsOne(g, "DUT", m)
      <4>1. /\ \A c \in Board : c # "DUT" => Benign(Lines[c], Lines'[c])
            /\ Quiet(Lines["DUT"]) => Quiet(Lines'["DUT"])
        BY <1>0, <2>3, <2>4, <3>2, SendsOneLines DEF Board
      <4> QED
        BY <2>5, <4>1 DEF Benign, Board, Idling
    <3> QED
      BY <2>2, <3>1, <3>2
  <2>7. tool' = tool
    <3>1. IsTool(tool') /\ tool'.out = NoSends /\ \A f \in Fields \ {"out"} : tool'[f] = g[f]
      BY <2>4, FinishFields
    <3>2. \A f \in Fields : tool'[f] = tool[f]
      BY <1>0, <2>2, <3>1 DEF Keeps
    <3> QED
      BY <1>0, <3>1, <3>2 DEF IsTool
  <2>8. Idling(tool', Lines')
    BY <1>0, <2>6, <2>7 DEF Idling
  <2>9. {"devicesUP", "listed"} \cap {"out"} = {}
    OBVIOUS
  <2>10. Good(tool, Lines)'
    BY <1>0, <1>2, <2>2, <2>4, <2>6, <2>8, <2>9, WorkingFields
  <2>11. SendsNone(g) => down' = down
    BY <1>0, <2>4, FinishNone
  <2> QED
    BY <1>2, <2>2, <2>7, <2>10, <2>11
<1> QED
  BY <1>1, <1>2 DEF NInv, Good

\* Run: the first test begins, or nothing is selected and nothing begins.
RunFields ==
  {"tests", "summary", "run", "status", "q", "box", "testRunning", "calStatus", "planned",
   "stopOn", "runOn", "boxOn", "params", "sweepTestRunning", "out"}

BeginsRun(g) ==
  /\ g.stopOn = TRUE /\ ~g.runOn /\ g.boxOn = {} /\ g.q # <<>> /\ g.planned = ToSet(g.q)
  /\ g.calStatus /\ g.params = Begun(tool.params, Head(g.q)) /\ g.status.test # NoTest
  /\ SendsOne(g, Receiver(Head(g.q)), Command("PREPARE", PlainOf(Head(g.q)), Execution(g)))

EmptyRun(g) ==
  /\ g.q = <<>> /\ SendsNone(g) /\ g.stopOn = tool.stopOn /\ g.params = tool.params
  /\ g.planned = tool.planned /\ g.calStatus = tool.calStatus

LEMMA RunReady ==
  ASSUME TInv, Ready(tool), tool.out = NoSends, NEW mod \in Modules, RunTest_Click(mod)
  PROVE  \E g : /\ Finish(g) /\ Keeps(g, tool, RunFields) /\ g.tests = <<>> /\ UNCHANGED up
                /\ g.run = tool.run + 1 /\ Sound(g)
                /\ g.q = ForSerial([tool EXCEPT !.tests = <<>>, !.summary = "new",
                                                !.run = @ + 1, !.status = NullStatus],
                                   Capability, mod).q
                /\ BeginsRun(g) \/ EmptyRun(g)
<1> DEFINE r == [tool EXCEPT !.tests = <<>>, !.summary = "new", !.run = @ + 1]
           n == [r EXCEPT !.status = NullStatus]
           h == ForSerial(n, Capability, mod)
           t == Head(h.q)
           P == ToSet(h.q)
           j == [h EXCEPT !.testRunning = TRUE, !.calStatus = TRUE, !.planned = P]
           d == [j EXCEPT !.stopOn = TRUE, !.runOn = FALSE, !.boxOn = {}]
           s == Status(t, "PREPARE", FirstPrepared(t))
           e == [d EXCEPT !.status = s]
           f == IF FewClients(h) THEN scan(scan(h)) ELSE IF h.q = <<>> THEN h ELSE executeTests(e)
<1>0. n = [tool EXCEPT !.tests = <<>>, !.summary = "new", !.run = @ + 1, !.status = NullStatus]
  BY DEF Ready, IsTool, Fields
<1>1. Finish(f) /\ UNCHANGED up
  BY DEF RunTest_Click, setStatusvarNull, disableUI
<1>2. mod \in BOOLEAN /\ Sound(tool)
  BY ToolAssumption, TypeFacts
<1>3. Keeps(r, tool, {"tests", "summary", "run"}) /\ r.tests = <<>> /\ r.run = tool.run + 1
  BY DEF Ready, IsTool, Fields, Keeps
<1>4. Sound(r)
  BY <1>2, KeepFields
<1> HIDE DEF r
<1>5. Sound(n)
  BY <1>4, KeepFields
<1>6. Keeps(n, r, {"status"})
  BY <1>3 DEF IsTool, Fields, Keeps
<1> HIDE DEF n
<1>7. Sound(h)
  BY <1>2, <1>5, ForSerialSound
<1>8. Keeps(h, n, {"q", "box"})
  BY <1>6, SerialKeeps DEF Keeps
<1> HIDE DEF h
<1>9. Keeps(h, tool, {"tests", "summary", "run", "status", "q", "box"})
  BY <1>3, <1>6, <1>8 DEF Keeps
<1>10. h.tests = <<>> /\ h.run = tool.run + 1
  BY <1>3, <1>6, <1>8 DEF Keeps, Fields
<1>11. Ready(h)
  BY <1>9, KeepsReady
<1>12. /\ h.out = NoSends /\ h.params = tool.params /\ h.stopOn = tool.stopOn
       /\ h.planned = tool.planned /\ h.calStatus = tool.calStatus
  BY <1>9 DEF Keeps, Fields
<1>13. ~FewClients(h)
  BY <1>11, ListReady
<1>14. CASE h.q = <<>>
  <2>1. Finish(h)
    BY <1>1, <1>13, <1>14, Zenon
  <2>2. Keeps(h, tool, RunFields)
    BY <1>9 DEF Keeps, RunFields
  <2>3. EmptyRun(h)
    BY <1>12, <1>14 DEF EmptyRun, SendsNone, NoSends
  <2> QED
    BY <1>0, <1>1, <1>7, <1>10, <2>1, <2>2, <2>3 DEF h
<1>15. CASE h.q # <<>>
  <2> DEFINE g == executeTests(e)
  <2>1. Finish(g)
    BY <1>1, <1>13, <1>15, Zenon
  <2>2. t \in Test /\ t # NoTest /\ FirstPrepared(t) = Receiver(t)
    BY <1>7, <1>15, HeadTest, PlainFacts DEF FirstPrepared
  <2> HIDE DEF t, P
  <2>3. /\ Keeps(j, h, {"testRunning", "calStatus", "planned"}) /\ j.planned = P
        /\ j.calStatus = TRUE
    BY <1>9 DEF IsTool, Fields, Keeps
  <2>16. Sound(j)
    BY <1>7, KeepFields
  <2> HIDE DEF j
  <2>4. /\ Keeps(d, j, {"stopOn", "runOn", "boxOn"}) /\ d.stopOn = TRUE /\ d.runOn = FALSE
        /\ d.boxOn = {}
    BY <2>3 DEF IsTool, Fields, Keeps
  <2>17. Sound(d)
    BY <2>16, KeepFields
  <2> HIDE DEF d
  <2>5. s.test = t /\ s.op = "PREPARE" /\ s.at = Receiver(t)
    BY <2>2 DEF Status
  <2> HIDE DEF s
  <2>6. Keeps(e, d, {"status"}) /\ e.status = s
    BY <2>4 DEF IsTool, Fields, Keeps
  <2>18. Sound(e)
    BY <2>17, KeepFields
  <2> HIDE DEF e
  <2>7. /\ Keeps(e, h, {"testRunning", "calStatus", "planned", "stopOn", "runOn", "boxOn",
                        "status"})
    BY <2>3, <2>4, <2>6 DEF Keeps
  <2>8. /\ e.stopOn = TRUE /\ e.runOn = FALSE /\ e.boxOn = {} /\ e.planned = P
        /\ e.calStatus = TRUE /\ e.out = NoSends /\ e.q = h.q /\ e.params = tool.params
        /\ e.tests = <<>> /\ e.run = tool.run + 1
    BY <1>10, <1>12, <2>3, <2>4, <2>6 DEF Keeps, Fields
  <2>9. Ready(e)
    BY <1>11, <2>7, KeepsReady
  <2>10. /\ Keeps(g, e, {"params", "sweepTestRunning", "out"})
         /\ g.params = Begun(e.params, t)
         /\ SendsOne(g, Receiver(t), Command("PREPARE", PlainOf(t), Execution(g)))
    <3>1. CASE t.sweep
      <4>1. g = BeginTest(e, t)
        BY <2>2, <2>5, <2>6, <3>1 DEF executeTests
      <4> QED
        BY <2>8, <2>9, <4>1, BeginReady
    <3>2. CASE ~t.sweep
      <4>1. g = Send(e, Receiver(t), "PREPARE", t)
        BY <2>2, <2>5, <2>6, <3>2 DEF executeTests, TestStep
      <4>2. Receiver(t) \in Board
        BY BoardFacts
      <4>3. PlainOf(t) = t
        <5>1. t.sweep = FALSE
          BY <2>2, <3>2, PlainFacts
        <5> QED
          BY <2>2, <5>1 DEF PlainOf, Test
      <4>4. Keeps(g, e, {"out"}) /\ SendsOne(g, Receiver(t), Command("PREPARE", t, Execution(e)))
        BY <2>8, <2>9, <4>1, <4>2, SendReady
      <4> HIDE DEF g
      <4>5. Execution(g) = Execution(e)
        BY <4>4, KeepsExecution
      <4>6. Keeps(g, e, {"params", "sweepTestRunning", "out"})
        BY <4>4 DEF Keeps
      <4>7. g.params = e.params
        BY <4>4 DEF Keeps, Fields
      <4>8. Begun(e.params, t) = e.params
        BY <3>2 DEF Begun
      <4> QED
        BY <4>3, <4>4, <4>5, <4>6, <4>7, <4>8
    <3> QED
      BY <3>1, <3>2
  <2>11. Sound(g)
    BY <2>18, ExecuteSound
  <2> HIDE DEF g
  <2>12. /\ g.stopOn = TRUE /\ g.runOn = FALSE /\ g.boxOn = {} /\ g.planned = P
         /\ g.calStatus = TRUE /\ g.q = h.q /\ g.tests = <<>> /\ g.run = tool.run + 1
         /\ g.status = e.status
    BY <2>8, <2>10 DEF Keeps, Fields
  <2>13. Keeps(g, tool, RunFields)
    BY <1>9, <2>7, <2>10 DEF Keeps, RunFields
  <2>14. BeginsRun(g)
    BY <1>15, <2>2, <2>5, <2>6, <2>8, <2>10, <2>12 DEF BeginsRun, t, P
  <2> QED
    BY <1>0, <1>1, <2>1, <2>11, <2>12, <2>13, <2>14 DEF h
<1> QED
  BY <1>14, <1>15

LEMMA RunStep ==
  ASSUME NInv, NEW mod \in Modules, RunTest_Click(mod), Use("run"), UNCHANGED <<fw, spi>>
  PROVE  Good(tool, Lines)' /\ Working(tool, Lines) /\ Idling(tool, Lines)
<1>0. TInv /\ tool.runOn
  BY DEF NInv, RunTest_Click
<1>1. Working(tool, Lines) /\ Idling(tool, Lines) /\ Ready(tool) /\ tool.out = NoSends
  <2>1. Working(tool, Lines)
    BY <1>0 DEF NInv, Good, StartUp
  <2>2. Idling(tool, Lines)
    BY <1>0, <2>1 DEF Working, UnderWay
  <2> QED
    BY <2>1, <2>2, WorkingReady
<1>2. PICK g : /\ Finish(g) /\ Keeps(g, tool, RunFields) /\ UNCHANGED up /\ Sound(g)
               /\ BeginsRun(g) \/ EmptyRun(g)
  BY <1>0, <1>1, RunReady
<1>3. Mid(Lines) /\ IsTool(g)
  BY <1>2, MidLines DEF Keeps
<1>4. /\ tool'.stopOn = g.stopOn /\ tool'.runOn = g.runOn /\ tool'.boxOn = g.boxOn
      /\ tool'.q = g.q /\ tool'.params = g.params /\ tool'.run = g.run /\ tool'.tests = g.tests
  BY <1>2, <1>3, FinishFields DEF Fields
<1>5. {"devicesUP", "listed"} \cap RunFields = {}
  BY DEF RunFields
<1>6. CASE EmptyRun(g)
  <2>1. \A c \in Board : Benign(Lines[c], Lines'[c])
    BY <1>0, <1>2, <1>3, <1>6, SendsNoneLines DEF EmptyRun
  <2>2. Idling(tool', Lines')
    BY <1>1, <1>4, <1>6, <2>1 DEF Idling, EmptyRun, Benign
  <2>3. NoFlash(Lines["REF"].down) => NoFlash(Lines'["REF"].down)
    BY <2>1 DEF Benign, Board
  <2> QED
    BY <1>1, <1>2, <1>3, <1>5, <2>2, <2>3, WorkingFields
<1>7. CASE BeginsRun(g)
  <2> DEFINE s == Head(g.q)
             i == s.intf
  <2>1. Execution(g) \in Executions
    <3>1. Rest(tool', used["run"] + 1)
      <4>1. used["run"] < Bound["run"]
        BY DEF Use
      <4>2. Rest(tool, used["run"]) /\ Sound(tool) /\ down \in [Board -> Seq(Cmd)]
        BY <1>0, TypeFacts
      <4> QED
        BY <4>1, <4>2, RunRest
    <3>2. Execution(tool') \in Executions
      BY <3>1, ExecutionType
    <3> QED
      BY <1>4, <3>2 DEF Execution
  <2>2. s \in Test
    BY <1>2, <1>7, HeadTest DEF BeginsRun
  <2>3. i \in Intf
    BY <2>2, PlainFacts
  <2>4. tool.params \in [Intf -> Nat]
    BY <1>0 DEF TInv, Rest
  <2>5. g.params = Begun(tool.params, s)
    BY <1>7 DEF BeginsRun
  <2>6. SendsOne(g, Receiver(s), Command("PREPARE", PlainOf(s), Execution(g)))
    BY <1>7 DEF BeginsRun
  <2> HIDE DEF s, i
  <2>7. s.sweep => g.params[i] > 0
    <3>1. s.sweep => g.params[i] = tool.params[i] + SweepLen[i]
      BY <2>3, <2>4, <2>5 DEF Begun, i
    <3>2. tool.params[i] \in Nat /\ SweepLen[i] \in Nat \ {0}
      BY <2>3, <2>4, ToolAssumption
    <3> QED
      BY <3>1, <3>2
  <2>8. \A c \in Board : Quiet(Lines[c])
    BY <1>1 DEF Idling
  <2>9. /\ Token(PlainOf(s), Execution(tool'), Lines'[Receiver(s)], Lines'[Transmitter(s)])
        /\ NoFlash(Lines["REF"].down) => NoFlash(Lines'["REF"].down)
    BY <1>0, <1>2, <1>3, <2>1, <2>2, <2>6, <2>8, Prepares
  <2>10. UnderWay(tool', Lines')
    BY <1>4, <1>7, <2>7, <2>9 DEF UnderWay, BeginsRun, s, i
  <2> QED
    BY <1>1, <1>2, <1>3, <1>5, <2>9, <2>10, WorkingFields
<1> QED
  BY <1>1, <1>2, <1>6, <1>7

-----------------------------------------------------------------------------
(***************************************************************************)
(* The invariant holds of the undisturbed tester.                          *)
(***************************************************************************)
LEMMA InitGood ==
  ASSUME Undisturbed, Init
  PROVE  Good(tool, Lines)
<1>1. /\ tool.q = <<>> /\ ~tool.runOn /\ ~tool.stopOn /\ tool.boxOn = {} /\ tool.summary = "none"
      /\ ~tool.testRunning /\ ~tool.sweepTestRunning /\ tool.up = {}
      /\ tool.listed = [b \in Board |-> 0] /\ tool.out = NoSends
  BY DEF Init, ToolInit
<1>2. ASSUME NEW b \in Board
      PROVE  down[b] = <<>> /\ up[b] = <<>> /\ spi[b] = <<>> /\ fw[b] = Booting("CALIBRATED", NoTest)
  BY DEF Init, ToolInit, FwInit, NoSends, Undisturbed
<1>3. ASSUME NEW b \in Board
      PROVE  /\ fw[b].pc = "boot" /\ fw[b].timers = 0 /\ fw[b].cal = "CALIBRATED"
             /\ fw[b].pending = NoTest /\ \A i \in Intf : fw[b].stats[i].n = 0
  BY <1>2 DEF Booting, NoStats
<1>4. \A b \in Board : FwSound(Lines[b].fw)
  BY <1>3, LineFacts DEF FwSound
<1>5. \A b \in Board : ComingUp(tool, b, Lines[b])
  BY <1>1, <1>2, <1>3, LineFacts DEF ComingUp
<1>6. tool.up # Board /\ tool.up \in SUBSET Board
  BY <1>1 DEF Board
<1>7. StartUp(tool, Lines)
  BY <1>1, <1>5, <1>6 DEF StartUp
<1> QED
  BY <1>1, <1>4, <1>7 DEF Good

LEMMA Unused ==
  ASSUME Undisturbed, TInv, NEW a \in {"scan", "stop", "reset", "spi"}
  PROVE  ~Use(a)
<1>1. Bound[a] = 0 /\ used[a] \in Nat
  BY MaxAssumption DEF Undisturbed, TInv
<1> QED
  BY <1>1 DEF Use

LEMMA NominalNext ==
  ASSUME Undisturbed, NInv, [Next]_vars
  PROVE  NInv'
<1>0. TInv
  BY DEF NInv
<1>1. TInv'
  BY <1>0, NextTypes
<1>2. Good(tool, Lines)'
  <2>1. CASE System
    <3>1. PICK b \in Board :
            ToolReceive(b) \/ RelayRequest(b) \/ RelayConnectFails(b)
              \/ RelayResponse(b) \/ FwBoot(b) \/ FwTransmit(b)
      BY <2>1 DEF System
    <3> QED
      BY <3>1, ReceiveStep, RequestStep, ConnectFailsStep, ResponseStep, BootStep, TransmitStep
  <2>2. CASE Operator
    <3>1. UNCHANGED <<fw, spi>>
      BY <2>2 DEF Operator, fwVars
    <3>2. \/ \E mod \in Modules : RunTest_Click(mod) /\ Use("run")
          \/ \E t \in Test : CheckBox_Click(t)
          \/ btn_flashParams_Click
      BY <1>0, <2>2, Unused DEF Operator
    <3> QED
      BY <3>1, <3>2, RunStep, ClickStep, FlashStep
  <2>3. CASE Fault
    BY <1>0, <2>3, Unused DEF Fault
  <2>4. CASE UNCHANGED vars
    <3>1. tool' = tool /\ Lines' = Lines
      BY <2>4 DEF vars, Lines, Line
    <3> QED
      BY <3>1 DEF NInv
  <2> QED
    BY <2>1, <2>2, <2>3, <2>4 DEF Next
<1> QED
  BY <1>1, <1>2 DEF NInv

\* The inductive invariant of the undisturbed tester: the boards come up one by
\* one, then the tool is idle or a single token of the run is under way.
THEOREM NominalTheorem ==
  ASSUME Undisturbed
  PROVE  Spec => []NInv
<1>1. Init => NInv
  BY InitTypes, InitGood DEF NInv
<1>2. NInv /\ [Next]_vars => NInv'
  BY NominalNext
<1> QED
  BY <1>1, <1>2, PTL DEF Spec

\* While a run is under way at most one board has a command, an answer or a
\* transmission, so the reader threads of the two clients do not meet in
\* messageReceived and the unlocked status and qExecStatus are safe.
THEOREM OneBoardTheorem ==
  ASSUME Undisturbed
  PROVE  Spec => []OneBoardAtATime
<1>1. NInv => OneBoardAtATime
  <2> SUFFICES ASSUME NInv, tool.stopOn PROVE ~(Busy("DUT") /\ Busy("REF"))
    BY DEF OneBoardAtATime, Running
  <2> DEFINE s == Head(tool.q)
             R == Receiver(s)
             X == Transmitter(s)
             t == PlainOf(s)
             e == Execution(tool)
  <2>1. UnderWay(tool, Lines)
    BY DEF NInv, Good, StartUp, Working, Idling
  <2>2. ASSUME NEW b \in Board, Quiet(Lines[b]) PROVE ~Busy(b)
    <3>1. /\ Still(fw[b]) /\ FlashOnly(down[b]) /\ Ids(spi[b], FlashCnf) /\ Ids(up[b], FlashCnf)
      BY <2>2, LineFacts DEF Quiet
    <3> QED
      BY <3>1 DEF Busy, Still, FlashOnly, FlashCmds, Ids, FlashCnf
  <2>3. R \in Board /\ X \in Board /\ {R, X} = {"DUT", "REF"}
    BY DEF Receiver, Transmitter, Other, Board
  <2>4. Token(t, e, Lines[R], Lines[X])
    BY <2>1 DEF UnderWay
  <2> HIDE DEF s, R, X, t, e
  <2>5. Quiet(Lines[R]) \/ Quiet(Lines[X])
    BY <2>4 DEF Token, FirstPrepare, SecondPrepare, ReceiverStart, Transmission, Stopping,
                Fetching, Standstill
  <2>6. ~Busy(R) \/ ~Busy(X)
    BY <2>2, <2>3, <2>5
  <2> QED
    BY <2>3, <2>6
<1> QED
  BY <1>1, NominalTheorem, PTL

\* A board transmits PLC frames, or has an RF timer running, only for the
\* execution its receiver was started for: START goes to the receiver first and
\* the transmitter's START only follows its START_CNF.
THEOREM ReceiverFirstTheorem ==
  ASSUME Undisturbed
  PROVE  Spec => []ReceiverFirst
<1>1. NInv => ReceiverFirst
  <2> SUFFICES ASSUME NInv, NEW b \in Board
               PROVE  /\ fw[b].pc = "plc" => fw[Other(b)].started = fw[b].plcTx.ex
                      /\ fw[b].timers > 0 => fw[Other(b)].started = fw[b].rfTx.ex
    BY DEF ReceiverFirst
  <2>1. CASE StartUp(tool, Lines)
    <3>1. fw[b].pc # "plc" /\ fw[b].timers = 0
      BY <2>1, LineFacts DEF StartUp, ComingUp
    <3> QED
      BY <3>1
  <2>2. CASE Working(tool, Lines) /\ Still(fw[b])
    BY <2>2 DEF Still
  <2>3. CASE Working(tool, Lines) /\ ~Still(fw[b])
    <3> DEFINE e == Execution(tool)
               t == PlainOf(Head(tool.q))
    <3>1. Transmission(t, e, Lines[Other(b)], Lines[b]) /\ Sending(Lines[b], e)
      BY <2>3, WorkingPc
    <3>2. Other(b) \in Board
      BY BoardFacts
    <3> HIDE DEF e, t
    <3>3. fw[Other(b)].started = e
      BY <3>1, <3>2, LineFacts DEF Transmission, Started
    <3>4. /\ fw[b].pc = "plc" => fw[b].plcTx.ex = e
          /\ fw[b].timers > 0 => fw[b].rfTx.ex = e
      BY <3>1, LineFacts DEF Sending, Still
    <3> QED
      BY <3>3, <3>4
  <2> QED
    BY <2>1, <2>2, <2>3 DEF NInv, Good
<1> QED
  BY <1>1, NominalTheorem, PTL

-----------------------------------------------------------------------------
(***************************************************************************)
(* The results of a run.                                                   *)
(***************************************************************************)
\* What is recorded when a result arrives.
LEMMA EndResult ==
  ASSUME NInv, NEW b \in Board, NEW g, NEW k, Ends(g, b, k)
  PROVE  \E r : /\ g.tests = Append(tool.tests, r) /\ r.test = Head(tool.q)
                /\ r.ex = Execution(tool) /\ r.from \subseteq {r.ex}
                /\ NeededFrames > 0 /\ r.ok => r.from # {}
<1> DEFINE s == Head(tool.q)
           R == Receiver(s)
           m == Head(up[b])
           t == PlainOf(s)
           i == s.intf
           z == fw[R].stats[i]
<1>0. TInv /\ tool.q # <<>>
  BY DEF NInv, Ends, UnderWay
<1>1. PICK ok \in Verdicts(tool, m) : Recorded(g, tool, m, ok)
  BY DEF Ends
<1>2. t.intf = i /\ i \in Intf /\ R \in Board
  BY <1>0, HeadFacts
<1>3. m = ResultFrame(fw[R], i) /\ Own(fw[R], i, Execution(tool))
  BY <1>2 DEF Ends, Arrived
<1>4. m.stats = z /\ m.intf = i
  BY <1>3 DEF ResultFrame, Frame
<1>5. z.n > 0 => z.from # {}
  BY <1>2, LineFacts DEF NInv, Good, FwSound
<1>6. z.n \in Nat
  BY <1>0, <1>2, TypeFacts DEF FwOK, Stats
<1>7. z.from \subseteq {Execution(tool)}
  BY <1>3 DEF Own
<1> HIDE DEF z, m
<1>8. NeededFrames > 0 /\ ok => z.n > 0
  <2>1. ok => z.n >= NeededFrames
    BY <1>0, <1>1, <1>4 DEF Verdicts
  <2>2. NeededFrames \in Nat
    BY ToolAssumption
  <2> QED
    BY <1>6, <2>1, <2>2
<1> DEFINE r == Entry(tool, m, ok)
<1>9. g.tests = Append(tool.tests, r)
  BY <1>1 DEF Recorded
<1>10. r.test = s /\ r.ok = ok /\ r.from = z.from /\ r.ex = Execution(tool)
  BY <1>4 DEF Entry
<1> HIDE DEF r
<1> QED
  BY <1>5, <1>7, <1>8, <1>9, <1>10

LEMMA Appended ==
  ASSUME NEW S, NEW u \in Seq(S), NEW r \in S
  PROVE  /\ Len(Append(u, r)) = Len(u) + 1 /\ Len(u) \in Nat
         /\ \A i \in 1 .. Len(u) : Append(u, r)[i] = u[i]
         /\ Append(u, r)[Len(u) + 1] = r
  BY AppendProperties, LenProperties

\* The results change only when one arrives and when a run begins.
LEMMA TestsStep ==
  ASSUME Undisturbed, NInv, [Next]_vars
  PROVE  \/ tool'.tests = tool.tests /\ tool'.run = tool.run
         \/ tool'.tests = <<>> /\ tool'.run = tool.run + 1
         \/ \E b \in Board : \E g, k :
              /\ Finish(g) /\ Rest(g, used["run"]) /\ Mid(k) /\ UNCHANGED <<fw, spi>>
              /\ Working(tool, Lines) /\ Ends(g, b, k) /\ tool'.tests = g.tests
<1>0. TInv
  BY DEF NInv
<1>1. CASE System
  <2>1. PICK b \in Board :
          ToolReceive(b) \/ RelayRequest(b) \/ RelayConnectFails(b)
            \/ RelayResponse(b) \/ FwBoot(b) \/ FwTransmit(b)
    BY <1>1 DEF System
  <2>2. CASE ToolReceive(b) /\ StartUp(tool, Lines)
    BY <2>2, DeviceUpStep
  <2>3. CASE ToolReceive(b) /\ Working(tool, Lines)
    <3>1. PICK g, k :
            /\ Finish(g) /\ Rest(g, used["run"]) /\ Sound(g)
            /\ Mid(k) /\ UNCHANGED <<fw, spi, used>>
            /\ Confirms(g, k) \/ Passes(g, k) \/ Ends(g, b, k)
      BY <2>3, ReceiveCases
    <3>2. tool'.tests = g.tests /\ tool'.run = g.run
      BY <3>1, FinishFields DEF Rest, Fields
    <3>3. Confirms(g, k) \/ Passes(g, k) => g.tests = tool.tests /\ g.run = tool.run
      BY DEF Confirms, Passes, Goes, Keeps, Fields
    <3> QED
      BY <2>3, <3>1, <3>2, <3>3
  <2>4. CASE ~ToolReceive(b)
    <3>1. UNCHANGED tool
      BY <2>1, <2>4 DEF RelayRequest, RelayConnectFails, RelayResponse, FwBoot, FwTransmit
    <3> QED
      BY <3>1
  <2> QED
    BY <2>2, <2>3, <2>4 DEF NInv, Good
<1>2. CASE Operator
  <2>1. UNCHANGED <<fw, spi>>
    BY <1>2 DEF Operator, fwVars
  <2>2. ASSUME NEW mod \in Modules, RunTest_Click(mod), Use("run")
        PROVE  tool'.tests = <<>> /\ tool'.run = tool.run + 1
    <3>1. Working(tool, Lines)
      BY <2>1, <2>2, RunStep
    <3>2. PICK g : Finish(g) /\ Keeps(g, tool, RunFields) /\ g.tests = <<>> /\ g.run = tool.run + 1
      BY <1>0, <2>2, <3>1, WorkingReady, RunReady
    <3> QED
      BY <3>2, FinishFields DEF Keeps, Fields
  <2>3. ASSUME NEW t \in Test, CheckBox_Click(t)
        PROVE  tool'.tests = tool.tests /\ tool'.run = tool.run
    <3> DEFINE g == Toggle(tool, t)
    <3>1. Keeps(g, tool, {"q", "box"}) /\ Finish(g)
      BY <2>1, <2>3, ClickStep
    <3> HIDE DEF g
    <3> QED
      BY <3>1, FinishFields DEF Keeps, Fields
  <2>4. btn_flashParams_Click => tool' = tool
    BY <2>1, FlashStep
  <2>5. \/ \E mod \in Modules : RunTest_Click(mod) /\ Use("run")
        \/ \E t \in Test : CheckBox_Click(t)
        \/ btn_flashParams_Click
    BY <1>0, <1>2, Unused DEF Operator
  <2> QED
    BY <2>2, <2>3, <2>4, <2>5
<1>3. CASE Fault
  BY <1>0, <1>3, Unused DEF Fault
<1>4. CASE UNCHANGED vars
  BY <1>4 DEF vars
<1> QED
  BY <1>1, <1>2, <1>3, <1>4 DEF Next

\* Every result recorded in qExecStatus counts only frames of its own execution,
\* and a test passes only if a frame arrived: PREPARE clears the PLC statistics,
\* START the RF statistics, and nothing an earlier execution left behind is
\* counted, provided a passing result needs a frame at all.
THEOREM ResultsTheorem ==
  ASSUME Undisturbed, NeededFrames > 0
  PROVE  Spec => []ResultsAreOwn
<1>1. Init => ResultsAreOwn
  <2>1. Init => tool.tests = <<>>
    BY DEF Init, ToolInit
  <2> QED
    BY <2>1 DEF ResultsAreOwn
<1>2. NInv /\ NInv' /\ ResultsAreOwn /\ [Next]_vars => ResultsAreOwn'
  <2> SUFFICES ASSUME NInv, NInv', ResultsAreOwn, [Next]_vars PROVE ResultsAreOwn'
    OBVIOUS
  <2>1. CASE tool'.tests = tool.tests
    BY <2>1 DEF ResultsAreOwn
  <2>2. CASE tool'.tests = <<>>
    BY <2>2 DEF ResultsAreOwn
  <2>3. ASSUME NEW b \in Board, NEW g, NEW k, Ends(g, b, k), Rest(g, used["run"]),
               tool'.tests = g.tests
        PROVE  ResultsAreOwn'
    <3>1. PICK r : /\ g.tests = Append(tool.tests, r)
                   /\ r.from \subseteq {r.ex}
                   /\ r.ok => r.from # {}
      BY <2>3, EndResult
    <3>2. tool.tests \in Seq(Result)
      BY DEF NInv, TInv, Rest
    <3>3. /\ Len(g.tests) = Len(tool.tests) + 1 /\ Len(tool.tests) \in Nat
          /\ \A i \in 1 .. Len(tool.tests) : g.tests[i] = tool.tests[i]
          /\ g.tests[Len(tool.tests) + 1] = r
      <4>1. /\ Len(Append(tool.tests, r)) = Len(tool.tests) + 1 /\ Len(tool.tests) \in Nat
            /\ \A i \in 1 .. Len(tool.tests) : Append(tool.tests, r)[i] = tool.tests[i]
            /\ Append(tool.tests, r)[Len(tool.tests) + 1] = r
        <5>1. tool.tests \in Seq(Result \cup {r}) /\ r \in Result \cup {r}
          BY <3>2, SeqMonotonic
        <5> QED
          BY <5>1, Appended
      <4> QED
        BY <3>1, <4>1
    <3>4. ASSUME NEW i \in 1 .. Len(g.tests)
          PROVE  /\ g.tests[i].from \subseteq {g.tests[i].ex}
                 /\ g.tests[i].ok => g.tests[i].from # {}
      <4>1. i \in 1 .. Len(tool.tests) \/ i = Len(tool.tests) + 1
        BY <3>3
      <4> QED
        BY <3>1, <3>3, <4>1 DEF ResultsAreOwn
    <3> QED
      BY <2>3, <3>4 DEF ResultsAreOwn
  <2> QED
    BY <2>1, <2>2, <2>3, TestsStep
<1> QED
  BY <1>1, <1>2, NominalTheorem, PTL DEF Spec

-----------------------------------------------------------------------------
(***************************************************************************)
(* Counting the results of a run.                                          *)
(***************************************************************************)
Full(t) == IF t.sweep THEN SweepLen[t.intf] ELSE 1

Hits(u, t) == {i \in 1 .. Len(u) : u[i].test = t}

Count(u, t) == Cardinality(Hits(u, t))

LEMMA CountAppend ==
  ASSUME NEW u \in Seq(Result), NEW r, NEW t
  PROVE  /\ Count(u, t) \in Nat
         /\ r.test = t => Count(Append(u, r), t) = Count(u, t) + 1
         /\ r.test # t => Count(Append(u, r), t) = Count(u, t)
<1> DEFINE n == Len(u)
           w == Append(u, r)
<1>1. u \in Seq(Result \cup {r}) /\ r \in Result \cup {r}
  BY SeqMonotonic
<1>2. /\ Len(w) = n + 1 /\ n \in Nat /\ (\A i \in 1 .. n : w[i] = u[i]) /\ w[n + 1] = r
  BY <1>1, Appended
<1> HIDE DEF n, w
<1>3. IsFiniteSet(Hits(u, t)) /\ Count(u, t) \in Nat
  <2>1. IsFiniteSet(1 .. n)
    BY <1>2, FS_Interval
  <2>2. Hits(u, t) \subseteq 1 .. n
    BY DEF Hits, n
  <2> QED
    BY <2>1, <2>2, FS_Subset, FS_CardinalityType DEF Count
<1>4. n + 1 \notin Hits(u, t)
  BY <1>2 DEF Hits, n
<1>5. 1 .. n + 1 = (1 .. n) \cup {n + 1}
  BY <1>2
<1>6. ASSUME r.test = t PROVE Hits(w, t) = Hits(u, t) \cup {n + 1}
  BY <1>2, <1>5, <1>6 DEF Hits, n
<1>7. ASSUME r.test # t PROVE Hits(w, t) = Hits(u, t)
  BY <1>2, <1>5, <1>7 DEF Hits, n
<1>8. r.test = t => Count(w, t) = Count(u, t) + 1
  BY <1>3, <1>4, <1>6, FS_AddElement DEF Count
<1>9. r.test # t => Count(w, t) = Count(u, t)
  BY <1>7 DEF Count
<1> QED
  BY <1>3, <1>8, <1>9 DEF w

LEMMA CountNone ==
  \A t : Count(<<>>, t) = 0
<1>1. \A t : Hits(<<>>, t) = {}
  BY DEF Hits
<1> QED
  BY <1>1, FS_EmptySet DEF Count

LEMMA QueueSplit ==
  ASSUME NEW q \in Seq(Test), q # <<>>, Distinct(q)
  PROVE  /\ Head(q) \in Test /\ Head(q) \in ToSet(q) /\ Head(q) \notin ToSet(Tail(q))
         /\ ToSet(q) = {Head(q)} \cup ToSet(Tail(q))
         /\ Tail(q) \in Seq(Test) /\ ToSet(q) \subseteq Test
         /\ Tail(q) # <<>> => ToSet(Tail(q)) = {Head(Tail(q))} \cup ToSet(Tail(Tail(q)))
<1>1. \A s \in Seq(Test) : ToSet(s) = {s[i] : i \in 1 .. Len(s)} /\ Len(s) \in Nat
  BY LenProperties DEF ToSet
<1>2. ASSUME NEW s \in Seq(Test), s # <<>>
      PROVE  /\ Tail(s) \in Seq(Test) /\ Len(Tail(s)) = Len(s) - 1 /\ Len(s) >= 1
             /\ Head(s) = s[1] /\ \A i \in 1 .. Len(s) - 1 : Tail(s)[i] = s[i + 1]
  BY <1>2, HeadTailProperties, EmptySeq, LenProperties
<1>3. ASSUME NEW s \in Seq(Test), s # <<>>
      PROVE  ToSet(s) = {Head(s)} \cup ToSet(Tail(s))
  <2>1. Len(s) \in Nat /\ Len(s) >= 1 /\ Len(Tail(s)) = Len(s) - 1
    BY <1>1, <1>2, <1>3
  <2>2. \A i \in 1 .. Len(s) : i = 1 \/ (i - 1 \in 1 .. Len(s) - 1 /\ i = (i - 1) + 1)
    BY <2>1
  <2>3. \A i \in 1 .. Len(s) - 1 : i + 1 \in 1 .. Len(s)
    BY <2>1
  <2>4. 1 \in 1 .. Len(s)
    BY <2>1
  <2>5. /\ ToSet(s) = {s[i] : i \in 1 .. Len(s)} /\ Head(s) = s[1]
        /\ ToSet(Tail(s)) = {Tail(s)[i] : i \in 1 .. Len(s) - 1}
        /\ \A i \in 1 .. Len(s) - 1 : Tail(s)[i] = s[i + 1]
    <3>1. Tail(s) \in Seq(Test)
      BY <1>2, <1>3
    <3> QED
      BY <1>1, <1>2, <1>3, <2>1, <3>1
  <2>6. ASSUME NEW i \in 1 .. Len(s) PROVE s[i] \in {Head(s)} \cup ToSet(Tail(s))
    <3>1. CASE i = 1
      BY <2>5, <3>1
    <3>2. CASE i - 1 \in 1 .. Len(s) - 1 /\ i = (i - 1) + 1
      <4>1. Tail(s)[i - 1] = s[i]
        BY <2>5, <3>2
      <4>2. Tail(s)[i - 1] \in ToSet(Tail(s))
        BY <2>5, <3>2
      <4> QED
        BY <4>1, <4>2
    <3> QED
      BY <2>2, <3>1, <3>2
  <2>7. ASSUME NEW i \in 1 .. Len(s) - 1 PROVE Tail(s)[i] \in ToSet(s)
    BY <2>3, <2>5
  <2>8. ToSet(s) \subseteq {Head(s)} \cup ToSet(Tail(s))
    BY <2>5, <2>6
  <2>9. {Head(s)} \cup ToSet(Tail(s)) \subseteq ToSet(s)
    BY <2>4, <2>5, <2>7
  <2> QED
    BY <2>8, <2>9
<1>4. Head(q) \in ToSet(q) /\ ToSet(q) = {Head(q)} \cup ToSet(Tail(q)) /\ Tail(q) \in Seq(Test)
  BY <1>2, <1>3
<1>5. ToSet(q) \subseteq Test
  BY <1>1, ElementOfSeq
<1>6. Head(q) \notin ToSet(Tail(q))
  <2>1. \A i \in 1 .. Len(q) - 1 : i + 1 \in 1 .. Len(q) /\ 1 \in 1 .. Len(q) /\ i + 1 # 1
    BY <1>1, <1>2
  <2>2. ASSUME NEW i \in 1 .. Len(q) - 1 PROVE q[i + 1] # q[1]
    BY <2>1 DEF Distinct
  <2>3. ToSet(Tail(q)) = {Tail(q)[i] : i \in 1 .. Len(q) - 1} /\ Head(q) = q[1]
    BY <1>1, <1>2
  <2>4. \A i \in 1 .. Len(q) - 1 : Tail(q)[i] = q[i + 1]
    BY <1>2
  <2> QED
    BY <2>2, <2>3, <2>4
<1> QED
  BY <1>3, <1>4, <1>5, <1>6

-----------------------------------------------------------------------------
(***************************************************************************)
(* What a step does to the run: nothing, the flash button, the beginning   *)
(* of a run, or a result.                                                  *)
(***************************************************************************)
Silent ==
  /\ tool'.stopOn = tool.stopOn /\ tool'.planned = tool.planned /\ tool'.params = tool.params
  /\ tool'.tests = tool.tests /\ tool'.run = tool.run
  /\ tool.stopOn => tool'.q = tool.q
  /\ FlashSent' => FlashSent

Presses == ~tool.stopOn /\ tool' = tool /\ AllPassed(tool) /\ FlashSent'

Starts ==
  /\ ~tool.stopOn /\ tool'.stopOn = TRUE /\ tool'.tests = <<>>
  /\ tool'.q # <<>> /\ tool'.planned = ToSet(tool'.q)
  /\ tool'.params = Begun(tool.params, Head(tool'.q))
  /\ FlashSent' <=> FlashSent

\* Run is pressed with nothing selected.
StartsNothing == ~tool.stopOn /\ tool'.run = tool.run + 1 /\ ~tool'.stopOn

Advances ==
  /\ tool.stopOn /\ ~FlashSent /\ tool'.planned = tool.planned
  /\ \E r : r.test = Head(tool.q) /\ tool'.tests = Append(tool.tests, r)
  /\ \/ /\ Head(tool.q).sweep /\ tool.params[Head(tool.q).intf] > 1
        /\ tool'.stopOn = tool.stopOn /\ tool'.q = tool.q /\ ~FlashSent'
        /\ tool'.params = [tool.params EXCEPT ![Head(tool.q).intf] = @ - 1]
     \/ /\ Head(tool.q).sweep => tool.params[Head(tool.q).intf] = 1
        /\ \/ /\ Tail(tool.q) # <<>> /\ tool'.q = Tail(tool.q)
              /\ tool'.stopOn = tool.stopOn /\ ~FlashSent'
              /\ tool'.params = Begun(Over(tool), Head(tool'.q))
           \/ /\ Tail(tool.q) = <<>> /\ tool'.stopOn = FALSE
              /\ tool'.params = Over(tool)
              /\ FlashSent' => AllPassed(tool')

LEMMA FlashLines ==
  /\ FlashSent <=> \E c \in Board : ~NoFlash(Lines[c].down)
  /\ FlashSent' <=> \E c \in Board : ~NoFlash(Lines'[c].down)
<1>1. FlashSent <=> \E c \in Board : ~NoFlash(Lines[c].down)
  BY LineFacts DEF FlashSent, NoFlash
<1>2. FlashSent' <=> \E c \in Board : ~NoFlash(Lines'[c].down)
  BY LineFacts DEF FlashSent, NoFlash
<1> QED
  BY <1>1, <1>2

\* What is sent stays in the stream until the relay takes it.
LEMMA FlashStays ==
  ASSUME TInv, NEW g, Finish(g), NEW d, NEW m \in Cmd, SendsOne(g, d, m)
  PROVE  FlashSent => FlashSent'
<1>1. \A c \in Board : IsJoin(down'[c], down[c], g.out[c])
  BY SendsType, FinishJoin
<1>2. ASSUME NEW c \in Board, NEW i \in 1 .. Len(down[c])
      PROVE  i \in 1 .. Len(down'[c]) /\ down'[c][i] = down[c][i]
  <2>1. IsJoin(down'[c], down[c], g.out[c])
    BY <1>1
  <2>2. /\ Len(down'[c]) = Len(down[c]) + Len(g.out[c]) /\ Len(down[c]) \in Nat
        /\ Len(g.out[c]) \in Nat
    BY <2>1 DEF IsJoin
  <2>3. down'[c][i] = down[c][i]
    BY <2>1 DEF IsJoin
  <2>4. \A x, y \in Nat : \A z, j : z = x + y /\ j \in 1 .. x => j \in 1 .. z
    OBVIOUS
  <2> QED
    BY <2>2, <2>3, <2>4
<1> QED
  BY <1>2 DEF FlashSent

\* The relay only takes commands out of the streams.
LEMMA FlashTaken ==
  ASSUME TInv, NEW b \in Board,
         RelayRequest(b) \/ RelayConnectFails(b) \/ RelayResponse(b) \/ FwBoot(b) \/ FwTransmit(b)
  PROVE  UNCHANGED tool /\ (FlashSent' => FlashSent)
<1>1. UNCHANGED tool
  BY DEF RelayRequest, RelayConnectFails, RelayResponse, FwBoot, FwTransmit
<1>2. CASE UNCHANGED down
  BY <1>1, <1>2 DEF FlashSent
<1>3. ASSUME NEW n \in Nat, n >= 1, n <= Len(down[b]),
             down' = [down EXCEPT ![b] = SubSeq(down[b], n + 1, Len(down[b]))]
      PROVE  FlashSent' => FlashSent
  <2>1. down \in [Board -> Seq(Cmd)] /\ down[b] \in Seq(Cmd)
    BY TypeFacts
  <2>2. IsRest(down'[b], down[b], n)
    BY <1>3, <2>1, RestOf
  <2>3. \A i \in 1 .. Len(down'[b]) : i + n \in 1 .. Len(down[b]) /\ down'[b][i] = down[b][i + n]
    BY <1>3, <2>2 DEF IsRest
  <2>4. \A c \in Board : c # b => down'[c] = down[c]
    BY <1>3, <2>1
  <2> QED
    BY <2>3, <2>4 DEF FlashSent
<1>4. CASE RelayRequest(b)
  <2>1. PICK n \in 1 .. ReadMax :
          n <= Len(down[b]) /\ down' = [down EXCEPT ![b] = SubSeq(down[b], n + 1, Len(down[b]))]
    BY <1>4 DEF RelayRequest
  <2>2. n \in Nat /\ n >= 1
    BY ToolAssumption
  <2> QED
    BY <1>1, <1>3, <2>1, <2>2
<1>5. CASE RelayConnectFails(b)
  <2>1. down[b] # <<>> /\ down' = [down EXCEPT ![b] = Tail(down[b])]
    BY <1>5 DEF RelayConnectFails
  <2>2. down[b] \in Seq(Cmd)
    BY TypeFacts
  <2>3. Tail(down[b]) = SubSeq(down[b], 2, Len(down[b])) /\ Len(down[b]) >= 1
    BY <2>1, <2>2, HeadTailProperties, EmptySeq, LenProperties
  <2>4. 1 + 1 = 2 /\ 1 \in Nat /\ 1 >= 1
    OBVIOUS
  <2>5. FlashSent' => FlashSent
    BY <1>3, <2>1, <2>3, <2>4
  <2> QED
    BY <1>1, <2>5
<1> QED
  BY <1>2, <1>4, <1>5 DEF RelayResponse, FwBoot, FwTransmit

\* A result arrives when no FLASH_PARAM is under way any more.
LEMMA EndCases ==
  ASSUME NInv, Working(tool, Lines), NEW g, Finish(g), Rest(g, used["run"]), Sound(g),
         NEW k, Mid(k), UNCHANGED <<fw, spi>>, NEW b \in Board, Ends(g, b, k)
  PROVE  Advances
<1>0. /\ TInv /\ IsTool(g) /\ UnderWay(tool, Lines) /\ Execution(g) \in Executions
      /\ tool.stopOn /\ tool.q # <<>>
  BY ExecutionType DEF NInv, Rest, Ends, UnderWay
<1>1. /\ tool'.stopOn = g.stopOn /\ tool'.q = g.q /\ tool'.params = g.params
      /\ tool'.tests = g.tests /\ tool'.planned = g.planned
  BY <1>0, FinishFields DEF Fields
<1>2. \E r : r.test = Head(tool.q) /\ tool'.tests = Append(tool.tests, r)
  BY <1>1, EndResult
<1>3. \A c \in Board : NoFlash(k[c].down)
  <2> DEFINE s == Head(tool.q)
             t == PlainOf(s)
  <2>1. /\ Board = {Receiver(s), Transmitter(s)} /\ Receiver(t) = Receiver(s)
        /\ Transmitter(t) = Transmitter(s)
    BY <1>0, HeadFacts
  <2>2. Flushed(Receiver(s), k[Receiver(s)]) /\ Flushed(Transmitter(s), k[Transmitter(s)])
    BY <2>1 DEF Ends, Arrived, BothFlushed
  <2>3. NoFlash(k["REF"].down)
    <3>1. k["REF"].down = Lines["REF"].down
      BY LineFacts DEF Mid, Board
    <3> QED
      BY <3>1 DEF Working
  <2> HIDE DEF s, t
  <2>4. \A c \in Board : c = "DUT" \/ c = "REF"
    BY DEF Board
  <2>5. \A c \in Board : Flushed(c, k[c])
    BY <2>1, <2>2
  <2> QED
    BY <2>3, <2>4, <2>5 DEF Flushed
<1>4. ~FlashSent
  <2>1. \A c \in Board : k[c].down = Lines[c].down
    BY LineFacts DEF Mid
  <2> QED
    BY <1>3, <2>1, FlashLines
<1>5. ASSUME NEW s \in Test,
             SendsOne(g, Receiver(s), Command("PREPARE", PlainOf(s), Execution(g)))
      PROVE  ~FlashSent'
  <2> DEFINE m == Command("PREPARE", PlainOf(s), Execution(g))
  <2>1. m \in Cmd /\ m.cmd # "FLASH_PARAM"
    <3>1. PlainOf(s) \in Plain
      BY PlainFacts
    <3> QED
      BY <3>1, CommandsOf
  <2> HIDE DEF m
  <2>2. \A c \in Board : NoFlash(Lines'[c].down)
    BY <1>0, <1>3, <1>5, <2>1, SendsOneLines DEF Benign, m
  <2> QED
    BY <2>2, FlashLines
<1>6. CASE NextEntry(g, tool)
  <2>1. Head(tool.q) \in Test
    BY <1>0, HeadFacts
  <2>2. ~FlashSent'
    BY <1>5, <1>6, <2>1 DEF NextEntry
  <2>3. g.stopOn = tool.stopOn /\ g.q = tool.q /\ g.planned = tool.planned
    BY <1>6 DEF NextEntry, Keeps, Fields
  <2> QED
    BY <1>0, <1>1, <1>2, <1>4, <1>6, <2>2, <2>3 DEF Advances, NextEntry
<1>7. CASE NextTest(g, tool)
  <2>1. g.q # <<>> /\ Head(g.q) \in Test
    BY <1>7, HeadTest DEF NextTest
  <2>2. ~FlashSent'
    BY <1>5, <1>7, <2>1 DEF NextTest
  <2>3. g.stopOn = tool.stopOn /\ g.planned = tool.planned
    BY <1>7 DEF NextTest, Keeps, Fields
  <2> QED
    BY <1>0, <1>1, <1>2, <1>4, <1>7, <2>2, <2>3 DEF Advances, NextTest
<1>8. CASE LastTest(g, tool)
  <2>1. g.planned = tool.planned
    BY <1>8 DEF LastTest, Keeps, Fields
  <2>2. FlashSent' => AllPassed(tool')
    <3>1. CASE SendsNone(g)
      <4>1. down' = down
        BY <1>0, <3>1, FinishNone
      <4> QED
        BY <1>4, <4>1 DEF FlashSent
    <3>2. CASE AllPassed(g)
      BY <1>1, <3>2 DEF AllPassed
    <3> QED
      BY <1>8, <3>1, <3>2 DEF LastTest
  <2> QED
    BY <1>0, <1>1, <1>2, <1>4, <1>8, <2>1, <2>2 DEF Advances, LastTest
<1> QED
  BY <1>6, <1>7, <1>8 DEF Ends

LEMMA RunCases ==
  ASSUME NInv, NEW mod \in Modules, RunTest_Click(mod), Use("run"), UNCHANGED <<fw, spi>>
  PROVE  (Starts \/ StartsNothing) /\ tool'.run = tool.run + 1
<1>0. TInv /\ Working(tool, Lines) /\ Idling(tool, Lines) /\ Ready(tool) /\ tool.out = NoSends
  BY RunStep, WorkingReady DEF NInv
<1>1. PICK g : /\ Finish(g) /\ Keeps(g, tool, RunFields) /\ Sound(g)
               /\ g.tests = <<>> /\ g.run = tool.run + 1
               /\ BeginsRun(g) \/ EmptyRun(g)
  BY <1>0, RunReady
<1>2. ~tool.stopOn
  BY <1>0 DEF Idling
<1>3. IsTool(g)
  BY <1>1 DEF Keeps
<1>4. /\ tool'.stopOn = g.stopOn /\ tool'.q = g.q /\ tool'.params = g.params
      /\ tool'.tests = g.tests /\ tool'.planned = g.planned /\ tool'.run = g.run
  BY <1>1, <1>3, FinishFields DEF Fields
<1>5. CASE EmptyRun(g)
  BY <1>1, <1>2, <1>4, <1>5 DEF EmptyRun, StartsNothing
<1>6. CASE BeginsRun(g)
  <2> DEFINE s == Head(g.q)
             m == Command("PREPARE", PlainOf(s), Execution(g))
  <2>1. s \in Test
    BY <1>1, <1>6, HeadTest DEF BeginsRun
  <2>2. m \in Cmd /\ m.cmd = "PREPARE"
    <3>1. Rest(tool', used["run"] + 1)
      <4>1. used["run"] < Bound["run"]
        BY DEF Use
      <4>2. Rest(tool, used["run"]) /\ Sound(tool) /\ down \in [Board -> Seq(Cmd)]
        BY <1>0, TypeFacts
      <4> QED
        BY <4>1, <4>2, RunRest
    <3>2. Execution(tool') = Execution(g)
      BY <1>4 DEF Execution
    <3>3. PlainOf(s) \in Plain
      BY <2>1, PlainFacts
    <3>4. Execution(g) \in Executions
      BY <3>1, <3>2, ExecutionType
    <3> QED
      BY <3>3, <3>4, CmdType DEF Command
  <2>3. SendsOne(g, Receiver(s), m)
    BY <1>6 DEF BeginsRun
  <2> HIDE DEF s, m
  <2>4. FlashSent => FlashSent'
    BY <1>0, <1>1, <2>2, <2>3, FlashStays
  <2>5. FlashSent' => FlashSent
    <3>1. Mid(Lines)
      <4>1. UNCHANGED up
        BY DEF RunTest_Click
      <4> QED
        BY <4>1, MidLines
    <3>2. \A c \in Board : NoFlash(Lines[c].down) => NoFlash(Lines'[c].down)
      BY <1>0, <1>1, <2>2, <2>3, <3>1, SendsOneLines DEF Benign
    <3> QED
      BY <3>2, FlashLines
  <2> QED
    BY <1>1, <1>2, <1>4, <1>6, <2>4, <2>5 DEF Starts, BeginsRun, s
<1> QED
  BY <1>1, <1>4, <1>5, <1>6

LEMMA StepCases ==
  ASSUME Undisturbed, NInv, [Next]_vars
  PROVE  Silent \/ Presses \/ Starts \/ StartsNothing \/ Advances
<1>0. TInv
  BY DEF NInv
<1>1. ASSUME UNCHANGED tool, FlashSent' => FlashSent PROVE Silent
  BY <1>1 DEF Silent
<1>2. CASE System
  <2>1. PICK b \in Board :
          ToolReceive(b) \/ RelayRequest(b) \/ RelayConnectFails(b)
            \/ RelayResponse(b) \/ FwBoot(b) \/ FwTransmit(b)
    BY <1>2 DEF System
  <2>2. CASE ToolReceive(b) /\ StartUp(tool, Lines)
    <3>1. /\ tool'.tests = tool.tests /\ tool'.planned = tool.planned
          /\ tool'.params = tool.params /\ tool'.stopOn = tool.stopOn /\ down' = down
          /\ tool'.run = tool.run /\ ~tool.stopOn
      BY <2>2, DeviceUpStep DEF StartUp
    <3>2. FlashSent' => FlashSent
      BY <3>1 DEF FlashSent
    <3> QED
      BY <3>1, <3>2 DEF Silent
  <2>3. CASE ToolReceive(b) /\ Working(tool, Lines)
    <3>1. PICK g, k :
            /\ Finish(g) /\ Rest(g, used["run"]) /\ Sound(g)
            /\ Mid(k) /\ UNCHANGED <<fw, spi, used>>
            /\ Confirms(g, k) \/ Passes(g, k) \/ Ends(g, b, k)
      BY <2>3, ReceiveCases
    <3>2. /\ tool'.stopOn = g.stopOn /\ tool'.q = g.q /\ tool'.params = g.params
          /\ tool'.tests = g.tests /\ tool'.planned = g.planned /\ tool'.run = g.run
      BY <3>1, FinishFields DEF Rest, Fields
    <3>3. \A c \in Board : k[c].down = Lines[c].down
      BY <3>1, LineFacts DEF Mid
    <3>4. CASE Confirms(g, k)
      <4>2. \A c \in Board : NoFlash(k[c].down) => NoFlash(Lines'[c].down)
        BY <1>0, <3>1, <3>4, ConfirmLines DEF Benign
      <4>3. FlashSent' => FlashSent
        BY <3>3, <4>2, FlashLines
      <4>4. /\ g.stopOn = tool.stopOn /\ g.q = tool.q /\ g.params = tool.params
            /\ g.tests = tool.tests /\ g.planned = tool.planned /\ g.run = tool.run
        BY <3>4 DEF Confirms, Keeps, Fields
      <4> QED
        BY <3>2, <4>3, <4>4 DEF Silent
    <3>5. CASE Passes(g, k)
      <4>1. FlashSent' => FlashSent
        BY <3>3, <3>5, FlashLines DEF Passes
      <4>2. /\ g.stopOn = tool.stopOn /\ g.q = tool.q /\ g.params = tool.params
            /\ g.tests = tool.tests /\ g.planned = tool.planned /\ g.run = tool.run
        BY <3>5 DEF Passes, Goes, Keeps, Fields
      <4> QED
        BY <3>2, <4>1, <4>2 DEF Silent
    <3>6. CASE Ends(g, b, k)
      BY <2>3, <3>1, <3>6, EndCases
    <3> QED
      BY <3>1, <3>4, <3>5, <3>6
  <2>4. CASE ~ToolReceive(b)
    BY <1>0, <1>1, <2>1, <2>4, FlashTaken
  <2> QED
    BY <2>2, <2>3, <2>4 DEF NInv, Good
<1>3. CASE Operator
  <2>1. UNCHANGED <<fw, spi>>
    BY <1>3 DEF Operator, fwVars
  <2>2. \/ \E mod \in Modules : RunTest_Click(mod) /\ Use("run")
        \/ \E t \in Test : CheckBox_Click(t)
        \/ btn_flashParams_Click
    BY <1>0, <1>3, Unused DEF Operator
  <2>3. ASSUME NEW t \in Test, CheckBox_Click(t) PROVE Silent
    <3> DEFINE g == Toggle(tool, t)
    <3>1. Keeps(g, tool, {"q", "box"}) /\ Finish(g) /\ down' = down /\ Idling(tool, Lines)
      BY <2>1, <2>3, ClickStep
    <3> HIDE DEF g
    <3>2. /\ tool'.stopOn = tool.stopOn /\ tool'.params = tool.params
          /\ tool'.tests = tool.tests /\ tool'.planned = tool.planned /\ tool'.run = tool.run
      BY <3>1, FinishFields DEF Keeps, Fields
    <3>3. (FlashSent' => FlashSent) /\ ~tool.stopOn
      BY <3>1 DEF FlashSent, Idling
    <3> QED
      BY <3>2, <3>3 DEF Silent
  <2>4. ASSUME btn_flashParams_Click PROVE Silent \/ Presses
    <3>1. tool' = tool /\ (down' = down \/ AllPassed(tool))
      BY <2>1, <2>4, FlashStep
    <3>2. ~tool.stopOn
      BY <2>4 DEF btn_flashParams_Click, Idle
    <3>3. CASE down' = down
      <4>1. FlashSent' => FlashSent
        BY <3>3 DEF FlashSent
      <4> QED
        BY <1>1, <3>1, <4>1
    <3>4. CASE AllPassed(tool)
      BY <1>1, <3>1, <3>2, <3>4 DEF Presses
    <3> QED
      BY <3>1, <3>3, <3>4
  <2> QED
    BY <2>1, <2>2, <2>3, <2>4, RunCases
<1>4. CASE Fault
  BY <1>0, <1>4, Unused DEF Fault
<1>5. CASE UNCHANGED vars
  <2>1. UNCHANGED tool /\ (FlashSent' => FlashSent)
    BY <1>5 DEF vars, FlashSent
  <2> QED
    BY <1>1, <2>1
<1> QED
  BY <1>2, <1>3, <1>4, <1>5 DEF Next

-----------------------------------------------------------------------------
(***************************************************************************)
(* The books of a run: a test that left the queue has all its results, one *)
(* that waits has none, and of a sweep at the head of the queue the results*)
(* and the parameters left make up the whole list.                         *)
(***************************************************************************)
Finished(h) ==
  /\ \A i \in Intf : h.params[i] = 0
  /\ \A t \in h.planned : Count(h.tests, t) = Full(t)

Advanced(h) ==
  /\ ToSet(h.q) \subseteq h.planned
  /\ \A t \in h.planned \ ToSet(h.q) : Count(h.tests, t) = Full(t)
  /\ \A t \in ToSet(Tail(h.q)) : Count(h.tests, t) = 0
  /\ Head(h.q).sweep => Count(h.tests, Head(h.q)) + h.params[Head(h.q).intf] = Full(Head(h.q))
  /\ ~Head(h.q).sweep => Count(h.tests, Head(h.q)) = 0
  /\ \A i \in Intf : (Head(h.q).sweep /\ i = Head(h.q).intf) \/ h.params[i] = 0

CInv ==
  /\ tool.planned \subseteq Test /\ tool.stopOn \in BOOLEAN
  /\ tool.stopOn => Advanced(tool)
  /\ ~tool.stopOn => Finished(tool) /\ (FlashSent => AllPassed(tool))

\* The queue and the parameters of a run under way.
LEMMA RunFacts ==
  ASSUME NInv, tool.stopOn
  PROVE  /\ tool.q # <<>> /\ tool.q \in Seq(Test) /\ Distinct(tool.q)
         /\ tool.tests \in Seq(Result) /\ tool.params \in [Intf -> Nat]
         /\ Head(tool.q).sweep => tool.params[Head(tool.q).intf] > 0
<1>1. UnderWay(tool, Lines)
  BY DEF NInv, Good, StartUp, Working, Idling
<1> QED
  BY <1>1, TypeFacts DEF UnderWay, Sound, Rest, NInv

\* The first test of a queue begins.
LEMMA BegunAdvanced ==
  ASSUME NEW h, h.q # <<>>, h.q \in Seq(Test), Distinct(h.q), NEW p \in [Intf -> Nat],
         \A i \in Intf : p[i] = 0, h.params = Begun(p, Head(h.q)), ToSet(h.q) \subseteq h.planned,
         \A t \in h.planned \ ToSet(h.q) : Count(h.tests, t) = Full(t),
         \A t \in ToSet(h.q) : Count(h.tests, t) = 0
  PROVE  Advanced(h)
<1> DEFINE s == Head(h.q)
<1>1. /\ s \in Test /\ s \in ToSet(h.q) /\ ToSet(h.q) = {s} \cup ToSet(Tail(h.q))
  BY QueueSplit
<1> HIDE DEF s
<1>2. s.intf \in Intf
  BY <1>1, PlainFacts
<1>3. Count(h.tests, s) = 0
  BY <1>1
<1>4. ASSUME s.sweep PROVE h.params[s.intf] = SweepLen[s.intf] /\ Full(s) = SweepLen[s.intf]
  <2>1. h.params[s.intf] = p[s.intf] + SweepLen[s.intf]
    BY <1>2, <1>4 DEF Begun, s
  <2>2. p[s.intf] = 0 /\ SweepLen[s.intf] \in Nat
    BY <1>2, ToolAssumption
  <2> QED
    BY <1>4, <2>1, <2>2 DEF Full
<1>5. s.sweep => Count(h.tests, s) + h.params[s.intf] = Full(s)
  <2>1. SweepLen[s.intf] \in Nat
    BY <1>2, ToolAssumption
  <2> QED
    BY <1>3, <1>4, <2>1
<1>6. ASSUME NEW i \in Intf PROVE (s.sweep /\ i = s.intf) \/ h.params[i] = 0
  BY <1>2 DEF Begun, s
<1> QED
  BY <1>1, <1>3, <1>5, <1>6 DEF Advanced, s

LEMMA CountStep ==
  ASSUME NInv, CInv, NInv', Silent \/ Presses \/ Starts \/ Advances
  PROVE  CInv'
<1>1. CASE Silent
  <2>1. CASE tool.stopOn
    BY <1>1, <2>1 DEF Silent, CInv, Advanced
  <2>2. CASE ~tool.stopOn
    BY <1>1, <2>2 DEF Silent, CInv, Finished, AllPassed
  <2> QED
    BY <2>1, <2>2
<1>2. CASE Presses
  BY <1>2 DEF Presses, CInv, Finished, AllPassed
<1>3. CASE Starts
  <2>1. tool'.q # <<>> /\ tool'.q \in Seq(Test) /\ Distinct(tool'.q)
    BY <1>3 DEF Starts, NInv, TInv, Sound
  <2>2. tool.params \in [Intf -> Nat] /\ \A i \in Intf : tool.params[i] = 0
    BY <1>3, TypeFacts DEF NInv, CInv, Starts, Finished, Rest
  <2>3. /\ tool'.params = Begun(tool.params, Head(tool'.q)) /\ tool'.planned = ToSet(tool'.q)
        /\ tool'.tests = <<>> /\ tool'.stopOn = TRUE
    BY <1>3 DEF Starts
  <2>4. \A t : Count(tool'.tests, t) = 0
    BY <2>3, CountNone
  <2>5. Advanced(tool')
    BY <2>1, <2>2, <2>3, <2>4, BegunAdvanced
  <2>6. tool'.planned \subseteq Test
    BY <2>1, <2>3, QueueSplit
  <2> QED
    BY <2>3, <2>5, <2>6 DEF CInv
<1>4. CASE Advances
  <2> DEFINE s == Head(tool.q)
  <2>0. tool.stopOn /\ tool.planned \subseteq Test /\ tool'.planned = tool.planned /\ Advanced(tool)
    BY <1>4 DEF Advances, CInv
  <2>1. /\ tool.q # <<>> /\ tool.q \in Seq(Test) /\ Distinct(tool.q)
        /\ tool.tests \in Seq(Result) /\ tool.params \in [Intf -> Nat]
    BY <2>0, RunFacts
  <2>2. /\ s \in Test /\ s \in ToSet(tool.q) /\ s \notin ToSet(Tail(tool.q))
        /\ ToSet(tool.q) = {s} \cup ToSet(Tail(tool.q)) /\ Tail(tool.q) \in Seq(Test)
    BY <2>1, QueueSplit
  <2>3. PICK r : r.test = s /\ tool'.tests = Append(tool.tests, r)
    BY <1>4 DEF Advances
  <2>4. /\ \A t : Count(tool.tests, t) \in Nat
        /\ \A t : t # s => Count(tool'.tests, t) = Count(tool.tests, t)
        /\ Count(tool'.tests, s) = Count(tool.tests, s) + 1
    <3>1. ASSUME NEW t
          PROVE  /\ Count(tool.tests, t) \in Nat
                 /\ r.test = t => Count(tool'.tests, t) = Count(tool.tests, t) + 1
                 /\ r.test # t => Count(tool'.tests, t) = Count(tool.tests, t)
      <4>1. /\ Count(tool.tests, t) \in Nat
            /\ r.test = t => Count(Append(tool.tests, r), t) = Count(tool.tests, t) + 1
            /\ r.test # t => Count(Append(tool.tests, r), t) = Count(tool.tests, t)
        BY <2>1, CountAppend
      <4> QED
        BY <2>3, <4>1
    <3> QED
      BY <2>3, <3>1
  <2>5. s.intf \in Intf /\ SweepLen[s.intf] \in Nat
    BY <2>2, PlainFacts, ToolAssumption
  <2>6. /\ ToSet(tool.q) \subseteq tool.planned
        /\ \A t \in tool.planned \ ToSet(tool.q) : Count(tool.tests, t) = Full(t)
        /\ \A t \in ToSet(Tail(tool.q)) : Count(tool.tests, t) = 0
        /\ s.sweep => Count(tool.tests, s) + tool.params[s.intf] = Full(s)
        /\ ~s.sweep => Count(tool.tests, s) = 0
        /\ \A i \in Intf : (s.sweep /\ i = s.intf) \/ tool.params[i] = 0
    BY <2>0 DEF Advanced
  <2> HIDE DEF s
  <2>7. CASE /\ s.sweep /\ tool.params[s.intf] > 1
             /\ tool'.stopOn = tool.stopOn /\ tool'.q = tool.q
             /\ tool'.params = [tool.params EXCEPT ![s.intf] = @ - 1]
    <3>1. tool'.params[s.intf] = tool.params[s.intf] - 1
      BY <2>1, <2>5, <2>7
    <3>2. tool.params[s.intf] \in Nat /\ Count(tool.tests, s) \in Nat
      BY <2>1, <2>4, <2>5
    <3>3. Count(tool'.tests, s) + tool'.params[s.intf] = Full(s)
      <4>1. Count(tool.tests, s) + tool.params[s.intf] = Full(s)
        BY <2>6, <2>7
      <4>2. Count(tool'.tests, s) = Count(tool.tests, s) + 1
        BY <2>4
      <4> QED
        BY <3>1, <3>2, <4>1, <4>2
    <3>4. \A i \in Intf : (s.sweep /\ i = s.intf) \/ tool'.params[i] = 0
      BY <2>1, <2>6, <2>7
    <3>5. \A t \in tool.planned \ ToSet(tool.q) : Count(tool'.tests, t) = Full(t)
      BY <2>2, <2>4, <2>6
    <3>6. \A t \in ToSet(Tail(tool.q)) : Count(tool'.tests, t) = 0
      BY <2>2, <2>4, <2>6
    <3>7. Advanced(tool')
      BY <2>0, <2>6, <2>7, <3>3, <3>4, <3>5, <3>6 DEF Advanced, s
    <3> QED
      BY <2>0, <2>7, <3>7 DEF CInv
  <2>8. CASE s.sweep => tool.params[s.intf] = 1
    <3>1. Count(tool'.tests, s) = Full(s)
      <4>1. CASE s.sweep
        <5>1. Count(tool.tests, s) + 1 = Full(s)
          BY <2>6, <2>8, <4>1
        <5> QED
          BY <2>4, <5>1
      <4>2. CASE ~s.sweep
        <5>1. Count(tool.tests, s) = 0 /\ Full(s) = 1
          BY <2>6, <4>2 DEF Full
        <5> QED
          BY <2>4, <5>1
      <4> QED
        BY <4>1, <4>2
    <3>2. \A i \in Intf : Over(tool)[i] = 0
      BY <2>1, <2>5, <2>6 DEF Over, s
    <3>3. Over(tool) \in [Intf -> Nat]
      BY <2>1, <2>5 DEF Over, s
    <3>4. \A t \in tool.planned \ ToSet(Tail(tool.q)) : Count(tool'.tests, t) = Full(t)
      BY <2>2, <2>4, <2>6, <3>1
    <3>5. \A t \in ToSet(Tail(tool.q)) : Count(tool'.tests, t) = 0
      BY <2>2, <2>4, <2>6
    <3>6. CASE /\ Tail(tool.q) # <<>> /\ tool'.q = Tail(tool.q) /\ tool'.stopOn = tool.stopOn
               /\ tool'.params = Begun(Over(tool), Head(tool'.q))
      <4>1. Distinct(tool'.q)
        BY DEF NInv, TInv, Sound
      <4>2. ToSet(tool'.q) \subseteq tool'.planned
        BY <2>0, <2>2, <2>6, <3>6
      <4>3. Advanced(tool')
        BY <2>0, <2>2, <3>2, <3>3, <3>4, <3>5, <3>6, <4>1, <4>2, BegunAdvanced
      <4> QED
        BY <2>0, <3>6, <4>3 DEF CInv
    <3>7. CASE /\ Tail(tool.q) = <<>> /\ tool'.stopOn = FALSE
               /\ tool'.params = Over(tool)
               /\ FlashSent' => AllPassed(tool')
      <4>1. ToSet(Tail(tool.q)) = {}
        BY <3>7 DEF ToSet
      <4>2. Finished(tool')
        BY <2>0, <3>2, <3>4, <3>7, <4>1 DEF Finished
      <4> QED
        BY <2>0, <3>7, <4>2 DEF CInv
    <3> QED
      BY <1>4, <2>7, <2>8, <3>6, <3>7 DEF Advances, s
  <2> QED
    BY <1>4, <2>7, <2>8 DEF Advances, s
<1> QED
  BY <1>1, <1>2, <1>3, <1>4

\* Run is pressed only when a test is selected.
SelectedRun == tool'.run # tool.run => tool'.stopOn

LEMMA CountInit == Init => CInv
<1> SUFFICES ASSUME Init PROVE CInv
  OBVIOUS
<1>1. /\ tool.planned = {} /\ tool.stopOn = FALSE /\ tool.params = [i \in Intf |-> 0]
      /\ down = NoSends
  BY DEF Init, ToolInit
<1>2. ~FlashSent
  BY <1>1 DEF FlashSent, NoSends
<1> QED
  BY <1>1, <1>2 DEF CInv, Finished

LEMMA NotNothing ==
  ASSUME NInv, [SelectedRun]_vars
  PROVE  ~StartsNothing
<1>1. tool.run \in Nat
  BY TypeFacts DEF NInv, Rest
<1>2. tool.run + 1 # tool.run
  BY <1>1
<1>3. CASE SelectedRun
  BY <1>2, <1>3 DEF SelectedRun, StartsNothing
<1>4. CASE UNCHANGED vars
  BY <1>2, <1>4 DEF vars, StartsNothing
<1> QED
  BY <1>3, <1>4

\* The books are right as long as Run is only pressed with a test selected: no
\* result is skipped or recorded twice, for any sweep lists and any clicks.
THEOREM BooksTheorem ==
  ASSUME Undisturbed
  PROVE  Spec /\ [][SelectedRun]_vars => []CInv
<1>1. NInv /\ NInv' /\ CInv /\ [Next]_vars /\ [SelectedRun]_vars => CInv'
  BY StepCases, NotNothing, CountStep
<1> QED
  BY <1>1, CountInit, NominalTheorem, PTL DEF Spec

LEMMA BooksFlash == CInv => FlashedAfterAllTests
<1>1. \A t : ResultsOf(t) = Hits(tool.tests, t)
  BY DEF ResultsOf, Hits
<1> QED
  BY <1>1 DEF CInv, Finished, FlashedAfterAllTests, Running, Count, Full

-----------------------------------------------------------------------------
(***************************************************************************)
(* The tester implements ProductionRun.                                    *)
(***************************************************************************)
LEMMA TodoIs == Todo = {t \in tool.planned : Count(tool.tests, t) < Full(t)}
  BY DEF Todo, ResultsOf, Count, Hits, Full

LEMMA TodoFields ==
  ASSUME tool'.planned = tool.planned, tool'.tests = tool.tests
  PROVE  Todo' = Todo
  BY DEF Todo, ResultsOf

LEMMA FullPositive ==
  ASSUME NEW t \in Test
  PROVE  Full(t) \in Nat /\ Full(t) > 0
<1>1. t.intf \in Intf
  BY PlainFacts
<1>2. SweepLen[t.intf] \in Nat \ {0}
  BY <1>1, ToolAssumption
<1> QED
  BY <1>2 DEF Full

LEMMA FlashBoolean ==
  /\ FlashSent \in BOOLEAN /\ FlashSent' \in BOOLEAN
  /\ (FlashSent' <=> FlashSent) => FlashSent' = FlashSent
<1>1. FlashSent \in BOOLEAN /\ FlashSent' \in BOOLEAN
  BY DEF FlashSent
<1> QED
  BY <1>1

LEMMA RefinesInit == Init => Run!Init
<1> SUFFICES ASSUME Init PROVE Run!Init
  OBVIOUS
<1>1. tool.planned = {} /\ tool.stopOn = FALSE /\ down = NoSends
  BY DEF Init, ToolInit
<1>2. ~FlashSent
  BY <1>1 DEF FlashSent, NoSends
<1>3. Todo = {}
  BY <1>1 DEF Todo
<1> QED
  BY <1>1, <1>2, <1>3 DEF Run!Init, Running

\* Every step of the tester is a step of the abstract run or leaves it alone.
LEMMA RefinesNext ==
  ASSUME NInv, CInv, NInv', CInv', Silent \/ Presses \/ Starts \/ Advances
  PROVE  [Run!Next]_(Run!vars)
<1>1. CASE Silent
  <2>1. Todo' = Todo /\ Running' = Running
    BY <1>1, TodoFields DEF Silent, Running
  <2>2. CASE FlashSent /\ ~FlashSent'
    BY <2>1, <2>2 DEF Run!Next, Run!Taken
  <2>3. CASE FlashSent' <=> FlashSent
    <3>1. FlashSent' = FlashSent
      BY <2>3, FlashBoolean
    <3> QED
      BY <2>1, <3>1 DEF Run!vars
  <2> QED
    BY <1>1, <2>2, <2>3 DEF Silent
<1>2. CASE Presses
  <2>1. Todo' = Todo /\ Running' = Running /\ ~Running /\ FlashSent'
    BY <1>2, TodoFields DEF Presses, Running
  <2>2. Todo = {}
    <3>1. ASSUME NEW t \in tool.planned PROVE ~(Count(tool.tests, t) < Full(t))
      <4>1. Count(tool.tests, t) = Full(t) /\ t \in Test
        BY <1>2 DEF CInv, Presses, Finished
      <4>2. Full(t) \in Nat
        BY <4>1, FullPositive
      <4> QED
        BY <4>1, <4>2
    <3> QED
      BY <3>1, TodoIs
  <2> QED
    BY <2>1, <2>2 DEF Run!Next, Run!Flash
<1>3. CASE Starts
  <2>1. /\ ~tool.stopOn /\ tool'.stopOn = TRUE /\ tool'.tests = <<>>
        /\ tool'.q # <<>> /\ tool'.planned = ToSet(tool'.q) /\ tool'.q \in Seq(Test)
        /\ Distinct(tool'.q)
    BY <1>3 DEF Starts, NInv, TInv, Sound
  <2>2. Todo' = tool'.planned
    <3>1. Todo' = {t \in tool'.planned : Count(tool'.tests, t) < Full(t)}
      BY DEF Todo, ResultsOf, Count, Hits, Full
    <3>2. ASSUME NEW t \in tool'.planned PROVE Count(tool'.tests, t) < Full(t)
      <4>1. t \in Test
        BY DEF CInv
      <4>2. Count(tool'.tests, t) = 0
        BY <2>1, CountNone
      <4> QED
        BY <4>1, <4>2, FullPositive
    <3> QED
      BY <3>1, <3>2
  <2>3. Head(tool'.q) \in tool'.planned /\ tool'.planned \subseteq Test
    BY <2>1, QueueSplit
  <2>4. FlashSent' = FlashSent
    BY <1>3, FlashBoolean DEF Starts
  <2> QED
    BY <2>1, <2>2, <2>3, <2>4 DEF Run!Next, Run!Start, Running
<1>4. CASE Advances
  <2> DEFINE s == Head(tool.q)
  <2>0. /\ tool.stopOn /\ tool.planned \subseteq Test /\ tool'.planned = tool.planned
        /\ Advanced(tool) /\ ~FlashSent
    BY <1>4 DEF Advances, CInv
  <2>1. /\ tool.q # <<>> /\ tool.q \in Seq(Test) /\ Distinct(tool.q)
        /\ tool.tests \in Seq(Result) /\ tool.params \in [Intf -> Nat]
        /\ s.sweep => tool.params[s.intf] > 0
    BY <2>0, RunFacts
  <2>2. /\ s \in Test /\ s \in ToSet(tool.q) /\ s \notin ToSet(Tail(tool.q))
        /\ ToSet(tool.q) = {s} \cup ToSet(Tail(tool.q)) /\ Tail(tool.q) \in Seq(Test)
        /\ Tail(tool.q) # <<>> => Head(Tail(tool.q)) \in ToSet(Tail(tool.q))
    BY <2>1, QueueSplit
  <2>3. PICK r : r.test = s /\ tool'.tests = Append(tool.tests, r)
    BY <1>4 DEF Advances
  <2>4. \A t : t # s => Count(tool'.tests, t) = Count(tool.tests, t)
    <3>1. ASSUME NEW t, t # s PROVE Count(tool'.tests, t) = Count(tool.tests, t)
      <4>1. r.test # t => Count(Append(tool.tests, r), t) = Count(tool.tests, t)
        BY <2>1, CountAppend
      <4> QED
        BY <2>3, <3>1, <4>1
    <3> QED
      BY <3>1
  <2>5. s.intf \in Intf /\ tool.params[s.intf] \in Nat /\ Count(tool.tests, s) \in Nat
    BY <2>1, <2>2, PlainFacts, CountAppend
  <2>6. /\ s \in tool.planned
        /\ \A t \in ToSet(Tail(tool.q)) : Count(tool.tests, t) = 0
        /\ \A t \in tool.planned \ ToSet(tool.q) : Count(tool.tests, t) = Full(t)
        /\ ToSet(tool.q) \subseteq tool.planned
    BY <2>0, <2>2 DEF Advanced
  <2>7. Count(tool.tests, s) < Full(s)
    <3>1. CASE s.sweep
      <4>1. Count(tool.tests, s) + tool.params[s.intf] = Full(s) /\ tool.params[s.intf] > 0
        BY <2>0, <2>1, <3>1 DEF Advanced
      <4> QED
        BY <2>5, <4>1
    <3>2. CASE ~s.sweep
      <4>1. Count(tool.tests, s) = 0
        BY <2>0, <3>2 DEF Advanced
      <4> QED
        BY <2>2, <4>1, FullPositive
    <3> QED
      BY <3>1, <3>2
  <2>8. /\ Todo = {t \in tool.planned : Count(tool.tests, t) < Full(t)}
        /\ Todo' = {t \in tool.planned : Count(tool'.tests, t) < Full(t)}
    BY <2>0 DEF Todo, ResultsOf, Count, Hits, Full
  <2>9. s \in Todo
    BY <2>6, <2>7, <2>8
  <2>10. CASE /\ s.sweep /\ tool.params[s.intf] > 1 /\ tool'.stopOn = tool.stopOn
              /\ tool'.q = tool.q /\ ~FlashSent'
    <3>1. Count(tool'.tests, s) < Full(s)
      <4>1. Count(tool'.tests, s) = Count(tool.tests, s) + 1
        <5>1. r.test = s => Count(Append(tool.tests, r), s) = Count(tool.tests, s) + 1
          BY <2>1, CountAppend
        <5> QED
          BY <2>3, <5>1
      <4>2. Count(tool.tests, s) + tool.params[s.intf] = Full(s) /\ tool.params[s.intf] > 1
        BY <2>0, <2>10 DEF Advanced
      <4> QED
        BY <2>5, <4>1, <4>2
    <3>2. Todo' = Todo
      BY <2>4, <2>7, <2>8, <3>1
    <3>3. FlashSent' = FlashSent
      BY <2>0, <2>10, FlashBoolean
    <3>4. Running' = Running
      BY <2>10 DEF Running
    <3> QED
      BY <3>2, <3>3, <3>4 DEF Run!vars
  <2>11. CASE /\ Tail(tool.q) # <<>> /\ tool'.q = Tail(tool.q) /\ tool'.stopOn = tool.stopOn
              /\ ~FlashSent'
    <3>1. Count(tool'.tests, s) = Full(s)
      BY <2>0, <2>2, <2>6, <2>11 DEF CInv, Advanced
    <3>2. Todo' = Todo \ {s}
      <4>1. ~(Count(tool'.tests, s) < Full(s))
        BY <2>2, <3>1, FullPositive
      <4> QED
        BY <2>4, <2>8, <4>1
    <3>3. Head(Tail(tool.q)) \in Todo'
      <4> DEFINE u == Head(Tail(tool.q))
      <4>1. u \in ToSet(Tail(tool.q)) /\ u # s
        BY <2>2, <2>11
      <4> HIDE DEF u
      <4>2. u \in tool.planned /\ u \in Test /\ Count(tool'.tests, u) = 0
        BY <2>0, <2>2, <2>4, <2>6, <4>1
      <4>3. Count(tool'.tests, u) < Full(u)
        BY <4>2, FullPositive
      <4> QED
        BY <2>8, <4>2, <4>3 DEF u
    <3>4. tool.stopOn = TRUE /\ tool'.stopOn = TRUE
      BY <2>0, <2>11 DEF CInv
    <3>5. Running' = (Todo' # {})
      BY <3>3, <3>4 DEF Running
    <3> QED
      BY <2>9, <2>11, <3>2, <3>4, <3>5 DEF Run!Next, Run!Complete, Running
  <2>12. CASE Tail(tool.q) = <<>> /\ tool'.stopOn = FALSE
    <3>1. ASSUME NEW t \in tool.planned PROVE ~(Count(tool'.tests, t) < Full(t))
      <4>1. Count(tool'.tests, t) = Full(t) /\ t \in Test
        BY <2>0, <2>12 DEF CInv, Finished
      <4>2. Full(t) \in Nat
        BY <4>1, FullPositive
      <4> QED
        BY <4>1, <4>2
    <3>2. Todo' = {}
      BY <2>8, <3>1
    <3>3. Todo = {s}
      <4>1. ToSet(Tail(tool.q)) = {}
        BY <2>12 DEF ToSet
      <4>2. ASSUME NEW t \in tool.planned, t # s PROVE ~(Count(tool.tests, t) < Full(t))
        BY <2>4, <3>1, <4>2
      <4> QED
        BY <2>8, <2>9, <4>2
    <3>4. Running' = (Todo' # {}) /\ Running /\ Running' = FALSE
      BY <2>0, <2>12, <3>2 DEF Running
    <3>5. Todo' = Todo \ {s}
      BY <3>2, <3>3
    <3> QED
      BY <2>9, <3>4, <3>5 DEF Run!Next, Run!Complete
  <2> QED
    BY <1>4, <2>10, <2>11, <2>12 DEF Advances
<1> QED
  BY <1>1, <1>2, <1>3, <1>4

-----------------------------------------------------------------------------
(***************************************************************************)
(* When the operator leaves the boxes alone, a sweep of the next board is  *)
(* always selected, so Run never finds an empty queue.                     *)
(***************************************************************************)
Holds(q, t) == \E i \in 1 .. Len(q) : q[i] = t

LEMMA RemoveOther ==
  ASSUME NEW S, NEW q \in Seq(S), NEW t, NEW u, t # u, Holds(q, t)
  PROVE  Holds(RemoveFirst(q, u), t)
<1>0. Len(q) \in Nat
  BY LenProperties
<1>1. CASE ~ \E i \in 1 .. Len(q) : q[i] = u
  <2>1. RemoveFirst(q, u) = q
    BY <1>1 DEF RemoveFirst
  <2> QED
    BY <2>1
<1>2. CASE \E i \in 1 .. Len(q) : q[i] = u
  <2> DEFINE I == {i \in 1 .. Len(q) : q[i] = u}
             p == Min(I)
             r == RemoveAt(q, p)
  <2>1. RemoveFirst(q, u) = r
    BY <1>2 DEF RemoveFirst, SelectInSeq
  <2>2. I # {} /\ I \subseteq Nat
    BY <1>2
  <2>3. p \in I
    <3> HIDE DEF I
    <3> QED
      BY <2>2, Smallest
  <2>4. p \in 1 .. Len(q) /\ q[p] = u
    BY <2>3
  <2> HIDE DEF p, I
  <2>5. /\ Len(r) = Len(q) - 1
        /\ \A i \in 1 .. Len(q) - 1 : r[i] = IF i < p THEN q[i] ELSE q[i + 1]
    BY <2>4, RemoveAtQueue
  <2> HIDE DEF r
  <2>6. PICK j \in 1 .. Len(q) : q[j] = t
    BY DEF Holds
  <2>7. j # p
    BY <2>4, <2>6
  <2>8. CASE j < p
    <3>1. j \in 1 .. Len(q) - 1
      BY <1>0, <2>4, <2>8
    <3>2. r[j] = t
      BY <2>5, <2>6, <2>8, <3>1
    <3> QED
      BY <2>1, <2>5, <3>1, <3>2 DEF Holds
  <2>9. CASE ~(j < p)
    <3>1. j - 1 \in 1 .. Len(q) - 1 /\ ~(j - 1 < p) /\ (j - 1) + 1 = j
      BY <1>0, <2>4, <2>7, <2>9
    <3>2. r[j - 1] = t
      BY <2>5, <2>6, <3>1
    <3> QED
      BY <2>1, <2>5, <3>1, <3>2 DEF Holds
  <2> QED
    BY <2>8, <2>9
<1> QED
  BY <1>1, <1>2

LEMMA AppendHolds ==
  ASSUME NEW q \in Seq(Test), NEW u \in Test
  PROVE  Holds(Append(q, u), u) /\ \A t : Holds(q, t) => Holds(Append(q, u), t)
<1>1. /\ Len(Append(q, u)) = Len(q) + 1 /\ Len(q) \in Nat
      /\ (\A i \in 1 .. Len(q) : Append(q, u)[i] = q[i]) /\ Append(q, u)[Len(q) + 1] = u
  BY Appended
<1>2. /\ Len(q) + 1 \in 1 .. Len(Append(q, u))
      /\ \A i \in 1 .. Len(q) : i \in 1 .. Len(Append(q, u))
  BY <1>1
<1> QED
  BY <1>1, <1>2 DEF Holds

\* What the handlers of the boxes leave in the queue.
LEMMA SetBoxHolds ==
  ASSUME NEW h, Sound(h), NEW u \in Test, NEW v \in BOOLEAN
  PROVE  /\ \A t : t # u /\ t # Twin(u) /\ Holds(h.q, t) => Holds(SetBox(h, u, v).q, t)
         /\ v /\ u.sweep /\ u \notin h.box => Holds(SetBox(h, u, v).q, u)
<1>0. IsTool(h) /\ h.q \in Seq(Test)
  BY DEF Sound
<1> DEFINE B == h.box \cup {u}
           C == h.box \ {u}
           on == [h EXCEPT !.box = B]
           off == [h EXCEPT !.box = C]
           a == Append(h.q, u)
           d == RemoveFirst(h.q, u)
           c == RemoveFirst(a, Twin(u))
<1>1. IsTool(on) /\ on.q = h.q /\ IsTool(off) /\ off.q = h.q
  BY <1>0, SelectBox
<1>2. Twin(u) # u
  BY TestFacts
<1>3. a \in Seq(Test)
  BY <1>0, AppendQueue
<1>4. /\ Holds(a, u) /\ \A t : Holds(h.q, t) => Holds(a, t)
  BY <1>0, AppendHolds
<1>5. /\ \A t : t # u /\ Holds(h.q, t) => Holds(d, t)
      /\ \A t : t # Twin(u) /\ Holds(a, t) => Holds(c, t)
  <2>1. ASSUME NEW t, t # u, Holds(h.q, t) PROVE Holds(d, t)
    BY <1>0, <2>1, RemoveOther
  <2>2. ASSUME NEW t, t # Twin(u), Holds(a, t) PROVE Holds(c, t)
    BY <1>3, <2>2, RemoveOther
  <2> QED
    BY <2>1, <2>2
<1>6. SetBox(h, u, v) = IF v = (u \in h.box) THEN h
                        ELSE IF v THEN Checked(on, u) ELSE Unchecked(off, u)
  BY DEF SetBox
<1> HIDE DEF on, off
<1>7. Unchecked(off, u).q = d
  BY <1>1 DEF Unchecked, IsTool, Fields
<1>8. /\ Checked(on, u).q = h.q \/ Checked(on, u).q = a \/ Checked(on, u).q = c
      /\ u.sweep /\ Checked(on, u).q = h.q => Holds(h.q, u) \/ Checked(on, u).q \in {a, c}
  <2> DEFINE D == on.box \ {Twin(u)}
  <2>1. Checked(on, u) = IF u.sweep
                           THEN IF Contains(h.q, u) THEN on
                                ELSE IF Contains(h.q, Twin(u))
                                       THEN [on EXCEPT !.q = c, !.box = D]
                                       ELSE [on EXCEPT !.q = a]
                           ELSE IF Contains(h.q, u) \/ Contains(h.q, Twin(u)) THEN on
                                  ELSE [on EXCEPT !.q = a]
    BY <1>1 DEF Checked
  <2> HIDE DEF a, c, D
  <2>2. [on EXCEPT !.q = c, !.box = D].q = c /\ [on EXCEPT !.q = a].q = a
    BY <1>1 DEF IsTool, Fields
  <2>3. Contains(h.q, u) => Holds(h.q, u)
    BY DEF Contains, Holds
  <2> QED
    BY <1>1, <2>1, <2>2, <2>3
<1> HIDE DEF a, c, d
<1>9. ASSUME NEW t, t # u, t # Twin(u), Holds(h.q, t) PROVE Holds(SetBox(h, u, v).q, t)
  BY <1>4, <1>5, <1>6, <1>7, <1>8, <1>9
<1>10. ASSUME v, u.sweep, u \notin h.box PROVE Holds(SetBox(h, u, v).q, u)
  <2>1. SetBox(h, u, v) = Checked(on, u)
    BY <1>6, <1>10
  <2>2. Holds(a, u) /\ Holds(c, u)
    BY <1>2, <1>4, <1>5
  <2> QED
    BY <1>8, <1>10, <2>1, <2>2
<1> QED
  BY <1>9, <1>10

DefaultTest == SweepTest(IF Capability = "PLC" THEN "PLC" ELSE "RF", "TX")

LEMMA DefaultFacts ==
  /\ DefaultTest \in Test /\ DefaultTest.sweep /\ DefaultTest.dir = "TX"
  /\ DefaultTest.intf = "PLC" <=> Capability = "PLC"
  /\ Holds(NextBoard, DefaultTest)
  /\ \A u \in Test : u.dir = "RX" \/ u.intf # DefaultTest.intf =>
       DefaultTest # u /\ DefaultTest # Twin(u)
<1>1. /\ DefaultTest \in Test /\ DefaultTest.sweep /\ DefaultTest.dir = "TX"
      /\ DefaultTest.intf = "PLC" <=> Capability = "PLC"
  BY DEF DefaultTest, SweepTest, Test, Intf
<1>2. Holds(NextBoard, DefaultTest)
  <2>1. NextBoard[1] = DefaultTest /\ Len(NextBoard) = 2
    BY DEF NextBoard, DefaultTest
  <2>2. 1 \in 1 .. Len(NextBoard)
    BY <2>1
  <2> QED
    BY <2>1, <2>2 DEF Holds
<1>3. ASSUME NEW u \in Test, u.dir = "RX" \/ u.intf # DefaultTest.intf
      PROVE  DefaultTest # u /\ DefaultTest # Twin(u)
  <2>1. Twin(u).dir = u.dir /\ Twin(u).intf = u.intf
    BY DEF Twin, Test
  <2> QED
    BY <1>1, <1>3, <2>1
<1> QED
  BY <1>1, <1>2, <1>3

LEMMA FillHolds ==
  ASSUME NEW h, Sound(h), h.box = {}
  PROVE  Holds(EnableTests2(h, Capability).q, DefaultTest)
<1> DEFINE i == IF Capability = "PLC" THEN "PLC" ELSE "RF"
           u == SweepTest(i, "RX")
           g == SetBox(h, DefaultTest, TRUE)
<1>1. EnableTests2(h, Capability) = SetBox(g, u, TRUE)
  BY DEF EnableTests2, DefaultTest
<1>2. u \in Test /\ u.dir = "RX"
  BY DEF SweepTest, Test, Intf
<1> HIDE DEF i, u
<1>3. Sound(g) /\ Holds(g.q, DefaultTest)
  BY DefaultFacts, SetBoxHolds, SetBoxSound
<1> HIDE DEF g
<1> QED
  BY <1>1, <1>2, <1>3, DefaultFacts, SetBoxHolds

LEMMA SerialHolds ==
  ASSUME NEW h, Sound(h), NEW mod \in BOOLEAN, Holds(h.q, DefaultTest)
  PROVE  Holds(ForSerial(h, Capability, mod).q, DefaultTest)
<1> DEFINE on(d) == [PlainTest("PLC", d) EXCEPT !.sweep = mod]
           off(d) == [PlainTest("PLC", d) EXCEPT !.sweep = ~mod]
           g1 == Enable(h, on("RX"))
           g2 == Enable(g1, on("TX"))
           g3 == Disable(g2, off("RX"))
           g4 == Disable(g3, off("TX"))
<1>1. ForSerial(h, Capability, mod) = IF Capability # "RF_PLC" THEN h ELSE g4
  BY DEF ForSerial
<1>2. CASE Capability # "RF_PLC"
  BY <1>1, <1>2
<1>3. CASE Capability = "RF_PLC"
  <2>0. (~mod) \in BOOLEAN
    OBVIOUS
  <2>1. on("RX") \in Test /\ on("TX") \in Test /\ off("RX") \in Test /\ off("TX") \in Test
    BY <2>0, PlainSweepTests
  <2>2. /\ on("RX").intf = "PLC" /\ on("TX").intf = "PLC" /\ off("RX").intf = "PLC"
        /\ off("TX").intf = "PLC"
    BY DEF PlainTest
  <2> HIDE DEF on, off
  <2>3. ASSUME NEW f, Sound(f), Holds(f.q, DefaultTest), NEW u \in Test, u.intf = "PLC"
        PROVE  /\ Sound(Enable(f, u)) /\ Holds(Enable(f, u).q, DefaultTest)
               /\ Sound(Disable(f, u)) /\ Holds(Disable(f, u).q, DefaultTest)
    <3>1. DefaultTest # u /\ DefaultTest # Twin(u)
      BY <1>3, <2>3, DefaultFacts
    <3>2. Sound(SetBox(f, u, FALSE)) /\ Holds(SetBox(f, u, FALSE).q, DefaultTest)
      BY <2>3, <3>1, SetBoxHolds, SetBoxSound
    <3>3. Holds(SetBox(SetBox(f, u, FALSE), u, TRUE).q, DefaultTest)
      BY <3>1, <3>2, SetBoxHolds
    <3> QED
      BY <2>3, <3>2, <3>3, EnableSound DEF Enable, Disable
  <2>4. Sound(g1) /\ Holds(g1.q, DefaultTest)
    BY <2>1, <2>2, <2>3
  <2> HIDE DEF g1
  <2>5. Sound(g2) /\ Holds(g2.q, DefaultTest)
    BY <2>1, <2>2, <2>3, <2>4
  <2> HIDE DEF g2
  <2>6. Sound(g3) /\ Holds(g3.q, DefaultTest)
    BY <2>1, <2>2, <2>3, <2>5
  <2> HIDE DEF g3
  <2>7. Holds(g4.q, DefaultTest)
    BY <2>1, <2>2, <2>3, <2>6
  <2> QED
    BY <1>1, <1>3, <2>7
<1> QED
  BY <1>2, <1>3

\* Unchecking a box takes its own test out of the queue and no other.
LEMMA UncheckHolds ==
  ASSUME NEW h, Sound(h), NEW u \in Test
  PROVE  /\ \A t : t # u /\ Holds(h.q, t) => Holds(SetBox(h, u, FALSE).q, t)
         /\ u \notin SetBox(h, u, FALSE).box
<1> DEFINE C == h.box \ {u}
           off == [h EXCEPT !.box = C]
           d == RemoveFirst(h.q, u)
<1>0. IsTool(h) /\ h.q \in Seq(Test)
  BY DEF Sound
<1>1. SetBox(h, u, FALSE) = IF u \notin h.box THEN h ELSE Unchecked(off, u)
  BY DEF SetBox
<1>2. IsTool(off) /\ off.q = h.q /\ off.box = C
  BY <1>0, SelectBox
<1>3. u \notin C
  OBVIOUS
<1> HIDE DEF C, off
<1>4. Unchecked(off, u).q = d /\ Unchecked(off, u).box = C
  BY <1>2 DEF Unchecked, IsTool, Fields
<1>5. ASSUME NEW t, t # u, Holds(h.q, t) PROVE Holds(d, t)
  BY <1>0, <1>5, RemoveOther
<1> HIDE DEF d
<1> QED
  BY <1>1, <1>3, <1>4, <1>5

\* For a module Run selects the PLC sweep, whatever was checked before: the sweep
\* is checked anew and drives out the plain test before that is disabled.
LEMMA ModuleHolds ==
  ASSUME NEW h, Sound(h), Capability = "RF_PLC"
  PROVE  Holds(ForSerial(h, Capability, TRUE).q, SweepTest("PLC", "TX"))
<1> DEFINE s(d) == [PlainTest("PLC", d) EXCEPT !.sweep = TRUE]
           p(d) == [PlainTest("PLC", d) EXCEPT !.sweep = ~TRUE]
           g1 == Enable(h, s("RX"))
           f2 == SetBox(g1, s("TX"), FALSE)
           g2 == SetBox(f2, s("TX"), TRUE)
           g3 == Disable(g2, p("RX"))
           g4 == Disable(g3, p("TX"))
<1>1. ForSerial(h, Capability, TRUE) = g4
  <2>1. Enable(g1, s("TX")) = g2
    BY DEF Enable
  <2>2. ForSerial(h, Capability, TRUE) = Disable(Disable(Enable(g1, s("TX")), p("RX")), p("TX"))
    BY DEF ForSerial
  <2> QED
    BY <2>1, <2>2
<1>2. /\ s("RX") \in Test /\ s("TX") \in Test /\ p("RX") \in Test /\ p("TX") \in Test
      /\ s("TX").sweep /\ s("TX") # p("RX") /\ s("TX") # p("TX")
      /\ s("TX") = SweepTest("PLC", "TX")
  <2>1. \A d \in {"TX", "RX"} : s(d) \in Test /\ p(d) \in Test
    <3>1. TRUE \in BOOLEAN /\ (~TRUE) \in BOOLEAN
      OBVIOUS
    <3> QED
      BY <3>1, PlainSweepTests
  <2>2. s("TX").sweep = TRUE /\ p("RX").sweep = FALSE /\ p("TX").sweep = FALSE
    BY DEF PlainTest
  <2>3. s("TX") = SweepTest("PLC", "TX")
    <3>1. s("TX").intf = "PLC" /\ s("TX").dir = "TX"
      BY DEF PlainTest
    <3>2. \A x \in Test : x = [intf |-> x.intf, dir |-> x.dir, sweep |-> x.sweep]
      BY DEF Test
    <3> HIDE DEF s
    <3> QED
      BY <2>1, <2>2, <3>1, <3>2 DEF SweepTest
  <2> QED
    BY <2>1, <2>2, <2>3
<1> HIDE DEF s, p
<1>3. Sound(g1)
  BY <1>2, EnableSound
<1> HIDE DEF g1
<1>4. Sound(f2) /\ s("TX") \notin f2.box
  BY <1>2, <1>3, SetBoxSound, UncheckHolds
<1> HIDE DEF f2
<1>5. Sound(g2) /\ Holds(g2.q, s("TX"))
  BY <1>2, <1>4, SetBoxSound, SetBoxHolds
<1> HIDE DEF g2
<1>6. Sound(g3) /\ Holds(g3.q, s("TX"))
  BY <1>2, <1>5, SetBoxSound, UncheckHolds DEF Disable
<1> HIDE DEF g3
<1>7. Holds(g4.q, s("TX"))
  BY <1>2, <1>6, UncheckHolds DEF Disable
<1> QED
  BY <1>1, <1>2, <1>7

QInv ==
  /\ tool.devicesUP => tool.up = Board
  /\ tool.up # Board => tool.q = <<>> /\ tool.box = {}
  /\ tool.up = Board /\ ~tool.stopOn => Holds(tool.q, DefaultTest)

LEMMA QueueKept ==
  ASSUME QInv, tool'.devicesUP = tool.devicesUP, tool'.up = tool.up, tool'.q = tool.q,
         tool'.box = tool.box, tool'.stopOn = tool.stopOn
  PROVE  QInv'
  BY DEF QInv

\* The second board is listed: the tests are selected.
LEMMA DeviceUpQueue ==
  ASSUME NInv, QInv, StartUp(tool, Lines), NEW b \in Board, ToolReceive(b)
  PROVE  QInv'
<1>0. /\ TInv /\ tool.out = NoSends /\ ~tool.testRunning /\ ~tool.sweepTestRunning
      /\ tool.up # Board /\ tool.q = <<>> /\ tool.box = {} /\ ~tool.devicesUP
  BY DEF NInv, Good, StartUp, QInv
<1>1. PICK ok : Finish(Handled(tool, b, Head(up[b]), ok)) /\ up[b] # <<>>
  BY <1>0, ReadStep
<1>2. up[b] = <<DevUp>> /\ tool.listed[b] = 0
  <2>1. ComingUp(tool, b, Lines[b])
    BY DEF StartUp
  <2> QED
    BY <1>1, <2>1, LineFacts DEF ComingUp
<1> DEFINE U == tool.up \cup {b}
           g == Handled(tool, b, DevUp, ok)
<1>3. Head(up[b]) = DevUp
  BY <1>2
<1>4. /\ g.up = U
      /\ U # Board => Keeps(g, tool, {"up", "listed"})
      /\ U = Board => Keeps(g, tool, {"up", "listed", "devicesUP", "runOn", "boxOn", "q", "box"})
  BY <1>0, <1>2, DeviceUpReady
<1>5. Finish(g) /\ IsTool(g)
  BY <1>1, <1>3, <1>4 DEF Keeps
<1>6. CASE U # Board
  <2> HIDE DEF g
  <2>1. tool'.up = g.up /\ tool'.q = g.q /\ tool'.box = g.box /\ tool'.devicesUP = g.devicesUP
    BY <1>5, FinishFields DEF Fields
  <2>2. g.q = tool.q /\ g.box = tool.box /\ g.devicesUP = tool.devicesUP
    BY <1>4, <1>6 DEF Keeps, Fields
  <2> QED
    BY <1>0, <1>4, <1>6, <2>1, <2>2 DEF QInv
<1>7. CASE U = Board
  <2> DEFINE li == [tool.listed EXCEPT ![b] = @ + 1]
             x == [tool EXCEPT !.up = U, !.listed = li]
             B == x.boxOn \cup TestsOf(Capability)
             y == [x EXCEPT !.devicesUP = TRUE, !.runOn = TRUE, !.boxOn = B]
  <2>1. g = isDeviceUP(tool, b)
    BY <1>0 DEF Handled, DevUp, Frame, DeviceUp
  <2>2. isDeviceUP(tool, b) = IF x.up = Board THEN EnableTests2(y, Capability) ELSE x
    BY DEF isDeviceUP
  <2> HIDE DEF li, U
  <2>3. IsTool(tool) /\ Sound(tool)
    BY <1>0, TypeFacts
  <2>4. IsTool(x) /\ x.up = U /\ x.q = tool.q /\ x.box = tool.box
    BY <2>3 DEF IsTool, Fields
  <2> HIDE DEF x, B
  <2>5. IsTool(y) /\ y.q = tool.q /\ y.box = tool.box
    BY <2>4 DEF IsTool, Fields
  <2> HIDE DEF y
  <2>6. Sound(y)
    BY <2>3, <2>5, Kept
  <2>7. g = EnableTests2(y, Capability)
    BY <1>7, <2>1, <2>2, <2>4
  <2>8. Holds(g.q, DefaultTest)
    BY <1>0, <2>5, <2>6, <2>7, FillHolds
  <2> HIDE DEF g
  <2>9. tool'.up = g.up /\ tool'.q = g.q
    BY <1>5, FinishFields DEF Fields
  <2> QED
    BY <1>4, <1>7, <2>8, <2>9 DEF QInv, U
<1> QED
  BY <1>6, <1>7

\* Run finds the sweep in the queue, whatever the serial number.
LEMMA RunQueue ==
  ASSUME NInv, QInv, NEW mod \in Modules, RunTest_Click(mod), Use("run"), UNCHANGED <<fw, spi>>
  PROVE  QInv' /\ tool'.stopOn
<1>0. /\ TInv /\ Working(tool, Lines) /\ Idling(tool, Lines) /\ Ready(tool)
      /\ tool.out = NoSends
  BY RunStep, WorkingReady DEF NInv
<1>1. tool.up = Board /\ Holds(tool.q, DefaultTest)
  BY <1>0 DEF QInv, Working, Idling
<1> DEFINE n == [tool EXCEPT !.tests = <<>>, !.summary = "new", !.run = @ + 1,
                             !.status = NullStatus]
<1>2. PICK g : /\ Finish(g) /\ Keeps(g, tool, RunFields)
               /\ g.q = ForSerial(n, Capability, mod).q
               /\ BeginsRun(g) \/ EmptyRun(g)
  BY <1>0, RunReady
<1>3. Sound(n) /\ n.q = tool.q
  <2>1. IsTool(tool) /\ Sound(tool)
    BY <1>0, TypeFacts
  <2>2. IsTool(n) /\ n.q = tool.q /\ n.box = tool.box
    BY <2>1 DEF IsTool, Fields
  <2> QED
    BY <2>1, <2>2, Kept
<1> HIDE DEF n
<1>4. mod \in BOOLEAN
  BY ToolAssumption
<1>5. Holds(g.q, DefaultTest)
  BY <1>1, <1>2, <1>3, <1>4, SerialHolds
<1>6. g.q # <<>>
  BY <1>5 DEF Holds
<1>7. IsTool(g) /\ g.up = tool.up
  BY <1>2 DEF Keeps, RunFields, Fields
<1>8. tool'.stopOn = g.stopOn /\ tool'.up = g.up
  BY <1>2, <1>7, FinishFields DEF Fields
<1>9. g.stopOn
  BY <1>2, <1>6 DEF EmptyRun, BeginsRun
<1> QED
  BY <1>1, <1>7, <1>8, <1>9 DEF QInv

LEMMA QueueStep ==
  ASSUME Undisturbed, Bound["click"] = 0, NInv, QInv, [Next]_vars
  PROVE  QInv' /\ [SelectedRun]_vars
<1>0. TInv
  BY DEF NInv
<1>1. ASSUME tool' = tool PROVE QInv' /\ SelectedRun
  BY <1>1, QueueKept DEF SelectedRun
<1>2. CASE System
  <2>1. PICK b \in Board :
          ToolReceive(b) \/ RelayRequest(b) \/ RelayConnectFails(b)
            \/ RelayResponse(b) \/ FwBoot(b) \/ FwTransmit(b)
    BY <1>2 DEF System
  <2>2. CASE ToolReceive(b) /\ StartUp(tool, Lines)
    BY <2>2, DeviceUpStep, DeviceUpQueue DEF SelectedRun
  <2>3. CASE ToolReceive(b) /\ Working(tool, Lines)
    <3>0. tool.up = Board
      BY <2>3 DEF QInv, Working
    <3>1. PICK g, k :
            /\ Finish(g) /\ Rest(g, used["run"]) /\ Sound(g)
            /\ Mid(k) /\ UNCHANGED <<fw, spi, used>>
            /\ Confirms(g, k) \/ Passes(g, k) \/ Ends(g, b, k)
      BY <2>3, ReceiveCases
    <3>2. /\ tool'.stopOn = g.stopOn /\ tool'.q = g.q /\ tool'.box = g.box /\ tool'.up = g.up
          /\ tool'.devicesUP = g.devicesUP /\ tool'.run = g.run
      BY <3>1, FinishFields DEF Rest, Fields
    <3>3. g.run = tool.run
      BY <1>0, <3>1, TypeFacts DEF Rest
    <3>4. CASE Confirms(g, k) \/ Passes(g, k)
      <4>1. Keeps(g, tool, {"status", "out", "dead"})
        BY <3>4, KeepsWeaker DEF Confirms, Passes, Goes
      <4>2. /\ g.stopOn = tool.stopOn /\ g.q = tool.q /\ g.box = tool.box /\ g.up = tool.up
            /\ g.devicesUP = tool.devicesUP
        BY <4>1 DEF Keeps, Fields
      <4> QED
        BY <3>2, <3>3, <4>2, QueueKept DEF SelectedRun
    <3>5. CASE Ends(g, b, k)
      <4>1. CASE NextEntry(g, tool) \/ NextTest(g, tool)
        <5>1. Keeps(g, tool, {"q", "status", "out", "tests", "params", "testRunning",
                              "sweepTestRunning"})
          BY <4>1, KeepsWeaker DEF NextEntry, NextTest
        <5>2. g.stopOn = tool.stopOn /\ g.up = tool.up
          BY <5>1 DEF Keeps, Fields
        <5>3. tool.stopOn
          BY <3>5 DEF Ends, UnderWay
        <5> QED
          BY <3>0, <3>2, <3>3, <5>2, <5>3 DEF QInv, SelectedRun
      <4>2. CASE LastTest(g, tool)
        <5>1. g.up = tool.up /\ g.q = NextBoard
          BY <4>2 DEF LastTest, Keeps, Fields
        <5> QED
          BY <3>0, <3>2, <3>3, <5>1, DefaultFacts DEF QInv, SelectedRun
      <4> QED
        BY <3>5, <4>1, <4>2 DEF Ends
    <3> QED
      BY <3>1, <3>4, <3>5
  <2>4. CASE ~ToolReceive(b)
    BY <1>0, <1>1, <2>1, <2>4, FlashTaken
  <2> QED
    BY <2>2, <2>3, <2>4 DEF NInv, Good
<1>3. CASE Operator
  <2>1. UNCHANGED <<fw, spi>>
    BY <1>3 DEF Operator, fwVars
  <2>2. ~Use("click")
    <3>1. used["click"] \in Nat
      BY <1>0, MaxAssumption DEF TInv
    <3> QED
      BY <3>1 DEF Use
  <2>3. \/ \E mod \in Modules : RunTest_Click(mod) /\ Use("run")
        \/ btn_flashParams_Click
    BY <1>0, <1>3, <2>2, Unused DEF Operator
  <2>4. ASSUME NEW mod \in Modules, RunTest_Click(mod), Use("run") PROVE QInv' /\ SelectedRun
    BY <2>1, <2>4, RunQueue DEF SelectedRun
  <2>5. btn_flashParams_Click => tool' = tool
    BY <2>1, FlashStep
  <2> QED
    BY <1>1, <2>3, <2>4, <2>5
<1>4. CASE Fault
  BY <1>0, <1>4, Unused DEF Fault
<1>5. CASE UNCHANGED vars
  BY <1>1, <1>5 DEF vars
<1> QED
  BY <1>2, <1>3, <1>4, <1>5 DEF Next

\* Run on a module, with any selection.
LEMMA RunModule ==
  ASSUME NInv, Capability = "RF_PLC", TRUE \in Modules, RunTest_Click(TRUE), Use("run"),
         UNCHANGED <<fw, spi>>
  PROVE  tool'.stopOn
<1>0. TInv /\ Working(tool, Lines) /\ Ready(tool) /\ tool.out = NoSends
  BY RunStep, WorkingReady DEF NInv
<1> DEFINE n == [tool EXCEPT !.tests = <<>>, !.summary = "new", !.run = @ + 1,
                             !.status = NullStatus]
<1>1. PICK g : /\ Finish(g) /\ Keeps(g, tool, RunFields)
               /\ g.q = ForSerial(n, Capability, TRUE).q
               /\ BeginsRun(g) \/ EmptyRun(g)
  BY <1>0, RunReady
<1>2. Sound(n)
  <2>1. IsTool(tool) /\ Sound(tool)
    BY <1>0, TypeFacts
  <2>2. IsTool(n) /\ n.q = tool.q /\ n.box = tool.box
    BY <2>1 DEF IsTool, Fields
  <2> QED
    BY <2>1, <2>2, Kept
<1> HIDE DEF n
<1>3. Holds(g.q, SweepTest("PLC", "TX"))
  BY <1>1, <1>2, ModuleHolds
<1>4. g.q # <<>>
  BY <1>3 DEF Holds
<1>5. IsTool(g)
  BY <1>1 DEF Keeps
<1>6. tool'.stopOn = g.stopOn
  BY <1>1, <1>5, FinishFields DEF Fields
<1> QED
  BY <1>1, <1>4, <1>6 DEF EmptyRun, BeginsRun

LEMMA ModuleStep ==
  ASSUME Undisturbed, Capability = "RF_PLC", FALSE \notin Modules, NInv, [Next]_vars
  PROVE  [SelectedRun]_vars
<1>1. TInv /\ TInv'
  BY NextTypes DEF NInv
<1>2. tool.run = used["run"] /\ tool'.run = used'["run"]
  BY <1>1 DEF TInv, Rest
<1>3. ASSUME used'["run"] = used["run"] PROVE SelectedRun
  BY <1>2, <1>3 DEF SelectedRun
<1>4. ASSUME NEW a \in {"scan", "click", "stop", "flash", "reset", "spi"}, Use(a)
      PROVE  SelectedRun
  <2>1. used \in [DOMAIN Bound -> Nat] /\ a \in DOMAIN Bound \ {"all"} /\ a # "run"
    BY <1>1, MaxAssumption DEF TInv
  <2>2. used'["run"] = used["run"]
    BY <1>4, <2>1, UseTypes
  <2> QED
    BY <1>3, <2>2
<1>5. CASE System
  <2>1. used' = used
    BY <1>5 DEF System, ToolReceive, RelayRequest, RelayConnectFails, RelayResponse, FwBoot,
                FwTransmit
  <2> QED
    BY <1>3, <2>1
<1>6. CASE Operator
  <2>1. UNCHANGED <<fw, spi>>
    BY <1>6 DEF Operator, fwVars
  <2>2. ASSUME NEW mod \in Modules, RunTest_Click(mod), Use("run") PROVE SelectedRun
    <3>1. mod = TRUE /\ TRUE \in Modules
      BY ToolAssumption
    <3> QED
      BY <2>1, <2>2, <3>1, RunModule DEF SelectedRun
  <2> QED
    BY <1>4, <1>6, <2>2 DEF Operator
<1>7. CASE Fault
  BY <1>4, <1>7 DEF Fault
<1>8. CASE UNCHANGED vars
  BY <1>8
<1> QED
  BY <1>5, <1>6, <1>7, <1>8 DEF Next

\* The operator leaves the boxes alone, or tests only modules with both interfaces.
AlwaysSelected == Bound["click"] = 0 \/ (Capability = "RF_PLC" /\ FALSE \notin Modules)

\* Every press of Run begins a run when the operator leaves the boxes alone: the
\* sweeps enableTests2 and the end of a run put into qExecStatus survive whatever
\* btnRunTest_Click does to the PLC boxes for the serial number.  For modules it
\* does so after any clicks, because btnRunTest_Click selects their PLC sweeps.
THEOREM SelectedTheorem ==
  ASSUME Undisturbed, AlwaysSelected
  PROVE  Spec => [][SelectedRun]_vars
<1>1. CASE Bound["click"] = 0
  <2>1. Init => QInv
    <3>1. Init => tool.q = <<>> /\ tool.box = {} /\ tool.up = {} /\ tool.devicesUP = FALSE
      BY DEF Init, ToolInit
    <3>2. {} # Board
      BY DEF Board
    <3> QED
      BY <3>1, <3>2 DEF QInv
  <2>2. NInv /\ QInv /\ [Next]_vars => QInv' /\ [SelectedRun]_vars
    BY <1>1, QueueStep
  <2> QED
    BY <2>1, <2>2, NominalTheorem, PTL DEF Spec
<1>2. CASE Capability = "RF_PLC" /\ FALSE \notin Modules
  <2>1. NInv /\ [Next]_vars => [SelectedRun]_vars
    BY <1>2, ModuleStep
  <2> QED
    BY <2>1, NominalTheorem, PTL DEF Spec
<1> QED
  BY <1>1, <1>2 DEF AlwaysSelected

\* FLASH_PARAM is on its way between two runs only after every test the run was
\* started with has its full number of results, all of them passes: for every
\* capability, sweep list, module type and number of runs, as long as no box is
\* clicked, and with any clicks for modules.
THEOREM FlashedTheorem ==
  ASSUME Undisturbed, AlwaysSelected
  PROVE  Spec => []FlashedAfterAllTests
  BY BooksTheorem, SelectedTheorem, BooksFlash, PTL

\* The same with any clicks, as long as Run is not pressed with no test selected:
\* that press clears the results while FLASH_PARAM of the run before may be under way.
THEOREM FlashedSelectedTheorem ==
  ASSUME Undisturbed
  PROVE  Spec /\ [][SelectedRun]_vars => []FlashedAfterAllTests
  BY BooksTheorem, BooksFlash, PTL

LEMMA RefinesSpec ==
  ASSUME Undisturbed
  PROVE  Spec /\ [][SelectedRun]_vars => ImplementsRun
<1>1. NInv /\ NInv' /\ CInv /\ CInv' /\ [Next]_vars /\ [SelectedRun]_vars
        => [Run!Next]_(Run!vars)
  BY StepCases, NotNothing, RefinesNext
<1> QED
  BY <1>1, RefinesInit, BooksTheorem, NominalTheorem, PTL DEF Spec, ImplementsRun, Run!Spec

\* The queue, the sweep lists and the flags of the buttons implement the abstract
\* run: a run works off the tests it was started with, none skipped and none
\* repeated, is over exactly with the last result, and FLASH_PARAM is never sent
\* during a run.
THEOREM ImplementsRunTheorem ==
  ASSUME Undisturbed, AlwaysSelected
  PROVE  Spec => ImplementsRun
  BY RefinesSpec, SelectedTheorem, PTL

-----------------------------------------------------------------------------
(***************************************************************************)
(* No handler ends the process.  Before the first run the status names no  *)
(* test and nothing that could be confirmed is on the lines; afterwards it *)
(* always names one.                                                       *)
(***************************************************************************)
AliveInv ==
  /\ ~tool.dead
  /\ tool.status.test = NoTest =>
       /\ tool.summary = "none"
       /\ Working(tool, Lines) => \A b \in Board : Clear(Lines[b])

LEMMA AliveInit == Init => AliveInv
<1> SUFFICES ASSUME Init PROVE AliveInv
  OBVIOUS
<1>1. tool.dead = FALSE /\ tool.summary = "none" /\ tool.devicesUP = FALSE
  BY DEF Init, ToolInit
<1> QED
  BY <1>1 DEF AliveInv, Working

LEMMA AliveTested ==
  ASSUME tool'.dead = FALSE, tool'.status.test # NoTest
  PROVE  AliveInv'
  BY DEF AliveInv

\* With nothing on the lines only the operator can act.
LEMMA ClearStands ==
  ASSUME NEW b \in Board, Clear(Lines[b])
  PROVE  ~(ToolReceive(b) \/ RelayRequest(b) \/ RelayConnectFails(b)
             \/ RelayResponse(b) \/ FwBoot(b) \/ FwTransmit(b))
<1>1. down[b] = <<>> /\ spi[b] = <<>> /\ up[b] = <<>> /\ fw[b].pc = "main" /\ fw[b].timers = 0
  BY LineFacts DEF Clear, Still
<1>2. ~(ToolReceive(b) \/ RelayRequest(b) \/ RelayConnectFails(b) \/ RelayResponse(b))
  BY <1>1 DEF ToolReceive, messageReceived, RelayRequest, RelayConnectFails, RelayResponse
<1>3. ~FwBoot(b)
  BY <1>1 DEF FwBoot, Boot
<1>4. ~FwTransmit(b)
  <2>1. ~SearchDone(b) /\ \A got : ~PlcFrame(b, got)
    BY <1>1 DEF SearchDone, PlcFrame
  <2>2. \A got, newest : ~RfFrame(b, got, newest)
    <3>1. ~(fw[b].timers > 0)
      BY <1>1
    <3> QED
      BY <3>1 DEF RfFrame
  <2>3. ~TxDone(b)
    BY <1>1 DEF TxDone, Sent
  <2> QED
    BY <2>1, <2>2, <2>3 DEF FwTransmit, Transmit
<1> QED
  BY <1>2, <1>3, <1>4

\* A frame that arrives during or between the runs.
LEMMA AliveReceive ==
  ASSUME NInv, AliveInv, Working(tool, Lines), NEW b \in Board, ToolReceive(b)
  PROVE  AliveInv'
<1>1. tool.status.test # NoTest /\ tool.dead = FALSE
  <2>1. tool.status.test # NoTest
    BY ClearStands DEF AliveInv
  <2>2. tool.dead = FALSE
    BY DEF ToolReceive, messageReceived, AliveInv
  <2> QED
    BY <2>1, <2>2
<1>2. PICK g, k :
        /\ Finish(g) /\ Rest(g, used["run"]) /\ Sound(g)
        /\ Mid(k) /\ UNCHANGED <<fw, spi, used>>
        /\ Confirms(g, k) \/ Passes(g, k) \/ Ends(g, b, k)
  BY ReceiveCases
<1>3. tool'.dead = g.dead /\ tool'.status = g.status
  BY <1>2, FinishFields DEF Rest, Fields
<1>4. CASE Confirms(g, k)
  <2>1. g.dead = tool.dead /\ g.status = tool.status
    BY <1>1, <1>4 DEF Confirms, Keeps, Fields
  <2> QED
    BY <1>1, <1>3, <2>1, AliveTested
<1>5. CASE Passes(g, k)
  <2>1. g.dead = tool.dead /\ g.status.test # NoTest
    BY <1>1, <1>5 DEF Passes, Goes, Keeps, Fields
  <2> QED
    BY <1>1, <1>3, <2>1, AliveTested
<1>6. CASE Ends(g, b, k)
  <2>1. g.status.test # NoTest
    BY <1>1, <1>6 DEF Ends
  <2>2. g.dead = tool.dead
    BY <1>6 DEF Ends, NextEntry, NextTest, LastTest, Keeps, Fields
  <2> QED
    BY <1>1, <1>3, <2>1, <2>2, AliveTested
<1> QED
  BY <1>2, <1>4, <1>5, <1>6

LEMMA AliveRun ==
  ASSUME NInv, AliveInv, [SelectedRun]_vars, NEW mod \in Modules, RunTest_Click(mod), Use("run"),
         UNCHANGED <<fw, spi>>
  PROVE  AliveInv'
<1>0. TInv /\ Working(tool, Lines) /\ Idling(tool, Lines) /\ Ready(tool) /\ tool.out = NoSends
  BY RunStep, WorkingReady DEF NInv
<1>1. PICK g : /\ Finish(g) /\ Keeps(g, tool, RunFields) /\ g.run = tool.run + 1
               /\ BeginsRun(g) \/ EmptyRun(g)
  BY <1>0, RunReady
<1>2. /\ tool'.dead = g.dead /\ tool'.status = g.status /\ tool'.stopOn = g.stopOn
      /\ tool'.run = g.run
  BY <1>1, FinishFields DEF Keeps, Fields
<1>3. ~EmptyRun(g)
  <2>1. ~tool.stopOn
    BY <1>0 DEF Idling
  <2>2. EmptyRun(g) => StartsNothing
    BY <1>1, <1>2, <2>1 DEF EmptyRun, StartsNothing
  <2> QED
    BY <2>2, NotNothing
<1>4. g.dead = tool.dead /\ g.status.test # NoTest
  BY <1>1, <1>3 DEF BeginsRun, Keeps, Fields, RunFields
<1>5. tool.dead = FALSE
  BY DEF RunTest_Click, AliveInv
<1> QED
  BY <1>2, <1>4, <1>5, AliveTested

\* A step that leaves the tool alone, and the lines too once the boards are up.
LEMMA AliveSame ==
  ASSUME NInv, AliveInv, tool' = tool, Working(tool, Lines) => Lines' = Lines
  PROVE  AliveInv'
<1>1. CASE StartUp(tool, Lines)
  <2>1. ~Working(tool', Lines')
    BY <1>1, NotYetWorking
  <2> QED
    BY <2>1 DEF AliveInv
<1>2. CASE Working(tool, Lines)
  BY <1>2 DEF AliveInv
<1> QED
  BY <1>1, <1>2 DEF NInv, Good

LEMMA AliveOperator ==
  ASSUME Undisturbed, NInv, AliveInv, [SelectedRun]_vars, Operator
  PROVE  AliveInv'
<1>0. TInv
  BY DEF NInv
<1>1. UNCHANGED <<fw, spi>>
  BY DEF Operator, fwVars
<1>2. \/ \E mod \in Modules : RunTest_Click(mod) /\ Use("run")
      \/ \E t \in Test : CheckBox_Click(t)
      \/ btn_flashParams_Click
  BY <1>0, Unused DEF Operator
<1>3. ASSUME NEW t \in Test, CheckBox_Click(t) PROVE AliveInv'
  <2> DEFINE g == Toggle(tool, t)
  <2>1. /\ Keeps(g, tool, {"q", "box"}) /\ Finish(g) /\ down' = down /\ UNCHANGED up
        /\ Working(tool, Lines)
    BY <1>1, <1>3, ClickStep DEF CheckBox_Click
  <2> HIDE DEF g
  <2>2. tool'.dead = tool.dead /\ tool'.status = tool.status /\ tool'.summary = tool.summary
    BY <2>1, FinishFields DEF Keeps, Fields
  <2>3. Lines' = Lines
    BY <1>1, <2>1 DEF Lines, Line
  <2> QED
    BY <2>1, <2>2, <2>3 DEF AliveInv
<1>4. ASSUME btn_flashParams_Click PROVE AliveInv'
  <2>1. tool' = tool
    BY <1>1, <1>4, FlashStep
  <2>2. CASE tool.status.test = NoTest
    <3>1. flashParams(tool) = tool /\ tool.out = NoSends
      BY <2>2 DEF AliveInv, flashParams, NInv, Good
    <3>2. Finish(tool) /\ SendsNone(tool) /\ UNCHANGED up
      BY <1>4, <3>1 DEF btn_flashParams_Click, SendsNone, NoSends
    <3>3. down' = down
      BY <1>0, <3>2, FinishNone
    <3>4. Lines' = Lines
      BY <1>1, <3>2, <3>3 DEF Lines, Line
    <3> QED
      BY <2>1, <3>4, AliveSame
  <2>3. CASE tool.status.test # NoTest
    BY <2>1, <2>3 DEF AliveInv
  <2> QED
    BY <2>2, <2>3
<1> QED
  BY <1>1, <1>2, <1>3, <1>4, AliveRun

LEMMA AliveStep ==
  ASSUME Undisturbed, NInv, AliveInv, [Next]_vars, [SelectedRun]_vars
  PROVE  AliveInv'
<1>0. TInv
  BY DEF NInv
<1>1. CASE System
  <2>1. PICK b \in Board :
          ToolReceive(b) \/ RelayRequest(b) \/ RelayConnectFails(b)
            \/ RelayResponse(b) \/ FwBoot(b) \/ FwTransmit(b)
    BY <1>1 DEF System
  <2>2. CASE ToolReceive(b) /\ StartUp(tool, Lines)
    <3>1. /\ tool'.status = tool.status /\ tool'.summary = tool.summary /\ tool'.dead = tool.dead
          /\ Working(tool', Lines') => \A c \in Board : Clear(Lines'[c])
      BY <2>2, DeviceUpStep
    <3> QED
      BY <3>1 DEF AliveInv
  <2>3. CASE ToolReceive(b) /\ Working(tool, Lines)
    BY <2>3, AliveReceive
  <2>4. CASE ~ToolReceive(b)
    <3>1. tool' = tool
      BY <1>0, <2>1, <2>4, FlashTaken
    <3>2. CASE tool.status.test = NoTest
      <4>1. ~Working(tool, Lines)
        BY <2>1, <3>2, ClearStands DEF AliveInv
      <4> QED
        BY <3>1, <4>1, AliveSame
    <3>3. CASE tool.status.test # NoTest
      BY <3>1, <3>3 DEF AliveInv
    <3> QED
      BY <3>2, <3>3
  <2> QED
    BY <2>2, <2>3, <2>4 DEF NInv, Good
<1>2. CASE Operator
  BY <1>2, AliveOperator
<1>3. CASE Fault
  BY <1>0, <1>3, Unused DEF Fault
<1>4. CASE UNCHANGED vars
  <2>1. tool' = tool /\ Lines' = Lines
    BY <1>4 DEF vars, Lines, Line
  <2> QED
    BY <2>1, AliveSame
<1> QED
  BY <1>1, <1>2, <1>3, <1>4 DEF Next

\* No frame that reaches messageReceived ends the process, as long as Run is not
\* pressed with no test selected: qExecStatus.First and the Dequeue of the sweep
\* lists never meet an empty list, and board_disconnect_cmd never converts the -1
\* get_interface returns for TEST_NONE into the byte of the message.
THEOREM NoCrashSelectedTheorem ==
  ASSUME Undisturbed
  PROVE  Spec /\ [][SelectedRun]_vars => []NoCrash
<1>1. NInv /\ AliveInv /\ [Next]_vars /\ [SelectedRun]_vars => AliveInv'
  BY AliveStep
<1>2. AliveInv => NoCrash
  BY DEF AliveInv, NoCrash
<1> QED
  BY <1>1, <1>2, AliveInit, NominalTheorem, PTL DEF Spec

\* The same of the specification alone, for the operators who leave the boxes as
\* they are or test modules.  Elsewhere a press of Run with no test selected sets
\* the status to TEST_NONE while FLASH_PARAM of the run before may be under way.
THEOREM NoCrashTheorem ==
  ASSUME Undisturbed, AlwaysSelected
  PROVE  Spec => []NoCrash
  BY NoCrashSelectedTheorem, SelectedTheorem, PTL

==============================================================================
