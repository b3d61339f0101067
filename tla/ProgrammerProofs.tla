-------------------------- MODULE ProgrammerProofs --------------------------
(***************************************************************************)
(* Proofs about the EEPROM programmer, for every set of commands, number   *)
(* of restarts and size of bytes, buffers and chunks: no byte is lost, the *)
(* two programs stay in step, what is reported as written is, and verify   *)
(* and clear end well only if the EEPROM holds the data or is blank.       *)
(***************************************************************************)
EXTENDS Programmer, SequenceTheorems, TLAPS

Jobs == [op : Ops, addr : Nat, data : Seq(Bytes), done : Nat, verify : BOOLEAN]
Reads == {"read", "verify", "check"}
Writes == {"write", "clear"}

(* The message of a job that waits for w bytes of data, and what the       *)
(* firmware makes of it.                                                   *)
Base(j) == IF j.op \in {"write", "verify"} THEN j.addr + j.done ELSE j.addr
Payload(j) == CASE j.op = "write" -> Part(j, chunk_size)
                [] j.op = "clear" -> Block
                [] OTHER -> << >>
Message(j, w) == CASE j.op = "ping" -> <<AEPC_READY>> \o se_write16(3)
                   [] j.op \in Reads -> rom_read(Base(j), w)
                   [] OTHER -> rom_write(Base(j), Payload(j))
Opcode(j) == CASE j.op = "ping" -> AEPC_READY
               [] j.op \in Reads -> AEPC_READ
               [] OTHER -> AEPC_WRITE
Count(j, w) == IF j.op \in Reads THEN w ELSE Len(Payload(j))

(* Where the bytes of a message m are: p have been read, r are in the      *)
(* board's buffer and t are on their way to it.                            *)
FlowOf(m, p, r, t) ==
  /\ p + Len(r) + Len(t) = Len(m)
  /\ \A k \in 1 .. Len(r) : r[k] = m[p + k]
  /\ \A k \in 1 .. Len(t) : t[k] = m[p + Len(r) + k]
Flow(p) == FlowOf(Message(job, want), p, rx, toDevice)
Silent == rx = << >> /\ toDevice = << >>

(* How much of the data of the job the EEPROM holds.                       *)
Written(n) ==
  \A k \in 1 .. n : rom[(Base(job) + k - 1) % HALF] = Payload(job)[k]
Stored == job.op \in Writes => Written(Len(Payload(job)))

(* The command of the host, at each place of the firmware, as long as no   *)
(* restart has lost a part of it: what is still to be read of the message, *)
(* what has been read, and what is still to be answered.                   *)
Asked ==
  /\ dev = "command" /\ Flow(0) /\ toHost = << >> /\ got = << >>
Parsing ==
  /\ dev = "args" /\ job.op \in Reads \cup Writes /\ cmd = Opcode(job)
  /\ Flow(3 + Len(args)) /\ toHost = << >> /\ got = << >>
  /\ \A k \in 1 .. Len(args) : args[k] = Message(job, want)[3 + k]
Reading ==
  /\ dev = "read" /\ job.op \in Reads /\ Silent
  /\ Len(got) + Len(toHost) + len = want % WORD
  /\ addr = (Base(job) + Len(got) + Len(toHost)) % WORD
Filling ==
  /\ dev = "fill" /\ job.op \in Writes
  /\ Flow(7 + Len(write_buffer)) /\ toHost = << >>
  /\ addr = Base(job) % WORD /\ len = Len(Payload(job))
  /\ \A k \in 1 .. Len(write_buffer) : write_buffer[k] = Payload(job)[k]
Writing ==
  /\ dev = "write" /\ job.op \in Writes /\ Silent /\ toHost = << >>
  /\ addr = Base(job) % WORD /\ len = Len(Payload(job))
  /\ \A k \in 1 .. len : write_buffer[k] = Payload(job)[k]
  /\ Written(i)
Ending ==
  /\ dev = "eoc" /\ Silent /\ Len(got) + Len(toHost) = want % WORD
  /\ Len(write_buffer) <= BufferSize /\ Stored
Answered ==
  /\ dev = "command" /\ Silent /\ Len(got) + Len(toHost) = (want % WORD) + 1
  /\ toHost # << >> => toHost[Len(toHost)] = EOC
  /\ Stored

Live == Asked \/ Parsing \/ Reading \/ Filling \/ Writing \/ Ending \/ Answered

(* A restart answers with READY alone. Finished: the end of command was    *)
(* sent before. Doomed: it was lost, and the host will take READY or wait. *)
AllReady(from) == \A k \in from .. Len(toHost) : toHost[k] = READY
Idling == Silent /\ dev \in {"setup", "command"}
Finished ==
  /\ restarts > 0 /\ Len(got) = want /\ Idling
  /\ toHost # << >> /\ toHost[1] = EOC /\ AllReady(2) /\ Stored
Doomed ==
  /\ restarts > 0
  /\ \/ Len(got) < want
     \/ want = 0 /\ IF toHost = << >> THEN dev = "setup" ELSE toHost[1] = READY
     \/ want > 0 /\ Len(got) = want /\ Idling /\ AllReady(1)

(* Where the host is, what it may still get from the board.                *)
AtPrompt ==
  /\ Idling /\ AllReady(1)
  /\ restarts = 0 => dev = "command" /\ toHost = << >>

Starting ==
  /\ Idling /\ AllReady(1)
  /\ restarts = 0 => IF dev = "setup" THEN toHost = << >> ELSE Len(toHost) = 1
Calling ==
  /\ job.op # "none" /\ (want > 0 => job.op \in Reads)
  /\ job.op = "verify" => want > 0

(* What the host waits for, the board is about to do or has done, or the   *)
(* host will not take for an end of command.                               *)
InTouch ==
  /\ host = "startup" => Starting
  /\ host \in {"prompt", "send"} => AtPrompt
  /\ host = "exited" /\ restarts = 0 => AtPrompt
  /\ host = "await" => Calling /\ (Live \/ Finished \/ Doomed)

(* What the firmware keeps, at each of its places.                         *)
Firmware ==
  /\ dev \notin {"write", "eoc"} => i = 0
  /\ dev = "write" => Len(write_buffer) = len /\ i <= len
  /\ dev \notin {"fill", "write", "eoc"} => write_buffer = << >>
  /\ dev \in {"setup", "command"} => args = << >>
  /\ dev = "args" => Len(args) <= 3

Types ==
  /\ TypeOK
  /\ job \in Jobs
  /\ astray \in BOOLEAN /\ Len(got) <= want

(* The inductive invariant.                                                *)
IInv ==
  /\ Types /\ Firmware
  /\ astray => restarts > 0
  /\ ~astray => InTouch
-----------------------------------------------------------------------------
(* Remainders, bytes and words.                                            *)
LEMMA DivMod == ASSUME NEW a \in Nat, NEW m \in Nat, m > 0
  PROVE /\ a \div m \in Nat /\ a % m \in Nat /\ a % m < m
        /\ a = m * (a \div m) + (a % m)
OBVIOUS
LEMMA ModUnique ==
  ASSUME NEW m \in Nat, m > 0, NEW p \in Int, NEW r \in Nat, r < m,
         NEW a \in Int, a = m * p + r
  PROVE  a % m = r
OBVIOUS
LEMMA Sizes == /\ BYTE \in Nat /\ BYTE > 3
               /\ WORD \in Nat /\ HALF \in Nat /\ HALF > 0 /\ WORD = 2 * HALF
               /\ EOC \in Bytes /\ READY \in Bytes /\ READY # EOC
<1>1. BYTE \in Nat /\ BYTE > 3 /\ BYTE % 2 = 0 /\ READY \in 0 .. BYTE - 2
  BY ProgrammerAssumption
<1> DEFINE b == BYTE \div 2
<1>2. b \in Nat /\ BYTE = 2 * b /\ b > 1
  BY <1>1
<1> HIDE DEF b
<1>3. WORD = 2 * (2 * (b * b))
  BY <1>2 DEF WORD
<1>4. b * b \in Nat /\ b * b > 1
  BY <1>2
<1>5. HALF = 2 * (b * b)
  BY <1>3, <1>4 DEF HALF
<1>6. EOC \in Bytes /\ READY \in Bytes /\ READY # EOC
  BY <1>1 DEF EOC, Bytes
<1>7. QED BY <1>1, <1>3, <1>4, <1>5, <1>6

LEMMA ByteIs == \A n : n \in Bytes <=> n \in Int /\ 0 <= n /\ n < BYTE
BY Sizes DEF Bytes

LEMMA TimesGrows == \A m, n, k \in Nat : m <= n => k * m <= k * n
<1> SUFFICES ASSUME NEW m \in Nat, NEW n \in Nat, NEW k \in Nat, m <= n
             PROVE  k * m <= k * n
  OBVIOUS
<1>1. n = m + (n - m) /\ n - m \in Nat
  OBVIOUS
<1>2. k * n = k * m + k * (n - m)
  BY <1>1
<1>3. k * (n - m) \in Nat /\ k * m \in Nat
  BY <1>1
<1>4. QED BY <1>2, <1>3

LEMMA WordsFit == \A lo, hi \in Bytes : word(lo, hi) \in 0 .. WORD - 1
<1> SUFFICES ASSUME NEW lo \in Bytes, NEW hi \in Bytes
             PROVE  word(lo, hi) \in 0 .. WORD - 1
  OBVIOUS
<1>1. lo \in Nat /\ lo < BYTE /\ hi \in Nat /\ hi <= BYTE - 1 /\ BYTE - 1 \in Nat /\ BYTE \in Nat
  BY Sizes, ByteIs
<1>2. BYTE * hi <= BYTE * (BYTE - 1) /\ BYTE * hi \in Nat
  BY <1>1, TimesGrows
<1>3. BYTE * (BYTE - 1) = WORD - BYTE
  BY <1>1 DEF WORD
<1>4. WORD \in Nat
  BY Sizes
<1>5. QED BY <1>1, <1>2, <1>3, <1>4 DEF word

LEMMA WordsSurvive ==
  ASSUME NEW n \in Nat
  PROVE  /\ se_write16(n)[1] \in Bytes /\ se_write16(n)[2] \in Bytes
         /\ word(se_write16(n)[1], se_write16(n)[2]) = n % WORD
<1> DEFINE q == n \div BYTE
           r == n % BYTE
           p == q \div BYTE
           s == q % BYTE
<1>0. BYTE \in Nat /\ BYTE > 0 /\ WORD = BYTE * BYTE /\ WORD \in Nat /\ WORD > 0
  BY Sizes DEF WORD
<1>1. q \in Nat /\ r \in Nat /\ r < BYTE /\ n = BYTE * q + r
  BY <1>0, DivMod
<1> HIDE DEF q, r
<1>2. p \in Nat /\ s \in Nat /\ s < BYTE /\ q = BYTE * p + s
  BY <1>0, <1>1, DivMod
<1>3. se_write16(n)[1] = r /\ se_write16(n)[2] = s
  BY DEF se_write16, q, r
<1> HIDE DEF p, s
<1>4. r \in Bytes /\ s \in Bytes
  BY <1>1, <1>2, ByteIs
<1>5. word(r, s) \in Nat /\ word(r, s) < WORD
  <2>1. word(r, s) \in 0 .. WORD - 1
    BY <1>4, WordsFit
  <2>2. QED BY <1>0, <2>1
<1>6. n = WORD * p + word(r, s)
  <2>1. BYTE * q = BYTE * (BYTE * p) + BYTE * s
    BY <1>0, <1>1, <1>2
  <2>2. BYTE * (BYTE * p) = (BYTE * BYTE) * p
    BY <1>0, <1>2
  <2>3. BYTE * s \in Int /\ BYTE * q \in Int /\ (BYTE * BYTE) * p \in Int
    BY <1>0, <1>1, <1>2
  <2>4. word(r, s) = r + BYTE * s
    BY DEF word
  <2>5. QED BY <1>0, <1>1, <1>2, <2>1, <2>2, <2>3, <2>4
<1>7. n % WORD = word(r, s)
  <2> DEFINE v == word(r, s)
  <2>1. p \in Int /\ n \in Int /\ v \in Nat /\ v < WORD /\ n = WORD * p + v
    BY <1>2, <1>5, <1>6
  <2> HIDE DEF v
  <2>2. n % WORD = v
    BY <1>0, <2>1, ModUnique
  <2>3. QED BY <2>2 DEF v
<1>8. QED BY <1>3, <1>4, <1>7

LEMMA CellOfAddress ==
  ASSUME NEW n \in Nat, NEW k \in Nat
  PROVE  ((n % WORD) + k) % HALF = (n + k) % HALF
<1> DEFINE p == n \div WORD
           w == n % WORD
<1>1. WORD \in Nat /\ WORD > 0 /\ HALF \in Nat /\ HALF > 0 /\ WORD = 2 * HALF
  BY Sizes
<1>2. p \in Nat /\ w \in Nat /\ n = WORD * p + w
  BY <1>1, DivMod
<1> HIDE DEF p, w
<1> DEFINE u == (w + k) \div HALF
           t == (w + k) % HALF
<1>3. u \in Nat /\ t \in Nat /\ t < HALF /\ w + k = HALF * u + t
  BY <1>1, <1>2, DivMod
<1> HIDE DEF u, t
<1>4. WORD * p = HALF * (2 * p) /\ HALF * (2 * p + u) = HALF * (2 * p) + HALF * u
  BY <1>1, <1>2, <1>3
<1>5. HALF * (2 * p) \in Int /\ HALF * u \in Int
  BY <1>1, <1>2, <1>3
<1>6. n + k = HALF * (2 * p + u) + t
  BY <1>2, <1>3, <1>4, <1>5
<1>7. (n + k) % HALF = t
  <2>1. 2 * p + u \in Int /\ n + k \in Int
    BY <1>2, <1>3
  <2>2. QED BY <1>1, <1>3, <1>6, <2>1, ModUnique
<1>8. QED BY <1>7 DEF t, w

LEMMA WordAdded ==
  ASSUME NEW n \in Nat, NEW k \in Nat
  PROVE  ((n % WORD) + k) % WORD = (n + k) % WORD
<1> DEFINE p == n \div WORD
           w == n % WORD
<1>1. WORD \in Nat /\ WORD > 0
  BY Sizes
<1>2. p \in Nat /\ w \in Nat /\ n = WORD * p + w
  BY <1>1, DivMod
<1> HIDE DEF p, w
<1> DEFINE u == (w + k) \div WORD
           t == (w + k) % WORD
<1>3. u \in Nat /\ t \in Nat /\ t < WORD /\ w + k = WORD * u + t
  BY <1>1, <1>2, DivMod
<1> HIDE DEF u, t
<1>4. WORD * (p + u) = WORD * p + WORD * u /\ WORD * p \in Int /\ WORD * u \in Int
  BY <1>1, <1>2, <1>3
<1>5. n + k = WORD * (p + u) + t /\ p + u \in Int /\ n + k \in Int
  BY <1>2, <1>3, <1>4
<1>6. (n + k) % WORD = t
  BY <1>1, <1>3, <1>5, ModUnique
<1>7. QED BY <1>6 DEF t, w

-----------------------------------------------------------------------------
(* The messages of the protocol, byte by byte.                             *)
LEMMA PartIs ==
  ASSUME NEW j \in Jobs, NEW size \in Nat, size > 0
  PROVE  /\ Part(j, size) \in Seq(Bytes)
         /\ Len(Part(j, size)) <= size
         /\ j.done < Len(j.data) => Len(Part(j, size)) > 0
<1> DEFINE last == IF j.done + size < Len(j.data) THEN j.done + size ELSE Len(j.data)
<1>1. j.data \in Seq(Bytes) /\ Len(j.data) \in Nat /\ j.done \in Nat
  BY LenProperties DEF Jobs
<1>2. last \in Nat /\ last <= Len(j.data) /\ last <= j.done + size
      /\ (j.done < Len(j.data) => j.done < last)
  BY <1>1
<1>3. Part(j, size) = SubSeq(j.data, j.done + 1, last)
  BY DEF Part
<1> HIDE DEF last
<1>4. \A k \in j.done + 1 .. last : j.data[k] \in Bytes
  BY <1>1, <1>2, ElementOfSeq
<1>5. /\ SubSeq(j.data, j.done + 1, last) \in Seq(Bytes)
      /\ Len(SubSeq(j.data, j.done + 1, last)) =
           IF j.done + 1 <= last THEN last - (j.done + 1) + 1 ELSE 0
  BY <1>1, <1>2, SubSeqProperties
<1>6. QED BY <1>1, <1>2, <1>3, <1>5

LEMMA PayloadFits ==
  ASSUME NEW j \in Jobs
  PROVE  /\ Payload(j) \in Seq(Bytes)
         /\ Len(Payload(j)) <= HALF /\ Len(Payload(j)) <= BufferSize
         /\ Header + Len(Payload(j)) <= RxSize
         /\ j.op \notin Writes => Payload(j) = << >>
<1>1. /\ chunk_size \in Nat /\ chunk_size > 0 /\ chunk_size <= HALF
      /\ CLEAR_BLOCK \in Nat /\ CLEAR_BLOCK <= HALF
      /\ Header + chunk_size <= RxSize /\ Header + CLEAR_BLOCK <= RxSize
      /\ chunk_size <= BufferSize /\ CLEAR_BLOCK <= BufferSize
      /\ RxSize \in Nat /\ BufferSize \in Nat
  BY Sizes, ProgrammerAssumption
<1>2. Block \in Seq(Bytes) /\ Len(Block) = CLEAR_BLOCK
  BY <1>1, Sizes, IsASeq DEF Block
<1>3. << >> \in Seq(Bytes) /\ Len(<< >>) = 0
  BY EmptySeq
<1>4. CASE j.op = "write"
  <2>1. Payload(j) = Part(j, chunk_size)
    BY <1>4 DEF Payload
  <2>2. QED BY <1>1, <1>4, <2>1, PartIs, LenProperties, Sizes DEF Writes, Header
<1>5. CASE j.op = "clear"
  <2>1. Payload(j) = Block
    BY <1>5 DEF Payload
  <2>2. QED BY <1>1, <1>2, <1>5, <2>1 DEF Writes
<1>6. CASE j.op \notin Writes
  <2>1. Payload(j) = << >>
    BY <1>6 DEF Payload, Writes
  <2>2. QED BY <1>1, <1>3, <1>6, <2>1, Sizes DEF Header
<1>7. QED BY <1>4, <1>5, <1>6 DEF Writes


LEMMA Glued ==
  ASSUME NEW s \in Seq(Bytes), NEW t \in Seq(Bytes)
  PROVE  /\ s \o t \in Seq(Bytes) /\ Len(s \o t) = Len(s) + Len(t)
         /\ \A k \in 1 .. Len(s) : (s \o t)[k] = s[k]
         /\ \A k \in 1 .. Len(t) : (s \o t)[Len(s) + k] = t[k]
<1>1. Len(s) \in Nat /\ Len(t) \in Nat
  BY LenProperties
<1>2. /\ s \o t \in Seq(Bytes) /\ Len(s \o t) = Len(s) + Len(t)
      /\ \A k \in 1 .. Len(s) + Len(t) : (s \o t)[k] =
            IF k <= Len(s) THEN s[k] ELSE t[k - Len(s)]
  BY ConcatProperties
<1>3. ASSUME NEW k \in 1 .. Len(s) PROVE (s \o t)[k] = s[k]
  BY <1>1, <1>2
<1>4. ASSUME NEW k \in 1 .. Len(t) PROVE (s \o t)[Len(s) + k] = t[k]
  <2>1. Len(s) + k \in 1 .. Len(s) + Len(t) /\ ~(Len(s) + k <= Len(s))
        /\ (Len(s) + k) - Len(s) = k
    BY <1>1
  <2>2. QED BY <1>2, <2>1
<1>5. QED BY <1>2, <1>3, <1>4

LEMMA WordIsPair ==
  ASSUME NEW n \in Nat
  PROVE  se_write16(n) \in Seq(Bytes) /\ Len(se_write16(n)) = 2
<1>1. se_write16(n)[1] \in Bytes /\ se_write16(n)[2] \in Bytes
  BY WordsSurvive
<1>2. QED BY <1>1 DEF se_write16

Framed(c, n, a, l, d) ==
  <<c>> \o se_write16(n) \o se_write16(a) \o se_write16(l) \o d

Laid(m, c, a, l, d) ==
  /\ m \in Seq(Bytes) /\ Len(m) = 7 + Len(d)
  /\ m[1] = c
  /\ word(m[4], m[5]) = a % WORD
  /\ word(m[6], m[7]) = l % WORD
  /\ \A k \in 1 .. Len(d) : m[7 + k] = d[k]

LEMMA MessageOf ==
  ASSUME NEW c \in Bytes, NEW n \in Nat, NEW a \in Nat, NEW l \in Nat,
         NEW d \in Seq(Bytes)
  PROVE  Laid(Framed(c, n, a, l, d), c, a, l, d)
<1> DEFINE m == Framed(c, n, a, l, d)
<1> DEFINE x == se_write16(a)
           y == se_write16(l)
           f1 == <<c>>
           f3 == f1 \o se_write16(n)
           f5 == f3 \o x
           f7 == f5 \o y
<1>1. /\ x \in Seq(Bytes) /\ Len(x) = 2 /\ y \in Seq(Bytes) /\ Len(y) = 2
      /\ word(x[1], x[2]) = a % WORD /\ word(y[1], y[2]) = l % WORD
  BY WordIsPair, WordsSurvive
<1>2. f1 \in Seq(Bytes) /\ Len(f1) = 1 /\ f1[1] = c
  OBVIOUS
<1>3. m = f7 \o d
  BY DEF Framed
<1> HIDE DEF x, y, f1, m
<1>4. f3 \in Seq(Bytes) /\ Len(f3) = 3 /\ f3[1] = c
  <2>1. se_write16(n) \in Seq(Bytes) /\ Len(se_write16(n)) = 2
    BY WordIsPair
  <2>2. /\ f3 \in Seq(Bytes) /\ Len(f3) = Len(f1) + Len(se_write16(n))
        /\ \A k \in 1 .. Len(f1) : f3[k] = f1[k]
    BY <1>2, <2>1, Glued
  <2>3. QED BY <1>2, <2>1, <2>2
<1> HIDE DEF f3
<1>5. /\ f5 \in Seq(Bytes) /\ Len(f5) = 5 /\ f5[1] = c
      /\ f5[4] = x[1] /\ f5[5] = x[2]
  <2>1. /\ f5 \in Seq(Bytes) /\ Len(f5) = Len(f3) + Len(x)
        /\ \A k \in 1 .. Len(f3) : f5[k] = f3[k]
        /\ \A k \in 1 .. Len(x) : f5[Len(f3) + k] = x[k]
    BY <1>1, <1>4, Glued
  <2> HIDE DEF f5
  <2>2. f5[3 + 1] = x[1] /\ f5[3 + 2] = x[2]
    BY <1>1, <1>4, <2>1
  <2>3. QED BY <1>1, <1>4, <2>1, <2>2
<1> HIDE DEF f5
<1>6. /\ f7 \in Seq(Bytes) /\ Len(f7) = 7 /\ f7[1] = c
      /\ f7[4] = x[1] /\ f7[5] = x[2] /\ f7[6] = y[1] /\ f7[7] = y[2]
  <2>1. /\ f7 \in Seq(Bytes) /\ Len(f7) = Len(f5) + Len(y)
        /\ \A k \in 1 .. Len(f5) : f7[k] = f5[k]
        /\ \A k \in 1 .. Len(y) : f7[Len(f5) + k] = y[k]
    BY <1>1, <1>5, Glued
  <2> HIDE DEF f7
  <2>2. f7[5 + 1] = y[1] /\ f7[5 + 2] = y[2]
    BY <1>1, <1>5, <2>1
  <2>3. \A k \in 1 .. 5 : f7[k] = f5[k]
    BY <1>5, <2>1
  <2>4. f7[1] = c /\ f7[4] = x[1] /\ f7[5] = x[2]
    BY <1>5, <2>3
  <2>5. QED BY <1>1, <1>5, <2>1, <2>2, <2>4
<1> HIDE DEF f7
<1>7. /\ m \in Seq(Bytes) /\ Len(m) = 7 + Len(d)
      /\ \A k \in 1 .. 7 : m[k] = f7[k]
      /\ \A k \in 1 .. Len(d) : m[7 + k] = d[k]
  <2>1. /\ f7 \o d \in Seq(Bytes) /\ Len(f7 \o d) = Len(f7) + Len(d)
        /\ \A k \in 1 .. Len(f7) : (f7 \o d)[k] = f7[k]
        /\ \A k \in 1 .. Len(d) : (f7 \o d)[Len(f7) + k] = d[k]
    BY <1>6, Glued
  <2>2. QED BY <1>3, <1>6, <2>1
<1>8. m[1] = c /\ m[4] = x[1] /\ m[5] = x[2] /\ m[6] = y[1] /\ m[7] = y[2]
  <2>1. m[1] = f7[1] /\ m[4] = f7[4] /\ m[5] = f7[5] /\ m[6] = f7[6] /\ m[7] = f7[7]
    BY <1>7
  <2>2. QED BY <1>6, <2>1
<1>9. QED BY <1>1, <1>7, <1>8 DEF Laid, m

LEMMA MessageIs ==
  ASSUME NEW j \in Jobs, NEW w \in Nat, j.op # "none"
  PROVE  IF j.op = "ping"
         THEN LET m == Message(j, w)
              IN  m \in Seq(Bytes) /\ Len(m) = 3 /\ m[1] = Opcode(j)
         ELSE Laid(Message(j, w), Opcode(j), Base(j), Count(j, w), Payload(j))
<1> DEFINE m == Message(j, w)
           d == Payload(j)
<1>1. /\ d \in Seq(Bytes) /\ Len(d) \in Nat
      /\ j.op \notin Writes => d = << >>
  BY PayloadFits, LenProperties
<1>2. Base(j) \in Nat /\ Header \in Nat /\ Header + Len(d) \in Nat
  BY <1>1 DEF Base, Jobs, Header
<1>3. AEPC_READY \in Bytes /\ AEPC_READ \in Bytes /\ AEPC_WRITE \in Bytes
  BY Sizes, ByteIs DEF AEPC_READY, AEPC_READ, AEPC_WRITE
<1>4. j.op \in {"ping"} \cup Reads \cup Writes
  BY DEF Jobs, Ops, Reads, Writes
<1>5. CASE j.op = "ping"
  <2>1. m = <<AEPC_READY>> \o se_write16(3)
    BY <1>5, <1>4 DEF Message, Reads
  <2>6. Opcode(j) = AEPC_READY
    BY <1>5, <1>4 DEF Opcode, Reads
  <2> DEFINE f == <<AEPC_READY>>
             g == se_write16(3)
  <2>2. f \in Seq(Bytes) /\ Len(f) = 1 /\ f[1] = AEPC_READY
    BY <1>3
  <2>3. g \in Seq(Bytes) /\ Len(g) = 2
    BY WordIsPair
  <2>4. m = f \o g
    BY <2>1
  <2> HIDE DEF f, g, m
  <2>5. /\ m \in Seq(Bytes) /\ Len(m) = Len(f) + Len(g)
        /\ \A k \in 1 .. Len(f) : m[k] = f[k]
    BY <2>2, <2>3, <2>4, Glued
  <2>7. Len(m) = 3 /\ m[1] = AEPC_READY
    BY <2>2, <2>3, <2>5
  <2>8. QED BY <1>5, <2>5, <2>6, <2>7 DEF m
<1>6. CASE j.op \in Reads
  <2>1. m = rom_read(Base(j), w) /\ Opcode(j) = AEPC_READ /\ Count(j, w) = w
        /\ j.op # "ping" /\ d = << >>
    BY <1>1, <1>6 DEF Message, Opcode, Count, Reads, Writes
  <2>2. << >> \in Seq(Bytes) /\ rom_read(Base(j), w) \in Seq(Bytes)
    <3>1. <<AEPC_READ>> \in Seq(Bytes)
      BY <1>3
    <3>2. QED BY <1>2, <3>1, WordIsPair, Glued DEF rom_read
  <2>3. m = rom_read(Base(j), w) \o << >>
    BY <2>1, <2>2, ConcatEmptySeq
  <2>4. m = Framed(AEPC_READ, Header, Base(j), w, << >>)
    BY <2>3 DEF rom_read, Framed
  <2>5. Laid(Framed(AEPC_READ, Header, Base(j), w, << >>),
             AEPC_READ, Base(j), w, << >>)
    BY <1>2, <1>3, <2>2, MessageOf
  <2>6. QED BY <2>1, <2>4, <2>5, Zenon
<1>7. CASE j.op \in Writes
  <2>1. m = rom_write(Base(j), d) /\ Opcode(j) = AEPC_WRITE
        /\ Count(j, w) = Len(d) /\ j.op # "ping"
    BY <1>7 DEF Message, Opcode, Count, Reads, Writes
  <2>2. m = Framed(AEPC_WRITE, Header + Len(d), Base(j), Len(d), d)
    BY <2>1 DEF rom_write, Framed
  <2>3. Laid(Framed(AEPC_WRITE, Header + Len(d), Base(j), Len(d), d),
             AEPC_WRITE, Base(j), Len(d), d)
    BY <1>1, <1>2, <1>3, MessageOf
  <2>4. QED BY <2>1, <2>2, <2>3, Zenon
<1>8. QED BY <1>4, <1>5, <1>6, <1>7
-----------------------------------------------------------------------------
(* Sequences of bytes, byte by byte.                                       *)
LEMMA Taken ==
  ASSUME NEW s \in Seq(Bytes), s # << >>
  PROVE  /\ Len(s) \in Nat /\ Len(s) > 0
         /\ Head(s) \in Bytes /\ Head(s) = s[1]
         /\ Tail(s) \in Seq(Bytes) /\ Len(Tail(s)) = Len(s) - 1
         /\ \A k \in 1 .. Len(s) - 1 : Tail(s)[k] = s[k + 1]
<1>1. Len(s) \in Nat /\ Len(s) > 0
  BY LenProperties, EmptySeq
<1>2. Head(s) = s[1]
  OBVIOUS
<1>3. QED BY <1>1, <1>2, HeadTailProperties

LEMMA Added ==
  ASSUME NEW s \in Seq(Bytes), NEW e \in Bytes
  PROVE  /\ Len(s) \in Nat
         /\ Append(s, e) \in Seq(Bytes) /\ Len(Append(s, e)) = Len(s) + 1
         /\ \A k \in 1 .. Len(s) : Append(s, e)[k] = s[k]
         /\ Append(s, e)[Len(s) + 1] = e
BY AppendProperties, LenProperties

LEMMA Dropped ==
  ASSUME NEW s \in Seq(Bytes), Len(s) >= 3
  PROVE  LET t == SubSeq(s, 4, Len(s))
         IN  /\ Len(s) \in Nat /\ s[1] \in Bytes
             /\ t \in Seq(Bytes) /\ Len(t) = Len(s) - 3
             /\ \A k \in 1 .. Len(s) - 3 : t[k] = s[k + 3]
<1> DEFINE t == SubSeq(s, 4, Len(s))
<1>1. Len(s) \in Nat
  BY LenProperties
<1>2. \A k \in 1 .. Len(s) : s[k] \in Bytes
  BY <1>1, ElementOfSeq
<1>3. \A k \in 4 .. Len(s) : s[k] \in Bytes
  BY <1>1, <1>2
<1>4. /\ t \in Seq(Bytes)
      /\ Len(t) = IF 4 <= Len(s) THEN Len(s) - 4 + 1 ELSE 0
      /\ \A k \in 1 .. Len(s) - 4 + 1 : t[k] = s[4 + k - 1]
  BY <1>1, <1>3, SubSeqProperties
<1> HIDE DEF t
<1>5. Len(t) = Len(s) - 3
  <2> DEFINE n == Len(s)
  <2>1. n \in Nat /\ n >= 3 /\ Len(t) = IF 4 <= n THEN n - 4 + 1 ELSE 0
    BY <1>1, <1>4
  <2> HIDE DEF n
  <2>2. Len(t) = n - 3
    BY <2>1
  <2>3. QED BY <2>2 DEF n
<1>6. \A k \in 1 .. Len(s) - 3 : t[k] = s[k + 3]
  BY <1>1, <1>4
<1>7. QED BY <1>1, <1>2, <1>4, <1>5, <1>6 DEF t

LEMMA Kept ==
  ASSUME NEW s \in Seq(Bytes), NEW n \in 0 .. Len(s)
  PROVE  LET t == SubSeq(s, 1, n)
         IN  /\ Len(s) \in Nat
             /\ t \in Seq(Bytes) /\ Len(t) = n
             /\ \A k \in 1 .. n : t[k] = s[k]
<1> DEFINE t == SubSeq(s, 1, n)
<1>1. Len(s) \in Nat /\ n \in Nat
  BY LenProperties
<1>2. \A k \in 1 .. n : s[k] \in Bytes
  BY <1>1, ElementOfSeq
<1>3. /\ t \in Seq(Bytes)
      /\ Len(t) = IF 1 <= n THEN n - 1 + 1 ELSE 0
      /\ \A k \in 1 .. n - 1 + 1 : t[k] = s[1 + k - 1]
  BY <1>1, <1>2, SubSeqProperties
<1> HIDE DEF t
<1>4. Len(t) = n /\ \A k \in 1 .. n : t[k] = s[k]
  BY <1>1, <1>3
<1>5. QED BY <1>1, <1>3, <1>4 DEF t

LEMMA EmptyIs ==
  ASSUME NEW s \in Seq(Bytes)
  PROVE  Len(s) \in Nat /\ (s = << >> <=> Len(s) = 0)
BY LenProperties, EmptySeq
-----------------------------------------------------------------------------
(* What all requests have in common.                                       *)
Requests == Ping \/ Read \/ WriteChunk \/ VerifyChunk \/ ClearBlock \/ CheckBlock

LEMMA RequestIs ==
  ASSUME job \in Jobs, Requests
  PROVE  /\ host = "send" /\ job.op # "none" /\ job' = job
         /\ want' \in Nat /\ (want' > 0 => job.op \in Reads)
         /\ job.op = "verify" => want' > 0
         /\ Request(Message(job, want'), want')
<1>1. Len(job.data) \in Nat /\ job.data \in Seq(Bytes) /\ job.addr \in Nat /\ job.done \in Nat
  BY LenProperties DEF Jobs
<1>2. CASE Ping
  <2>1. job.op = "ping" /\ want' = 0
    BY <1>2 DEF Ping, Request
  <2>2. Message(job, 0) = <<AEPC_READY>> \o se_write16(3)
    BY <2>1 DEF Message, Reads
  <2>3. Request(Message(job, 0), 0) /\ host = "send" /\ job' = job
    BY <1>2, <2>2 DEF Ping
  <2>4. QED BY <2>1, <2>3
<1>3. CASE Read
  <2>1. job.op = "read" /\ want' = Len(job.data)
    BY <1>3 DEF Read, Request
  <2>2. Message(job, Len(job.data)) = rom_read(job.addr, Len(job.data))
    BY <2>1 DEF Message, Reads, Base
  <2>3. QED BY <1>1, <1>3, <2>1, <2>2 DEF Read, Request, Reads
<1>4. CASE WriteChunk
  <2>1. job.op = "write" /\ want' = 0
    BY <1>4 DEF WriteChunk, Request
  <2>2. Message(job, 0) = rom_write(job.addr + job.done, Part(job, chunk_size))
    BY <2>1 DEF Message, Reads, Base, Payload
  <2>3. QED BY <1>4, <2>1, <2>2 DEF WriteChunk, Request
<1>5. CASE VerifyChunk
  <2> DEFINE n == Len(Part(job, verify_size))
  <2>1. job.op = "verify" /\ want' = n /\ job.done < Len(job.data)
    BY <1>5 DEF VerifyChunk, Request
  <2>2. n \in Nat /\ n > 0
    <3>1. verify_size \in Nat /\ verify_size > 0
      BY Sizes, ProgrammerAssumption
    <3>2. QED BY <2>1, <3>1, PartIs, LenProperties
  <2>3. Message(job, n) = rom_read(job.addr + job.done, n)
    BY <2>1 DEF Message, Reads, Base
  <2>4. QED BY <1>5, <2>1, <2>2, <2>3 DEF VerifyChunk, Request, Reads
<1>6. CASE ClearBlock
  <2>1. job.op = "clear" /\ want' = 0
    BY <1>6 DEF ClearBlock, Request
  <2>2. Message(job, 0) = rom_write(job.addr, Block)
    BY <2>1 DEF Message, Reads, Base, Payload
  <2>3. QED BY <1>6, <2>1, <2>2 DEF ClearBlock, Request
<1>7. CASE CheckBlock
  <2>1. job.op = "check" /\ want' = CLEAR_BLOCK
    BY <1>7 DEF CheckBlock, Request
  <2>2. Message(job, CLEAR_BLOCK) = rom_read(job.addr, CLEAR_BLOCK)
    BY <2>1 DEF Message, Reads, Base
  <2>3. CLEAR_BLOCK \in Nat
    BY Sizes, ProgrammerAssumption
  <2>4. QED BY <1>7, <2>1, <2>2, <2>3 DEF CheckBlock, Request, Reads
<1>8. QED BY <1>2, <1>3, <1>4, <1>5, <1>6, <1>7 DEF Requests

-----------------------------------------------------------------------------
(* Types, and what the firmware's buffers hold where.                      *)
LEMMA IdleIsJob == Idle \in Jobs
<1>1. << >> \in Seq(Bytes)
  BY EmptySeq
<1>2. QED BY <1>1 DEF Idle, Jobs, Ops

LEMMA CommandIsJob ==
  ASSUME NEW c \in Commands, Command(c)
  PROVE  job' \in Jobs
<1>1. /\ c.op \in {"ping", "read", "byte", "file", "image", "clear"}
      /\ c.addr \in Nat /\ c.data \in Seq(Bytes) /\ c.verify \in BOOLEAN
  BY ProgrammerAssumption DEF Bytes
<1>2. CASE c.op \in {"byte", "file"}
  <2>1. job' = Job("write", c.addr, c.data, c.verify)
    BY <1>2 DEF Command
  <2>2. QED BY <1>1, <2>1 DEF Job, Jobs, Ops
<1>3. CASE c.op = "image"
  <2>1. job' = Job("write", c.addr, c.data, TRUE)
    BY <1>3 DEF Command
  <2>2. QED BY <1>1, <2>1 DEF Job, Jobs, Ops
<1>4. CASE c.op \in {"ping", "read", "clear"}
  <2>1. job' = Job(c.op, c.addr, c.data, FALSE)
    BY <1>4 DEF Command
  <2>2. QED BY <1>1, <1>4, <2>1 DEF Job, Jobs, Ops
<1>5. QED BY <1>1, <1>2, <1>3, <1>4

LEMMA NextPartIsJob ==
  ASSUME job \in Jobs, LastPart
  PROVE  job' \in Jobs
<1>1. \E op \in Ops, a \in {job.addr, 0} :
        job' = Idle \/ job' = [job EXCEPT !.op = op, !.done = 0, !.addr = a]
  BY DEF LastPart, Ops
<1>2. \A op \in Ops, a \in Nat :
        [job EXCEPT !.op = op, !.done = 0, !.addr = a] \in Jobs
  BY DEF Jobs
<1>3. job.addr \in Nat /\ 0 \in Nat
  BY DEF Jobs
<1>4. PICK op \in Ops, a \in {job.addr, 0} :
        job' = Idle \/ job' = [job EXCEPT !.op = op, !.done = 0, !.addr = a]
  BY <1>1
<1>5. a \in Nat
  BY <1>3, <1>4
<1>6. QED BY <1>2, <1>4, <1>5, IdleIsJob

LEMMA DoneIsJob ==
  ASSUME job \in Jobs, want \in Nat
  PROVE  Done \in Jobs
<1>1. job.done \in Nat /\ job.addr \in Nat
  BY DEF Jobs
<1>2. chunk_size \in Nat /\ chunk_size > 0 /\ CLEAR_BLOCK \in Nat
  BY Sizes, ProgrammerAssumption
<1>3. Len(Part(job, chunk_size)) \in Nat
  BY <1>2, PartIs, LenProperties
<1>4. Done \in {Idle, [job EXCEPT !.done = @ + Len(Part(job, chunk_size))],
                [job EXCEPT !.done = @ + want],
                [job EXCEPT !.addr = @ + CLEAR_BLOCK]}
  BY DEF Done
<1>5. \A n \in Nat :
        [job EXCEPT !.done = n] \in Jobs /\ [job EXCEPT !.addr = n] \in Jobs
  BY DEF Jobs
<1>6. job.done + Len(Part(job, chunk_size)) \in Nat /\ job.done + want \in Nat
      /\ job.addr + CLEAR_BLOCK \in Nat
  BY <1>1, <1>2, <1>3
<1>7. QED BY <1>4, <1>5, <1>6, IdleIsJob

LEMMA ZeroIsByte == 0 \in Bytes
BY Sizes, ByteIs

LEMMA TypesStep ==
  ASSUME Types, Firmware, [Next]_vars
  PROVE  Types'
<1> USE DEF Types, TypeOK
<1>0. /\ 0 \in Bytes /\ << >> \in Seq(Bytes)
      /\ WORD \in Nat /\ WORD > 0 /\ BYTE \in Nat /\ BYTE > 3
      /\ EOC \in Bytes /\ READY \in Bytes
      /\ MaxCommands \in Nat /\ MaxRestarts \in Nat
  <2>1. MaxCommands \in Nat /\ MaxRestarts \in Nat
    BY ProgrammerAssumption
  <2>2. 0 \in Bytes
    BY ZeroIsByte
  <2>3. WORD > 0
    BY Sizes
  <2>4. QED BY Sizes, EmptySeq, <2>1, <2>2, <2>3
<1>1. CASE Requests
  <2>1. /\ job' = job /\ job.op # "none" /\ want' \in Nat
        /\ Request(Message(job, want'), want')
    BY <1>1, RequestIs
  <2>2. Message(job, want') \in Seq(Bytes)
    BY <2>1, MessageIs DEF Laid
  <2>3. toDevice' \in Seq(Bytes)
    BY <2>1, <2>2, Glued DEF Request
  <2>4. QED BY <1>0, <2>1, <2>3, EmptyIs DEF Request, devVars
<1>2. CASE AwaitReady
  BY <1>2, Taken DEF AwaitReady, devVars
<1>3. ASSUME NEW c \in Commands, Command(c) PROVE Types'
  <2>1. job' \in Jobs /\ commands' \in 0 .. MaxCommands
    <3>1. job' \in Jobs
      BY <1>3, CommandIsJob
    <3>2. commands' \in 0 .. MaxCommands
      <4>1. commands' = commands + 1 /\ commands < MaxCommands
        BY <1>3 DEF Command
      <4>2. commands \in 0 .. MaxCommands
        OBVIOUS
      <4>3. QED BY <1>0, <4>1, <4>2
    <3>3. QED BY <3>1, <3>2
  <2>2. QED BY <1>3, <2>1 DEF Command, devVars, Jobs
<1>4. CASE LastPart
  <2>1. job' \in Jobs /\ host' \in {"prompt", "send"}
    BY <1>4, NextPartIsJob DEF LastPart
  <2>2. QED BY <1>4, <2>1 DEF LastPart, devVars, Jobs
<1>5. CASE TakeData
  <2>1. got' \in Seq(Bytes) /\ toHost' \in Seq(Bytes) /\ Len(got') = Len(got) + 1
        /\ Len(got) \in Nat
    BY <1>5, Taken, Added DEF TakeData
  <2>2. QED BY <1>5, <2>1 DEF TakeData, devVars
<1>6. CASE TakeEoc
  <2>1. toHost' \in Seq(Bytes) /\ got' \in Seq(Bytes) /\ Len(got') = 0 /\ want' = 0
    BY <1>0, <1>6, Taken, EmptyIs DEF TakeEoc
  <2>2. job' \in Jobs
    BY <1>6, DoneIsJob, IdleIsJob DEF TakeEoc, Raise
  <2>3. host' \in {"prompt", "send", "exited"}
    BY <1>6 DEF TakeEoc, Raise
  <2>4. QED BY <1>6, <2>1, <2>2, <2>3 DEF TakeEoc, devVars, Jobs
<1>7. CASE Quit
  BY <1>7 DEF Quit, devVars
<1>8. CASE Arrive
  <2>1. toDevice' \in Seq(Bytes) /\ rx' \in Seq(Bytes)
    BY <1>8, Taken, Added DEF Arrive
  <2>2. QED BY <1>8, <2>1 DEF Arrive, hostVars, devVars
<1>9. CASE Setup
  <2>1. toHost' \in Seq(Bytes) /\ rx' \in Seq(Bytes)
    BY <1>0, <1>9, Taken, Added DEF Setup, Send
  <2>2. QED BY <1>9, <2>1 DEF Setup, hostVars
<1>10. CASE ReadCommand
  <2>1. cmd' \in Bytes /\ rx' \in Seq(Bytes)
    BY <1>10, Dropped DEF ReadCommand
  <2>2. dev' \in {"args", "eoc"}
    BY <1>10 DEF ReadCommand
  <2>3. QED BY <1>10, <2>1, <2>2 DEF ReadCommand, hostVars
<1>11. CASE ReadArgs
  <2>1. rx' \in Seq(Bytes) /\ args' \in Seq(Bytes) /\ Head(rx) \in Bytes
    BY <1>11, Taken, Added DEF ReadArgs, read_wait
  <2>2. addr' \in 0 .. WORD - 1 /\ len' \in 0 .. WORD - 1
    <3>1. CASE Len(args) = 3
      <4>1. args[1] \in Bytes /\ args[2] \in Bytes /\ args[3] \in Bytes
        <5>1. 1 \in 1 .. Len(args) /\ 2 \in 1 .. Len(args) /\ 3 \in 1 .. Len(args)
          BY <3>1
        <5>2. QED BY <5>1, ElementOfSeq
      <4>2. addr' = word(args[1], args[2]) /\ len' = word(args[3], Head(rx))
        BY <1>11, <3>1 DEF ReadArgs
      <4>3. QED BY <2>1, <4>1, <4>2, WordsFit
    <3>2. CASE Len(args) # 3
      BY <1>11, <3>2 DEF ReadArgs
    <3>3. QED BY <3>1, <3>2
  <2>3. dev' \in {"read", "fill", "args"}
    BY <1>11 DEF ReadArgs
  <2>4. QED BY <1>11, <2>1, <2>2, <2>3 DEF ReadArgs, hostVars
<1>12. CASE ReadLoop
  <2>1. toHost' \in Seq(Bytes)
    <3>1. e_read(addr) \subseteq Bytes
      <4>1. Floating \subseteq Bytes
        BY ProgrammerAssumption DEF Bytes
      <4>2. addr < HALF => rom[addr] \in Bytes
        BY Sizes
      <4>3. QED BY <4>1, <4>2 DEF e_read
    <3>2. CASE len # 0
      <4>1. PICK byte \in e_read(addr) : Send(byte)
        BY <1>12, <3>2 DEF ReadLoop
      <4>2. byte \in Bytes
        BY <3>1, <4>1
      <4>3. toHost' = Append(toHost, byte)
        BY <4>1 DEF Send
      <4>4. QED BY <4>2, <4>3, Added
    <3>3. CASE len = 0
      BY <1>12, <3>3 DEF ReadLoop
    <3>4. QED BY <3>2, <3>3
  <2>2. addr' \in 0 .. WORD - 1 /\ len' \in 0 .. WORD - 1
    <3>1. (addr + 1) % WORD \in 0 .. WORD - 1
      BY <1>0
    <3>2. QED BY <1>0, <1>12, <3>1 DEF ReadLoop
  <2>3. dev' \in {"read", "eoc"}
    BY <1>12 DEF ReadLoop
  <2>4. QED BY <1>12, <2>1, <2>2, <2>3 DEF ReadLoop, hostVars
<1>13. CASE FillBuffer
  <2>1. rx' \in Seq(Bytes) /\ write_buffer' \in Seq(Bytes)
    <3>1. CASE Len(write_buffer) # len
      <4>1. rx # << >> /\ rx' = Tail(rx) /\ write_buffer' = Append(write_buffer, Head(rx))
        BY <1>13, <3>1 DEF FillBuffer, read_wait
      <4>2. Head(rx) \in Bytes /\ Tail(rx) \in Seq(Bytes)
        BY <4>1, Taken
      <4>3. QED BY <4>1, <4>2, Added
    <3>2. CASE Len(write_buffer) = len
      BY <1>13, <3>2 DEF FillBuffer
    <3>3. QED BY <3>1, <3>2
  <2>2. dev' \in {"fill", "write"}
    BY <1>13 DEF FillBuffer
  <2>3. QED BY <1>13, <2>1, <2>2 DEF FillBuffer, hostVars
<1>14. CASE WriteLoop
  <2>1. CASE i < len
    <3>1. write_buffer[i + 1] \in Bytes
      <4>1. i + 1 \in 1 .. Len(write_buffer)
        BY <1>14, <2>1 DEF WriteLoop, Firmware
      <4>2. QED BY <4>1, ElementOfSeq
    <3>2. rom' \in [0 .. HALF - 1 -> Bytes]
      BY <1>14, <2>1, <3>1 DEF WriteLoop
    <3>3. i' \in 0 .. WORD - 1 /\ dev' = dev
      BY <1>0, <1>14, <2>1 DEF WriteLoop
    <3>4. QED BY <1>14, <3>2, <3>3 DEF WriteLoop, hostVars
  <2>2. CASE ~(i < len)
    BY <1>14, <2>2 DEF WriteLoop, hostVars
  <2>3. QED BY <2>1, <2>2
<1>15. CASE EndOfCommand
  <2>1. toHost' \in Seq(Bytes)
    BY <1>0, <1>15, Added DEF EndOfCommand, Send
  <2>2. QED BY <1>0, <1>15, <2>1 DEF EndOfCommand, Forget, hostVars
<1>16. CASE Restart
  <2>1. toHost' \in Seq(Bytes)
    BY <1>16, Kept DEF Restart
  <2>2. restarts' \in 0 .. MaxRestarts
    BY <1>0, <1>16 DEF Restart
  <2>3. QED BY <1>0, <1>16, <2>1, <2>2 DEF Restart, Forget, hostVars
<1>17. CASE UNCHANGED vars
  BY <1>17 DEF vars, hostVars, devVars
<1>18. QED
  BY <1>1, <1>2, <1>3, <1>4, <1>5, <1>6, <1>7, <1>8, <1>9, <1>10, <1>11, <1>12,
     <1>13, <1>14, <1>15, <1>16, <1>17 DEF Next, Host, User, Board, Requests

LEMMA HostLeavesBoard ==
  ASSUME Host \/ User
  PROVE  UNCHANGED <<rx, devVars>>
<1>1. Requests => UNCHANGED <<rx, devVars>>
  BY DEF Requests, Ping, Read, WriteChunk, VerifyChunk, ClearBlock, CheckBlock, Request
<1>2. AwaitReady \/ LastPart \/ TakeData \/ TakeEoc \/ Quit => UNCHANGED <<rx, devVars>>
  BY DEF AwaitReady, LastPart, TakeData, TakeEoc, Quit
<1>3. \A c \in Commands : Command(c) => UNCHANGED <<rx, devVars>>
  BY DEF Command
<1>4. QED BY <1>1, <1>2, <1>3 DEF Host, User, Requests

LEMMA FirmwareStep ==
  ASSUME Types, Firmware, [Next]_vars
  PROVE  Firmware'
<1> USE DEF Firmware
<1>0. /\ << >> \in Seq(Bytes) /\ Len(<< >>) = 0
      /\ len \in Nat /\ i \in Nat /\ Len(write_buffer) \in Nat /\ Len(args) \in Nat
      /\ dev \in {"setup", "command", "args", "read", "fill", "write", "eoc"}
      /\ args \in Seq(Bytes)
  BY EmptySeq, LenProperties, Sizes DEF Types, TypeOK
<1>1. CASE UNCHANGED <<dev, args, len, write_buffer, i>>
  BY <1>1
<1>2. CASE ReadCommand
  <2>1. dev = "command" /\ dev' \in {"args", "eoc"} /\ args' = args
        /\ UNCHANGED <<len, write_buffer, i>>
    BY <1>2 DEF ReadCommand
  <2>2. QED BY <1>0, <2>1
<1>3. CASE ReadArgs
  <2>1. /\ dev = "args" /\ rx # << >> /\ args' = Append(args, Head(rx))
        /\ dev' \in {"read", "fill", "args"} /\ (dev' = "args" => Len(args) # 3)
        /\ UNCHANGED <<write_buffer, i>>
    BY <1>3 DEF ReadArgs, read_wait
  <2>2. Len(args') = Len(args) + 1
    BY <1>0, <2>1, Taken, Added DEF Types, TypeOK
  <2>3. i = 0 /\ write_buffer = << >> /\ Len(args) <= 3
    BY <2>1
  <2>4. ASSUME dev' = "args" PROVE Len(args') <= 3
    <3> DEFINE n == Len(args)
    <3>1. n \in Nat /\ n <= 3 /\ n # 3 /\ Len(args') = n + 1
      BY <1>0, <2>1, <2>2, <2>3, <2>4
    <3> HIDE DEF n
    <3>2. QED BY <3>1
  <2>5. i' = 0 /\ write_buffer' = << >>
    BY <2>1, <2>3
  <2>6. QED BY <2>1, <2>4, <2>5
<1>4. CASE ReadLoop
  <2>1. dev = "read" /\ dev' \in {"read", "eoc"}
        /\ UNCHANGED <<args, write_buffer, i>>
    BY <1>4 DEF ReadLoop
  <2>2. QED BY <2>1
<1>5. CASE FillBuffer
  <2>1. dev = "fill" /\ UNCHANGED <<args, len, i>>
    BY <1>5 DEF FillBuffer
  <2>2. CASE Len(write_buffer) # len
    <3>1. dev' = "fill"
      BY <1>5, <2>1, <2>2 DEF FillBuffer
    <3>2. QED BY <2>1, <3>1
  <2>3. CASE Len(write_buffer) = len
    <3>1. dev' = "write" /\ write_buffer' = write_buffer
      BY <1>5, <2>3 DEF FillBuffer
    <3>2. QED BY <1>0, <2>1, <2>3, <3>1
  <2>4. QED BY <2>2, <2>3
<1>6. CASE WriteLoop
  <2>1. /\ dev = "write"
        /\ (dev' = "write" /\ i < len /\ i' = i + 1) \/ (dev' = "eoc" /\ i' = i)
        /\ UNCHANGED <<args, len, write_buffer>>
    BY <1>6 DEF WriteLoop
  <2>2. QED BY <1>0, <2>1
<1>7. CASE EndOfCommand
  BY <1>7 DEF EndOfCommand, Forget
<1>8. CASE Restart
  BY <1>8 DEF Restart, Forget
<1>9. CASE Setup
  BY <1>9 DEF Setup
<1>10. CASE Host \/ User
  BY <1>1, <1>10, HostLeavesBoard DEF devVars
<1>11. CASE Arrive \/ UNCHANGED vars
  BY <1>1, <1>11 DEF Arrive, vars, devVars
<1>12. QED
  BY <1>2, <1>3, <1>4, <1>5, <1>6, <1>7, <1>8, <1>9, <1>10, <1>11 DEF Next, Board

LEMMA TypesAtStart == Init => Types /\ Firmware
<1> SUFFICES ASSUME Init PROVE Types /\ Firmware
  OBVIOUS
<1>1. << >> \in Seq(Bytes) /\ Len(<< >>) = 0 /\ 0 \in Bytes /\ WORD \in Nat /\ WORD > 0
  BY EmptySeq, ZeroIsByte, Sizes
<1>2. MaxCommands \in Nat /\ MaxRestarts \in Nat
  BY ProgrammerAssumption
<1>3. rom \in [0 .. HALF - 1 -> Bytes]
  BY ProgrammerAssumption DEF Init, Bytes
<1>4. job \in Jobs /\ job.op \in Ops /\ job.addr \in Nat /\ job.done \in Nat
  BY IdleIsJob DEF Init, Jobs
<1>5. Firmware /\ astray \in BOOLEAN
  BY DEF Init, Firmware
<1>8. Len(got) <= want
  BY <1>1 DEF Init
<1>6. TypeOK
  BY <1>1, <1>2, <1>3, <1>4 DEF Init, TypeOK
<1>7. QED BY <1>4, <1>5, <1>6, <1>8 DEF Types

(* The type invariant of aep.py and aep.ino: buffers hold bytes, and        *)
(* addresses, lengths and the index of the write loop stay words.          *)
THEOREM ProgrammerTypes == Spec => []TypeOK
<1>1. Types /\ Firmware /\ [Next]_vars => (Types /\ Firmware)'
  BY TypesStep, FirmwareStep
<1>2. Types => TypeOK
  BY DEF Types
<1>3. QED BY <1>1, <1>2, TypesAtStart, PTL DEF Spec
-----------------------------------------------------------------------------
(* A message on its way: r has arrived, t has not, p bytes were read.      *)
LEMMA FlowArrives ==
  ASSUME NEW m \in Seq(Bytes), NEW p \in Nat, NEW r \in Seq(Bytes),
         NEW t \in Seq(Bytes), t # << >>, FlowOf(m, p, r, t)
  PROVE  FlowOf(m, p, Append(r, Head(t)), Tail(t))
<1> DEFINE u == Append(r, Head(t))
           v == Tail(t)
           x == Len(r)
           y == Len(t)
<1>1. /\ y \in Nat /\ y > 0 /\ Head(t) \in Bytes /\ Head(t) = t[1]
      /\ v \in Seq(Bytes) /\ Len(v) = y - 1
      /\ \A k \in 1 .. y - 1 : v[k] = t[k + 1]
  BY Taken
<1>2. /\ x \in Nat /\ u \in Seq(Bytes) /\ Len(u) = x + 1
      /\ \A k \in 1 .. x : u[k] = r[k]
      /\ u[x + 1] = Head(t)
  BY <1>1, Added
<1>3. /\ p + x + y = Len(m)
      /\ \A k \in 1 .. x : r[k] = m[p + k]
      /\ \A k \in 1 .. y : t[k] = m[p + x + k]
  BY DEF FlowOf
<1> HIDE DEF u, v, x, y
<1>4. p + Len(u) + Len(v) = Len(m)
  <2>1. /\ x \in Nat /\ y \in Nat /\ Len(u) = x + 1 /\ Len(v) = y - 1
        /\ p + x + y = Len(m)
    BY <1>1, <1>2, <1>3
  <2>2. p + (x + 1) + (y - 1) = p + x + y
    BY <2>1
  <2>3. QED BY <2>1, <2>2
<1>5. ASSUME NEW k \in 1 .. Len(u) PROVE u[k] = m[p + k]
  <2>1. CASE k = x + 1
    <3>1. t[1] = m[p + x + 1]
      BY <1>1, <1>3
    <3>2. p + x + 1 = p + (x + 1)
      BY <1>2
    <3>3. QED BY <1>1, <1>2, <2>1, <3>1, <3>2
  <2>2. CASE k # x + 1
    <3>1. k \in 1 .. x
      BY <1>2, <1>5, <2>2
    <3>2. QED BY <1>2, <1>3, <3>1
  <2>3. QED BY <2>1, <2>2
<1>6. ASSUME NEW k \in 1 .. Len(v) PROVE v[k] = m[p + Len(u) + k]
  <2>1. k \in 1 .. y - 1 /\ k + 1 \in 1 .. y /\ p + x + (k + 1) = p + Len(u) + k
    BY <1>1, <1>2, <1>6
  <2>2. v[k] = t[k + 1] /\ t[k + 1] = m[p + x + (k + 1)]
    BY <1>1, <1>3, <2>1
  <2>3. QED BY <2>1, <2>2
<1>7. FlowOf(m, p, u, v)
  BY <1>4, <1>5, <1>6 DEF FlowOf
<1>8. QED BY <1>7 DEF u, v

LEMMA FlowTaken ==
  ASSUME NEW m \in Seq(Bytes), NEW p \in Nat, NEW r \in Seq(Bytes),
         NEW t \in Seq(Bytes), r # << >>, FlowOf(m, p, r, t)
  PROVE  Head(r) = m[p + 1] /\ FlowOf(m, p + 1, Tail(r), t)
<1> DEFINE v == Tail(r)
           x == Len(r)
           y == Len(t)
<1>1. /\ x \in Nat /\ x > 0 /\ Head(r) = r[1]
      /\ v \in Seq(Bytes) /\ Len(v) = x - 1
      /\ \A k \in 1 .. x - 1 : v[k] = r[k + 1]
  BY Taken
<1>2. y \in Nat
  BY LenProperties
<1>3. /\ p + x + y = Len(m)
      /\ \A k \in 1 .. x : r[k] = m[p + k]
      /\ \A k \in 1 .. y : t[k] = m[p + x + k]
  BY DEF FlowOf
<1> HIDE DEF v, x, y
<1>4. p + 1 + Len(v) + y = Len(m) /\ p + 1 + Len(v) = p + x
  BY <1>1, <1>2, <1>3
<1>5. ASSUME NEW k \in 1 .. Len(v) PROVE v[k] = m[p + 1 + k]
  <2>1. k \in 1 .. x - 1 /\ k + 1 \in 1 .. x /\ p + (k + 1) = p + 1 + k
    BY <1>1, <1>5
  <2>2. v[k] = r[k + 1] /\ r[k + 1] = m[p + (k + 1)]
    BY <1>1, <1>3, <2>1
  <2>3. QED BY <2>1, <2>2
<1>6. \A k \in 1 .. y : t[k] = m[p + 1 + Len(v) + k]
  BY <1>3, <1>4
<1>7. Head(r) = m[p + 1]
  BY <1>1, <1>3
<1>8. FlowOf(m, p + 1, v, t)
  BY <1>4, <1>5, <1>6 DEF FlowOf, y
<1>9. QED BY <1>7, <1>8 DEF v

LEMMA FlowDropped ==
  ASSUME NEW m \in Seq(Bytes), NEW r \in Seq(Bytes),
         NEW t \in Seq(Bytes), Len(r) >= 3, FlowOf(m, 0, r, t)
  PROVE  r[1] = m[1] /\ FlowOf(m, 3, SubSeq(r, 4, Len(r)), t)
<1> DEFINE v == SubSeq(r, 4, Len(r))
           x == Len(r)
           y == Len(t)
<1>1. /\ x \in Nat /\ v \in Seq(Bytes) /\ Len(v) = x - 3
      /\ \A k \in 1 .. x - 3 : v[k] = r[k + 3]
  BY Dropped
<1>2. y \in Nat
  BY LenProperties
<1>3. /\ 0 + x + y = Len(m)
      /\ \A k \in 1 .. x : r[k] = m[0 + k]
      /\ \A k \in 1 .. y : t[k] = m[0 + x + k]
  BY DEF FlowOf
<1>4. x >= 3
  OBVIOUS
<1> HIDE DEF v, x, y
<1>5. 3 + Len(v) + y = Len(m) /\ 3 + Len(v) = 0 + x
  BY <1>1, <1>2, <1>3, <1>4
<1>6. ASSUME NEW k \in 1 .. Len(v) PROVE v[k] = m[3 + k]
  <2>1. k \in 1 .. x - 3 /\ k + 3 \in 1 .. x /\ 0 + (k + 3) = 3 + k
    BY <1>1, <1>6
  <2>2. v[k] = r[k + 3] /\ r[k + 3] = m[0 + (k + 3)]
    BY <1>1, <1>3, <2>1
  <2>3. QED BY <2>1, <2>2
<1>7. \A k \in 1 .. y : t[k] = m[3 + Len(v) + k]
  BY <1>3, <1>5
<1>8. r[1] = m[1]
  <2>1. 1 \in 1 .. x /\ 0 + 1 = 1
    BY <1>1, <1>4
  <2>2. QED BY <1>3, <2>1
<1>9. FlowOf(m, 3, v, t)
  BY <1>5, <1>6, <1>7 DEF FlowOf, y
<1>10. QED BY <1>8, <1>9 DEF v

LEMMA FlowLength ==
  ASSUME NEW m \in Seq(Bytes), NEW p \in Nat, NEW r \in Seq(Bytes),
         NEW t \in Seq(Bytes), FlowOf(m, p, r, t)
  PROVE  Len(r) \in Nat /\ Len(t) \in Nat /\ p + Len(r) + Len(t) = Len(m)
BY LenProperties DEF FlowOf

LEMMA FlowOver ==
  ASSUME NEW m \in Seq(Bytes), NEW r \in Seq(Bytes), NEW t \in Seq(Bytes),
         NEW p, FlowOf(m, p, r, t), p = Len(m)
  PROVE  r = << >> /\ t = << >>
<1>1. Len(r) \in Nat /\ Len(t) \in Nat /\ Len(m) \in Nat
  BY LenProperties
<1>2. Len(m) + Len(r) + Len(t) = Len(m)
  BY DEF FlowOf
<1>3. Len(r) = 0 /\ Len(t) = 0
  BY <1>1, <1>2
<1>4. QED BY <1>3, EmptyIs

LEMMA FlowStarts ==
  ASSUME NEW m \in Seq(Bytes)
  PROVE  FlowOf(m, 0, << >>, << >> \o m)
<1>1. << >> \o m = m /\ Len(m) \in Nat /\ Len(<< >>) = 0
  BY ConcatEmptySeq, LenProperties
<1>2. \A k \in 1 .. Len(m) : m[k] = m[0 + 0 + k]
  BY <1>1
<1>3. \A k \in 1 .. 0 : << >>[k] = m[0 + k]
  OBVIOUS
<1>4. 0 + 0 + Len(m) = Len(m)
  BY <1>1
<1>5. QED BY <1>1, <1>2, <1>3, <1>4 DEF FlowOf
-----------------------------------------------------------------------------
(* The cells of a write are different ones.                                *)
LEMMA CellsDiffer ==
  ASSUME NEW a \in Nat, NEW b \in Nat, NEW m \in Nat, m > 0, a < b, b - a < m
  PROVE  a % m # b % m
<1> DEFINE q == a \div m
           u == b \div m
           x == a % m
           y == b % m
<1>1. q \in Nat /\ x \in Nat /\ x < m /\ a = m * q + x
  BY DivMod
<1>2. u \in Nat /\ y \in Nat /\ y < m /\ b = m * u + y
  BY DivMod
<1> HIDE DEF q, u, x, y
<1>3. SUFFICES ASSUME x = y PROVE FALSE
  BY DEF x, y
<1>4. m * q \in Nat /\ m * u \in Nat
  BY <1>1, <1>2
<1>5. m * u - m * q = b - a
  BY <1>1, <1>2, <1>3, <1>4
<1>6. u <= q => m * u <= m * q
  BY <1>1, <1>2, TimesGrows
<1>7. u > q
  <2>1. ~(m * u <= m * q)
    BY <1>4, <1>5
  <2>2. QED BY <1>1, <1>2, <1>6, <2>1
<1>8. m * (q + 1) <= m * u /\ m * (q + 1) = m * q + m
  BY <1>1, <1>2, <1>7, TimesGrows
<1>9. QED BY <1>4, <1>5, <1>8

(* What a board can say, and that it rests unless it has just started.     *)
LEMMA BoardSays ==
  ASSUME Types, Board
  PROVE  /\ UNCHANGED <<host, job, want, got, restarts, toDevice>>
         /\ \/ toHost' = toHost /\ (dev = "setup" => dev' = "setup")
            \/ \E e \in Bytes : toHost' = Append(toHost, e) /\ (dev = "setup" => e = READY)
<1>1. CASE Setup
  BY <1>1, Sizes DEF Setup, Send, hostVars
<1>2. CASE ReadCommand \/ ReadArgs \/ FillBuffer \/ WriteLoop
  BY <1>2 DEF ReadCommand, ReadArgs, FillBuffer, WriteLoop, hostVars
<1>3. CASE ReadLoop
  <2>1. UNCHANGED <<host, job, want, got, restarts, toDevice>> /\ dev = "read"
    BY <1>3 DEF ReadLoop, hostVars
  <2>2. CASE len # 0
    <3>1. PICK e \in e_read(addr) : toHost' = Append(toHost, e)
      BY <1>3, <2>2 DEF ReadLoop, Send
    <3>2. e \in Bytes
      <4>1. Floating \subseteq Bytes
        BY ProgrammerAssumption DEF Bytes
      <4>2. addr < HALF => rom[addr] \in Bytes
        BY Sizes DEF Types, TypeOK
      <4>3. QED BY <3>1, <4>1, <4>2 DEF e_read
    <3>3. QED BY <2>1, <3>1, <3>2
  <2>3. CASE len = 0
    BY <1>3, <2>1, <2>3 DEF ReadLoop
  <2>4. QED BY <2>2, <2>3
<1>4. CASE EndOfCommand
  BY <1>4, Sizes DEF EndOfCommand, Send, hostVars
<1>5. QED BY <1>1, <1>2, <1>3, <1>4 DEF Board

LEMMA IdleBoard ==
  ASSUME Types, Idling, Board
  PROVE  /\ dev = "setup" /\ dev' = "command" /\ Idling'
         /\ toHost' = Append(toHost, READY) /\ rom' = rom
         /\ UNCHANGED <<host, job, want, got, restarts, toDevice>>
<1>1. rx = << >> /\ toDevice = << >> /\ dev \in {"setup", "command"}
  BY DEF Idling, Silent
<1>2. Len(rx) = 0
  BY <1>1
<1>3. ~ReadCommand
  BY <1>2 DEF ReadCommand
<1>4. Setup
  BY <1>1, <1>3 DEF Board, ReadArgs, ReadLoop, FillBuffer, WriteLoop, EndOfCommand
<1>5. QED BY <1>1, <1>4 DEF Setup, Send, Idling, Silent, hostVars

LEMMA ReadyAdded ==
  ASSUME Types, NEW n \in {1, 2}, AllReady(n), toHost' = Append(toHost, READY)
  PROVE  AllReady(n)' /\ Len(toHost') = Len(toHost) + 1 /\ Len(toHost) \in Nat
<1>1. /\ Len(toHost) \in Nat /\ Len(toHost') = Len(toHost) + 1
      /\ \A k \in 1 .. Len(toHost) : toHost'[k] = toHost[k]
      /\ toHost'[Len(toHost) + 1] = READY
  BY Added, Sizes DEF Types, TypeOK
<1>2. ASSUME NEW k \in n .. Len(toHost') PROVE toHost'[k] = READY
  <2>1. CASE k = Len(toHost) + 1
    BY <1>1, <2>1
  <2>2. CASE k # Len(toHost) + 1
    <3>1. k \in n .. Len(toHost) /\ k \in 1 .. Len(toHost)
      BY <1>1, <1>2, <2>2
    <3>2. QED BY <1>1, <3>1 DEF AllReady
  <2>3. QED BY <2>1, <2>2
<1>3. QED BY <1>1, <1>2 DEF AllReady

LEMMA ReadyKept ==
  ASSUME Types, NEW n \in {1, 2}, AllReady(n), NEW k \in 0 .. Len(toHost),
         toHost' = SubSeq(toHost, 1, k)
  PROVE  AllReady(n)' /\ Len(toHost') = k
<1>1. /\ Len(toHost) \in Nat /\ Len(toHost') = k
      /\ \A j \in 1 .. k : toHost'[j] = toHost[j]
  BY Kept DEF Types, TypeOK
<1>2. ASSUME NEW j \in n .. Len(toHost') PROVE toHost'[j] = READY
  <2>1. j \in n .. Len(toHost) /\ j \in 1 .. k
    BY <1>1, <1>2
  <2>2. QED BY <1>1, <2>1 DEF AllReady
<1>3. QED BY <1>1, <1>2 DEF AllReady

LEMMA ReadyTaken ==
  ASSUME Types, NEW n \in {1, 2}, AllReady(n), toHost # << >>, toHost' = Tail(toHost)
  PROVE  AllReady(1)' /\ Len(toHost') = Len(toHost) - 1 /\ Len(toHost) \in Nat
<1>1. /\ Len(toHost) \in Nat /\ Len(toHost') = Len(toHost) - 1
      /\ \A k \in 1 .. Len(toHost) - 1 : toHost'[k] = toHost[k + 1]
  BY Taken DEF Types, TypeOK
<1>2. ASSUME NEW k \in 1 .. Len(toHost') PROVE toHost'[k] = READY
  <2>1. k \in 1 .. Len(toHost) - 1 /\ k + 1 \in n .. Len(toHost)
    BY <1>1, <1>2
  <2>2. QED BY <1>1, <2>1 DEF AllReady
<1>3. QED BY <1>1, <1>2 DEF AllReady
-----------------------------------------------------------------------------
(* The board, while the host does not wait or waits in vain.               *)
LEMMA BoardAtEase ==
  ASSUME Types, Types', Board
  PROVE  /\ Starting => Starting'
         /\ AtPrompt => AtPrompt'
         /\ Finished => Finished'
<1>1. ASSUME Idling
      PROVE  /\ dev = "setup" /\ dev' = "command" /\ Idling'
             /\ toHost' = Append(toHost, READY) /\ rom' = rom
             /\ UNCHANGED <<host, job, want, got, restarts, toDevice>>
  BY <1>1, IdleBoard
<1>2. ASSUME Starting PROVE Starting'
  <2>1. dev = "setup" /\ dev' = "command" /\ Idling' /\ restarts' = restarts
        /\ toHost' = Append(toHost, READY)
    BY <1>1, <1>2 DEF Starting
  <2>2. AllReady(1)' /\ Len(toHost') = Len(toHost) + 1
    BY <1>2, <2>1, ReadyAdded DEF Starting
  <2>3. restarts' = 0 => Len(toHost) = 0
    BY <1>2, <2>1 DEF Starting
  <2>4. QED BY <2>1, <2>2, <2>3 DEF Starting
<1>3. ASSUME AtPrompt PROVE AtPrompt'
  <2>1. dev = "setup" /\ dev' = "command" /\ Idling' /\ restarts' = restarts
        /\ toHost' = Append(toHost, READY)
    BY <1>1, <1>3 DEF AtPrompt
  <2>2. AllReady(1)' /\ restarts # 0
    BY <1>3, <2>1, ReadyAdded DEF AtPrompt
  <2>3. QED BY <2>1, <2>2 DEF AtPrompt
<1>4. ASSUME Finished PROVE Finished'
  <2>1. /\ dev' = "command" /\ Idling' /\ rom' = rom
        /\ UNCHANGED <<job, want, got, restarts>>
        /\ toHost' = Append(toHost, READY)
    BY <1>1, <1>4 DEF Finished
  <2>2. AllReady(2)'
    BY <1>4, <2>1, ReadyAdded DEF Finished
  <2>3. toHost' # << >> /\ toHost'[1] = EOC
    <3>1. /\ Len(toHost) \in Nat /\ Len(toHost) > 0
          /\ Len(toHost') = Len(toHost) + 1 /\ toHost' \in Seq(Bytes)
          /\ \A k \in 1 .. Len(toHost) : toHost'[k] = toHost[k]
      BY <1>4, <2>1, Added, Taken, Sizes DEF Finished, Types, TypeOK
    <3>2. toHost'[1] = toHost[1]
      BY <3>1
    <3>3. toHost' # << >>
      BY <3>1, EmptyIs
    <3>4. QED BY <1>4, <3>2, <3>3 DEF Finished
  <2>4. Stored'
    BY <1>4, <2>1 DEF Finished, Stored, Written
  <2>5. QED BY <1>4, <2>1, <2>2, <2>3, <2>4 DEF Finished
<1>5. QED BY <1>2, <1>3, <1>4

LEMMA BoardInVain ==
  ASSUME Types, Types', Board, Doomed
  PROVE  Doomed'
<1>1. UNCHANGED <<host, job, want, got, restarts, toDevice>> /\ restarts > 0
  BY BoardSays DEF Doomed
<1>2. CASE Len(got) < want
  BY <1>1, <1>2 DEF Doomed
<1>3. CASE want = 0 /\ IF toHost = << >> THEN dev = "setup" ELSE toHost[1] = READY
  <2>1. CASE toHost' = toHost /\ (dev = "setup" => dev' = "setup")
    BY <1>1, <1>3, <2>1 DEF Doomed
  <2>2. ASSUME NEW e \in Bytes, toHost' = Append(toHost, e), dev = "setup" => e = READY
        PROVE  Doomed'
    <3>1. /\ Len(toHost) \in Nat /\ Len(toHost') = Len(toHost) + 1
          /\ \A k \in 1 .. Len(toHost) : toHost'[k] = toHost[k]
          /\ toHost'[Len(toHost) + 1] = e
          /\ toHost' \in Seq(Bytes) /\ (toHost = << >> <=> Len(toHost) = 0)
      BY <2>2, Added, EmptyIs DEF Types, TypeOK
    <3>2. toHost' # << >>
      BY <3>1, EmptyIs
    <3>3. toHost'[1] = READY
      <4>1. CASE toHost = << >>
        <5>1. Len(toHost) + 1 = 1 /\ e = READY
          BY <1>3, <2>2, <3>1, <4>1
        <5>2. QED BY <3>1, <5>1
      <4>2. CASE toHost # << >>
        <5>1. 1 \in 1 .. Len(toHost)
          BY <3>1, <4>2
        <5>2. QED BY <1>3, <3>1, <4>2, <5>1
      <4>3. QED BY <4>1, <4>2
    <3>4. QED BY <1>1, <1>3, <3>2, <3>3 DEF Doomed
  <2>3. QED BY <2>1, <2>2, BoardSays
<1>4. CASE want > 0 /\ Len(got) = want /\ Idling /\ AllReady(1)
  <2>1. Idling' /\ toHost' = Append(toHost, READY)
    BY <1>4, IdleBoard
  <2>2. AllReady(1)'
    BY <1>4, <2>1, ReadyAdded
  <2>3. QED BY <1>1, <1>4, <2>1, <2>2 DEF Doomed
<1>5. QED BY <1>2, <1>3, <1>4 DEF Doomed
-----------------------------------------------------------------------------
(* The board, while it executes the command the host waits for.            *)
LEMMA MessageKnown ==
  ASSUME Types, Calling
  PROVE  LET m == Message(job, want)
         IN  /\ m \in Seq(Bytes) /\ m[1] = Opcode(job) /\ Len(m) \in Nat
             /\ job.op = "ping" => Len(m) = 3
             /\ job.op # "ping" => Laid(m, Opcode(job), Base(job), Count(job, want), Payload(job))
             /\ Len(m) <= RxSize
             /\ Base(job) \in Nat
             /\ Payload(job) \in Seq(Bytes) /\ Len(Payload(job)) \in Nat
             /\ Len(Payload(job)) <= HALF /\ Len(Payload(job)) <= BufferSize
             /\ job.op \notin Reads => want = 0
             /\ job.op \notin Writes => Payload(job) = << >>
<1> DEFINE m == Message(job, want)
<1>1. job \in Jobs /\ want \in Nat /\ job.op # "none"
  BY DEF Types, TypeOK, Calling
<1>2. IF job.op = "ping" THEN m \in Seq(Bytes) /\ Len(m) = 3 /\ m[1] = Opcode(job)
      ELSE Laid(m, Opcode(job), Base(job), Count(job, want), Payload(job))
  BY <1>1, MessageIs
<1>3. /\ Payload(job) \in Seq(Bytes)
      /\ Len(Payload(job)) <= HALF /\ Len(Payload(job)) <= BufferSize
      /\ Header + Len(Payload(job)) <= RxSize
      /\ job.op \notin Writes => Payload(job) = << >>
  BY <1>1, PayloadFits
<1>4. Len(Payload(job)) \in Nat /\ RxSize \in Nat
  BY <1>3, LenProperties, ProgrammerAssumption
<1>5. Base(job) \in Nat
  BY <1>1 DEF Base, Jobs
<1>6. job.op \notin Reads => want = 0
  BY <1>1 DEF Calling
<1> HIDE DEF m
<1>7. m \in Seq(Bytes) /\ m[1] = Opcode(job)
  BY <1>2 DEF Laid
<1>8. Len(m) \in Nat /\ Len(m) <= RxSize
  <2>1. Len(m) = 3 \/ Len(m) = 7 + Len(Payload(job))
    BY <1>2 DEF Laid
  <2> DEFINE n == Len(Payload(job))
  <2>2. n \in Nat /\ 7 + n <= RxSize /\ RxSize \in Nat
    BY <1>3, <1>4 DEF Header
  <2>3. Len(m) = 3 \/ Len(m) = 7 + n
    BY <2>1
  <2> HIDE DEF n
  <2>4. 3 <= RxSize /\ 7 + n \in Nat
    BY <2>2
  <2>5. CASE Len(m) = 3
    BY <2>4, <2>5
  <2>6. CASE Len(m) = 7 + n
    BY <2>2, <2>4, <2>6
  <2>7. QED BY <2>3, <2>5, <2>6
<1>9. QED BY <1>2, <1>3, <1>4, <1>5, <1>6, <1>7, <1>8 DEF m

LEMMA BoardCommand ==
  ASSUME Types, Types', Firmware, Calling, Live, ReadCommand
  PROVE  Live'
<1> DEFINE m == Message(job, want)
<1>1. /\ dev = "command" /\ Len(rx) >= 3 /\ cmd' = rx[1]
      /\ rx' = SubSeq(rx, 4, Len(rx))
      /\ dev' = IF rx[1] \in {AEPC_READ, AEPC_WRITE} THEN "args" ELSE "eoc"
      /\ UNCHANGED <<args, addr, len, write_buffer, i, rom, toDevice, toHost, job, want, got>>
  BY DEF ReadCommand, hostVars
<1>2. Asked
  <2>1. ~Silent
    BY <1>1 DEF Silent
  <2>2. QED BY <1>1, <2>1 DEF Live, Parsing, Reading, Filling, Writing, Ending, Answered
<1>3. FlowOf(m, 0, rx, toDevice) /\ toHost = << >> /\ got = << >>
  BY <1>2 DEF Asked, Flow
<1>4. m \in Seq(Bytes) /\ m[1] = Opcode(job)
  BY MessageKnown
<1>5. rx \in Seq(Bytes) /\ toDevice \in Seq(Bytes) /\ rx' \in Seq(Bytes)
  BY DEF Types, TypeOK
<1>6. rx[1] = Opcode(job) /\ FlowOf(m, 3, rx', toDevice')
  BY <1>1, <1>3, <1>4, <1>5, FlowDropped
<1>7. args = << >> /\ write_buffer = << >>
  BY <1>1 DEF Firmware
<1>8. CASE job.op = "ping"
  <2>1. dev' = "eoc"
    BY <1>1, <1>6, <1>8 DEF Opcode, Reads, AEPC_READY, AEPC_READ, AEPC_WRITE
  <2>2. Len(m) = 3 /\ want = 0
    BY <1>8, MessageKnown DEF Reads
  <2>3. Silent'
    <3>1. toDevice' \in Seq(Bytes)
      BY <1>1, <1>5
    <3> HIDE DEF m
    <3>2. rx' = << >> /\ toDevice' = << >>
      BY <1>4, <1>5, <1>6, <2>2, <3>1, FlowOver
    <3>3. QED BY <3>2 DEF Silent
  <2>4. Len(got') + Len(toHost') = want' % WORD
    <3>1. 0 % WORD = 0
      BY Sizes
    <3>2. QED BY <1>1, <1>3, <2>2, <3>1
  <2>5. Len(write_buffer') <= BufferSize
    BY <1>1, <1>7, ProgrammerAssumption
  <2>6. Stored'
    BY <1>1, <1>8 DEF Stored, Writes
  <2>7. QED BY <2>1, <2>3, <2>4, <2>5, <2>6 DEF Live, Ending
<1>9. CASE job.op # "ping"
  <2>1. job.op \in Reads \cup Writes
    BY <1>9 DEF Types, Jobs, Ops, Calling, Reads, Writes
  <2>2. dev' = "args" /\ cmd' = Opcode(job)
    BY <1>1, <1>6, <1>9, <2>1 DEF Opcode, Reads, Writes
  <2>3. Flow(3 + Len(args))'
    <3>1. 3 + Len(args') = 3
      BY <1>1, <1>7
    <3>2. QED BY <1>1, <1>6, <3>1 DEF Flow
  <2>4. \A k \in 1 .. Len(args') : args'[k] = Message(job', want')[3 + k]
    BY <1>1, <1>7
  <2>5. QED BY <1>1, <1>3, <2>1, <2>2, <2>3, <2>4 DEF Live, Parsing
<1>10. QED BY <1>8, <1>9

LEMMA BoardArgs ==
  ASSUME Types, Types', Firmware, Calling, Live, ReadArgs
  PROVE  Live'
<1> DEFINE m == Message(job, want)
           n == Len(args)
<1>1. /\ dev = "args" /\ rx # << >> /\ rx' = Tail(rx)
      /\ args' = Append(args, Head(rx))
      /\ UNCHANGED <<cmd, write_buffer, i, rom, toDevice, toHost, job, want, got>>
  BY DEF ReadArgs, read_wait, hostVars
<1>2. /\ job.op \in Reads \cup Writes /\ cmd = Opcode(job)
      /\ FlowOf(m, 3 + n, rx, toDevice) /\ toHost = << >> /\ got = << >>
      /\ \A k \in 1 .. n : args[k] = m[3 + k]
  BY <1>1 DEF Live, Asked, Parsing, Reading, Filling, Writing, Ending, Answered, Flow
<1>3. job.op # "ping"
  BY <1>2 DEF Reads, Writes
<1>4. m \in Seq(Bytes) /\ Laid(m, Opcode(job), Base(job), Count(job, want), Payload(job))
  BY <1>3, MessageKnown
<1>5. /\ rx \in Seq(Bytes) /\ toDevice \in Seq(Bytes) /\ args \in Seq(Bytes)
      /\ rx' \in Seq(Bytes) /\ toDevice' \in Seq(Bytes)
  BY DEF Types, TypeOK
<1>6. /\ n \in Nat /\ n <= 3 /\ write_buffer = << >>
  BY <1>1, <1>5, LenProperties DEF Firmware
<1> HIDE DEF m
<1>7. Head(rx) = m[3 + n + 1] /\ FlowOf(m, 3 + n + 1, rx', toDevice')
  <2> DEFINE p == 3 + n
  <2>1. p \in Nat /\ FlowOf(m, p, rx, toDevice)
    BY <1>2, <1>6
  <2> HIDE DEF p
  <2>2. Head(rx) = m[p + 1] /\ FlowOf(m, p + 1, Tail(rx), toDevice)
    BY <1>1, <1>4, <1>5, <2>1, FlowTaken
  <2>3. QED BY <1>1, <2>2 DEF p
<1>8. /\ Len(args') = n + 1 /\ args'[n + 1] = Head(rx)
      /\ \A k \in 1 .. n : args'[k] = args[k]
  <2>1. Head(rx) \in Bytes
    BY <1>1, <1>5, Taken
  <2>2. QED BY <1>1, <1>5, <2>1, Added
<1> HIDE DEF n
<1>9. \A k \in 1 .. n + 1 : args'[k] = m[3 + k]
  <2> SUFFICES ASSUME NEW k \in 1 .. n + 1 PROVE args'[k] = m[3 + k]
    OBVIOUS
  <2>1. CASE k = n + 1
    <3>1. 3 + n + 1 = 3 + k
      BY <1>6, <2>1
    <3>2. QED BY <1>7, <1>8, <2>1, <3>1
  <2>2. CASE k # n + 1
    <3>1. k \in 1 .. n
      BY <1>6, <2>2
    <3>2. QED BY <1>2, <1>8, <3>1
  <2>3. QED BY <2>1, <2>2
<1>10. CASE n # 3
  <2>1. dev' = "args"
    BY <1>1, <1>10 DEF ReadArgs, n
  <2>2. Flow(3 + Len(args))'
    <3>1. 3 + Len(args') = 3 + n + 1
      BY <1>6, <1>8
    <3>2. QED BY <1>1, <1>7, <3>1 DEF Flow, m
  <2>3. \A k \in 1 .. Len(args') : args'[k] = Message(job', want')[3 + k]
    BY <1>1, <1>8, <1>9 DEF m
  <2>4. QED BY <1>1, <1>2, <2>1, <2>2, <2>3 DEF Live, Parsing
<1>11. CASE n = 3
  <2>1. /\ addr' = word(args[1], args[2]) /\ len' = word(args[3], Head(rx))
        /\ dev' = IF cmd = AEPC_READ THEN "read" ELSE "fill"
    BY <1>1, <1>11 DEF ReadArgs, n
  <2>2. args[1] = m[4] /\ args[2] = m[5] /\ args[3] = m[6] /\ Head(rx) = m[7]
    <3>1. args[1] = m[3 + 1] /\ args[2] = m[3 + 2] /\ args[3] = m[3 + 3]
      BY <1>2, <1>11 DEF n
    <3>2. 3 + n + 1 = 7
      BY <1>11
    <3>3. QED BY <1>7, <3>1, <3>2
  <2>3. addr' = Base(job) % WORD /\ len' = Count(job, want) % WORD
    BY <1>4, <2>1, <2>2 DEF Laid
  <2>4. Len(m) = 7 + Len(Payload(job))
    BY <1>4 DEF Laid
  <2>5. FlowOf(m, 7, rx', toDevice')
    <3>1. 3 + n + 1 = 7
      BY <1>11
    <3>2. QED BY <1>7, <3>1
  <2>6. CASE job.op \in Reads
    <3>1. dev' = "read" /\ len' = want % WORD
      BY <1>2, <2>1, <2>3, <2>6 DEF Opcode, Reads, Count
    <3>2. Payload(job) = << >>
      BY <2>6, MessageKnown DEF Reads, Writes
    <3>3. 7 = Len(m)
      BY <2>4, <3>2
    <3>4. Silent'
      BY <1>4, <1>5, <2>5, <3>3, FlowOver DEF Silent
    <3>5. Len(got') + Len(toHost') + len' = want' % WORD
      <4>1. want % WORD \in Int
        BY Sizes DEF Types, TypeOK
      <4>2. QED BY <1>1, <1>2, <3>1, <4>1
    <3>6. addr' = (Base(job') + Len(got') + Len(toHost')) % WORD
      <4>1. Base(job) + 0 + 0 = Base(job)
        BY MessageKnown
      <4>2. Len(got') = 0 /\ Len(toHost') = 0 /\ job' = job
        BY <1>1, <1>2
      <4>3. QED BY <2>3, <4>1, <4>2
    <3>7. QED BY <1>1, <2>6, <3>1, <3>4, <3>5, <3>6 DEF Live, Reading
  <2>7. CASE job.op \in Writes
    <3>1. dev' = "fill" /\ len' = Len(Payload(job)) % WORD
      BY <1>2, <2>1, <2>3, <2>7 DEF Opcode, Reads, Writes, Count, AEPC_READ, AEPC_WRITE
    <3>2. Len(Payload(job)) \in Nat /\ Len(Payload(job)) <= HALF
      BY MessageKnown
    <3>3. len' = Len(Payload(job))
      BY <3>1, <3>2, Sizes
    <3>4. Flow(7 + Len(write_buffer))'
      <4>1. 7 + Len(write_buffer') = 7
        BY <1>1, <1>6
      <4>2. QED BY <1>1, <2>5, <4>1 DEF Flow, m
    <3>5. \A k \in 1 .. Len(write_buffer') : write_buffer'[k] = Payload(job')[k]
      BY <1>1, <1>6
    <3>6. QED BY <1>1, <1>2, <2>3, <2>7, <3>1, <3>3, <3>4, <3>5 DEF Live, Filling
  <2>8. QED BY <1>2, <2>6, <2>7
<1>12. QED BY <1>10, <1>11

LEMMA BoardRead ==
  ASSUME Types, Types', Firmware, Calling, Live, ReadLoop
  PROVE  Live'
<1>1. dev = "read" /\ UNCHANGED <<write_buffer, rom, toDevice, rx, job, want, got>>
  BY DEF ReadLoop, hostVars
<1>2. /\ job.op \in Reads /\ Silent /\ Len(got) + Len(toHost) + len = want % WORD
      /\ addr = (Base(job) + Len(got) + Len(toHost)) % WORD
  BY <1>1 DEF Live, Asked, Parsing, Reading, Filling, Writing, Ending, Answered
<1>3. Silent'
  BY <1>1, <1>2 DEF Silent
<1>4. /\ Len(got) \in Nat /\ Len(toHost) \in Nat /\ len \in Nat
      /\ toHost \in Seq(Bytes)
  BY LenProperties, Sizes DEF Types, TypeOK
<1>5. CASE len # 0
  <2>1. len' = len - 1 /\ dev' = dev /\ Board
    BY <1>5 DEF ReadLoop, Board
  <2>2. PICK byte \in e_read(addr) : toHost' = Append(toHost, byte)
    BY <1>5 DEF ReadLoop, Send
  <2>3. Len(toHost') = Len(toHost) + 1
    <3>1. byte \in Bytes
      <4>1. Floating \subseteq Bytes
        BY ProgrammerAssumption DEF Bytes
      <4>2. addr < HALF => rom[addr] \in Bytes
        BY Sizes DEF Types, TypeOK
      <4>3. QED BY <2>2, <4>1, <4>2 DEF e_read
    <3>2. QED BY <1>4, <2>2, <3>1, Added
  <2>4. Len(got') + Len(toHost') + len' = want' % WORD
    BY <1>1, <1>2, <1>4, <2>1, <2>3
  <2>5. addr' = (Base(job') + Len(got') + Len(toHost')) % WORD
    <3> DEFINE n == Base(job) + Len(got) + Len(toHost)
    <3>1. n \in Nat /\ Base(job') + Len(got') + Len(toHost') = n + 1
      <4> DEFINE b == Base(job)
                 g == Len(got)
                 t == Len(toHost)
      <4>1. b \in Nat /\ g \in Nat /\ t \in Nat
        BY <1>4, MessageKnown
      <4>2. Base(job') = b /\ Len(got') = g /\ Len(toHost') = t + 1 /\ n = b + g + t
        BY <1>1, <2>3
      <4> HIDE DEF b, g, t, n
      <4>3. QED BY <4>1, <4>2
    <3>2. addr = n % WORD /\ addr' = (addr + 1) % WORD
      BY <1>2, <1>5 DEF ReadLoop
    <3> HIDE DEF n
    <3>3. ((n % WORD) + 1) % WORD = (n + 1) % WORD
      BY <3>1, WordAdded
    <3>4. QED BY <3>1, <3>2, <3>3
  <2>6. QED BY <1>1, <1>2, <1>3, <2>1, <2>4, <2>5 DEF Live, Reading
<1>6. CASE len = 0
  <2>1. dev' = "eoc" /\ toHost' = toHost
    BY <1>6 DEF ReadLoop
  <2>2. Len(got') + Len(toHost') = want' % WORD
    BY <1>1, <1>2, <1>4, <1>6, <2>1
  <2>3. Len(write_buffer') <= BufferSize
    BY <1>1, ProgrammerAssumption DEF Firmware
  <2>4. Stored'
    BY <1>1, <1>2 DEF Stored, Reads, Writes
  <2>5. QED BY <1>3, <2>1, <2>2, <2>3, <2>4 DEF Live, Ending
<1>7. QED BY <1>5, <1>6

LEMMA BoardFill ==
  ASSUME Types, Types', Firmware, Calling, Live, FillBuffer
  PROVE  Live'
<1> DEFINE m == Message(job, want)
           d == Payload(job)
           n == Len(write_buffer)
<1>1. dev = "fill" /\ UNCHANGED <<addr, len, i, rom, toDevice, toHost, job, want, got>>
  BY DEF FillBuffer, hostVars
<1>2. /\ job.op \in Writes
      /\ FlowOf(m, 7 + n, rx, toDevice) /\ toHost = << >>
      /\ addr = Base(job) % WORD /\ len = Len(d)
      /\ \A k \in 1 .. n : write_buffer[k] = d[k]
  BY <1>1 DEF Live, Asked, Parsing, Reading, Filling, Writing, Ending, Answered, Flow
<1>3. job.op # "ping"
  BY <1>2 DEF Writes
<1>4. /\ m \in Seq(Bytes) /\ Len(m) = 7 + Len(d) /\ Len(d) \in Nat
      /\ \A k \in 1 .. Len(d) : m[7 + k] = d[k]
  BY <1>3, MessageKnown DEF Laid
<1>5. /\ rx \in Seq(Bytes) /\ toDevice \in Seq(Bytes) /\ write_buffer \in Seq(Bytes)
      /\ rx' \in Seq(Bytes) /\ toDevice' \in Seq(Bytes) /\ n \in Nat
  BY LenProperties DEF Types, TypeOK
<1> HIDE DEF m, d
<1>6. CASE n # len
  <2>1. /\ rx # << >> /\ rx' = Tail(rx) /\ dev' = dev
        /\ write_buffer' = Append(write_buffer, Head(rx))
    BY <1>6 DEF FillBuffer, read_wait, n
  <2> DEFINE p == 7 + n
  <2>2. p \in Nat /\ FlowOf(m, p, rx, toDevice)
    BY <1>2, <1>5
  <2> HIDE DEF p
  <2>3. Head(rx) = m[p + 1] /\ FlowOf(m, p + 1, Tail(rx), toDevice)
    BY <1>4, <1>5, <2>1, <2>2, FlowTaken
  <2>4. /\ Len(write_buffer') = n + 1 /\ write_buffer'[n + 1] = Head(rx)
        /\ \A k \in 1 .. n : write_buffer'[k] = write_buffer[k]
    <3>1. Head(rx) \in Bytes
      BY <1>5, <2>1, Taken
    <3>2. QED BY <1>5, <2>1, <3>1, Added
  <2>5. n + 1 \in 1 .. Len(d)
    <3>1. p + Len(rx) + Len(toDevice) = 7 + Len(d)
      BY <1>4, <1>5, <2>2, FlowLength
    <3>2. Len(rx) \in Nat /\ Len(rx) > 0 /\ Len(toDevice) \in Nat
      BY <1>5, <2>1, Taken, LenProperties
    <3>3. QED BY <1>4, <1>5, <3>1, <3>2 DEF p
  <2> HIDE DEF n
  <2>6. Head(rx) = d[n + 1]
    <3>1. p + 1 = 7 + (n + 1)
      BY <1>5 DEF p
    <3>2. QED BY <1>4, <2>3, <2>5, <3>1
  <2>7. \A k \in 1 .. n + 1 : write_buffer'[k] = d[k]
    <3> SUFFICES ASSUME NEW k \in 1 .. n + 1 PROVE write_buffer'[k] = d[k]
      OBVIOUS
    <3>1. k # n + 1 => k \in 1 .. n
      BY <1>5
    <3>2. QED BY <1>2, <2>4, <2>6, <3>1
  <2>8. Flow(7 + Len(write_buffer))'
    <3>1. 7 + Len(write_buffer') = p + 1
      BY <1>5, <2>4 DEF p
    <3>2. QED BY <1>1, <2>1, <2>3, <3>1 DEF Flow, m
  <2>9. QED BY <1>1, <1>2, <2>1, <2>4, <2>7, <2>8 DEF Live, Filling, d
<1>7. CASE n = len
  <2>1. dev' = "write" /\ UNCHANGED <<rx, write_buffer>>
    BY <1>7 DEF FillBuffer, n
  <2>2. Len(m) = 7 + n
    BY <1>2, <1>4, <1>7
  <2>3. rx = << >> /\ toDevice = << >>
    BY <1>2, <1>4, <1>5, <2>2, FlowOver
  <2>4. Silent'
    BY <1>1, <2>1, <2>3 DEF Silent
  <2>5. Written(i)'
    <3>1. i = 0
      BY <1>1 DEF Firmware
    <3>2. QED BY <1>1, <3>1 DEF Written
  <2>6. \A k \in 1 .. len' : write_buffer'[k] = Payload(job')[k]
    BY <1>1, <1>2, <1>7, <2>1 DEF d
  <2>7. QED BY <1>1, <1>2, <2>1, <2>4, <2>5, <2>6 DEF Live, Writing, d
<1>8. QED BY <1>6, <1>7

LEMMA BoardWrite ==
  ASSUME Types, Types', Firmware, Calling, Live, WriteLoop
  PROVE  Live'
<1> DEFINE d == Payload(job)
           a == Base(job)
<1>1. /\ dev = "write"
      /\ UNCHANGED <<addr, len, write_buffer, toDevice, toHost, rx, job, want, got>>
  BY DEF WriteLoop, hostVars
<1>2. /\ job.op \in Writes /\ Silent /\ toHost = << >>
      /\ addr = a % WORD /\ len = Len(d)
      /\ \A k \in 1 .. len : write_buffer[k] = d[k]
      /\ \A k \in 1 .. i : rom[(a + k - 1) % HALF] = d[k]
  BY <1>1 DEF Live, Asked, Parsing, Reading, Filling, Writing, Ending, Answered, Written
<1>3. /\ a \in Nat /\ Len(d) \in Nat /\ Len(d) <= HALF /\ Len(d) <= BufferSize
  BY MessageKnown
<1>4. i \in Nat /\ i <= len /\ Len(write_buffer) = len /\ want = 0 /\ Len(got) = 0
  <2>1. job.op \notin Reads
    BY <1>2 DEF Reads, Writes
  <2>2. want = 0
    BY <2>1, MessageKnown
  <2>3. Len(got) \in Nat /\ Len(got) <= want /\ i \in Nat
    BY LenProperties, Sizes DEF Types, TypeOK
  <2>4. QED BY <1>1, <2>2, <2>3 DEF Firmware
<1>5. HALF \in Nat /\ HALF > 0 /\ rom \in [0 .. HALF - 1 -> Bytes]
  BY Sizes DEF Types, TypeOK
<1>6. Silent'
  BY <1>1, <1>2 DEF Silent
<1> HIDE DEF d, a
<1>7. CASE i < len
  <2>1. /\ rom' = [rom EXCEPT ![(addr + i) % HALF] = write_buffer[i + 1]]
        /\ i' = i + 1 /\ dev' = dev
    BY <1>7 DEF WriteLoop
  <2>2. (addr + i) % HALF = (a + i) % HALF
    BY <1>2, <1>3, <1>4, CellOfAddress
  <2>3. write_buffer[i + 1] = d[i + 1]
    BY <1>2, <1>4, <1>7
  <2>4. (a + i) % HALF \in 0 .. HALF - 1
    <3>1. a + i \in Nat
      BY <1>3, <1>4
    <3>2. QED BY <1>5, <3>1, DivMod
  <2>5. ASSUME NEW k \in 1 .. i + 1 PROVE rom'[(a + k - 1) % HALF] = d[k]
    <3>1. CASE k = i + 1
      <4>1. a + k - 1 = a + i
        BY <1>3, <1>4, <3>1
      <4>2. QED BY <1>5, <2>1, <2>2, <2>3, <2>4, <3>1, <4>1
    <3>2. CASE k # i + 1
      <4>1. k \in 1 .. i /\ k \in Nat
        BY <1>4, <2>5, <3>2
      <4>2. a + k - 1 \in Nat /\ a + i \in Nat /\ a + k - 1 < a + i
            /\ (a + i) - (a + k - 1) < HALF
        BY <1>2, <1>3, <1>4, <1>5, <1>7, <4>1
      <4>3. (a + k - 1) % HALF # (a + i) % HALF
        BY <1>5, <4>2, CellsDiffer
      <4>4. rom'[(a + k - 1) % HALF] = rom[(a + k - 1) % HALF]
        <5>1. (a + k - 1) % HALF \in 0 .. HALF - 1
          BY <1>5, <4>2, DivMod
        <5>2. QED BY <1>5, <2>1, <2>2, <4>3, <5>1
      <4>5. QED BY <1>2, <4>1, <4>4
    <3>3. QED BY <3>1, <3>2
  <2>6. Written(i)'
    BY <1>1, <2>1, <2>5 DEF Written, a, d
  <2>7. QED BY <1>1, <1>2, <1>6, <2>1, <2>6 DEF Live, Writing, a, d
<1>8. CASE ~(i < len)
  <2>1. dev' = "eoc" /\ UNCHANGED <<rom, i>>
    BY <1>8 DEF WriteLoop
  <2>2. i = Len(d)
    BY <1>2, <1>3, <1>4, <1>8
  <2>3. Stored'
    BY <1>1, <1>2, <2>1, <2>2 DEF Stored, Written, a, d
  <2>4. Len(got') + Len(toHost') = want' % WORD
    <3>1. 0 % WORD = 0
      BY Sizes
    <3>2. QED BY <1>1, <1>2, <1>4, <3>1
  <2>5. Len(write_buffer') <= BufferSize
    BY <1>1, <1>2, <1>3, <1>4
  <2>6. QED BY <1>6, <2>1, <2>3, <2>4, <2>5 DEF Live, Ending
<1>9. QED BY <1>7, <1>8

LEMMA BoardEnds ==
  ASSUME Types, Types', Firmware, Calling, Live, EndOfCommand
  PROVE  Live'
<1>1. /\ dev = "eoc" /\ dev' = "command" /\ toHost' = Append(toHost, EOC)
      /\ UNCHANGED <<rom, toDevice, rx, job, want, got>>
  BY DEF EndOfCommand, Send, hostVars
<1>2. Silent /\ Len(got) + Len(toHost) = want % WORD /\ Stored
  BY <1>1 DEF Live, Asked, Parsing, Reading, Filling, Writing, Ending, Answered
<1>3. Silent' /\ Stored'
  BY <1>1, <1>2 DEF Silent, Stored, Written
<1>4. Len(got) \in Nat /\ toHost \in Seq(Bytes)
  BY LenProperties DEF Types, TypeOK
<1>5. /\ Len(toHost) \in Nat /\ Len(toHost') = Len(toHost) + 1
      /\ toHost'[Len(toHost) + 1] = EOC
  BY <1>1, <1>4, Added, Sizes
<1>6. Len(got') + Len(toHost') = (want' % WORD) + 1
  BY <1>1, <1>2, <1>4, <1>5
<1>7. toHost'[Len(toHost')] = EOC
  BY <1>5
<1>8. QED BY <1>1, <1>3, <1>6, <1>7 DEF Live, Answered

LEMMA BoardLive ==
  ASSUME Types, Types', Firmware, Calling, Live, Board
  PROVE  Live'
<1>1. ~Setup
  BY DEF Setup, Live, Asked, Parsing, Reading, Filling, Writing, Ending, Answered
<1>2. QED
  BY <1>1, BoardCommand, BoardArgs, BoardRead, BoardFill, BoardWrite, BoardEnds DEF Board
-----------------------------------------------------------------------------
(* The link: only a live message is under way, and there is room for it.   *)
LEMMA RoomOnBoard ==
  ASSUME Types, Calling, NEW p \in Nat, Flow(p), toDevice # << >>
  PROVE  Len(rx) < RxSize
<1> DEFINE m == Message(job, want)
<1>1. m \in Seq(Bytes) /\ Len(m) \in Nat /\ Len(m) <= RxSize
  BY MessageKnown
<1>2. rx \in Seq(Bytes) /\ toDevice \in Seq(Bytes) /\ FlowOf(m, p, rx, toDevice)
  BY DEF Types, TypeOK, Flow
<1> HIDE DEF m
<1>3. Len(rx) \in Nat /\ Len(toDevice) \in Nat /\ p + Len(rx) + Len(toDevice) = Len(m)
  BY <1>1, <1>2, FlowLength
<1>4. Len(toDevice) > 0
  BY <1>2, Taken
<1>5. RxSize \in Nat
  BY ProgrammerAssumption
<1>6. QED BY <1>1, <1>3, <1>4, <1>5

LEMMA LiveRoom ==
  ASSUME Types, Calling, Live, toDevice # << >>
  PROVE  /\ Len(rx) < RxSize
         /\ Asked \/ Parsing \/ Filling
<1>1. Asked \/ Parsing \/ Filling
  BY DEF Live, Reading, Writing, Ending, Answered, Silent
<1>2. CASE Asked
  <2>1. Flow(0) /\ 0 \in Nat
    BY <1>2 DEF Asked
  <2>2. QED BY <1>1, <2>1, RoomOnBoard
<1>3. CASE Parsing
  <2>1. Len(args) \in Nat
    BY LenProperties DEF Types, TypeOK
  <2>2. Flow(3 + Len(args)) /\ 3 + Len(args) \in Nat
    BY <1>3, <2>1 DEF Parsing
  <2>3. QED BY <1>1, <2>2, RoomOnBoard
<1>4. CASE Filling
  <2>1. Len(write_buffer) \in Nat
    BY LenProperties DEF Types, TypeOK
  <2>2. Flow(7 + Len(write_buffer)) /\ 7 + Len(write_buffer) \in Nat
    BY <1>4, <2>1 DEF Filling
  <2>3. QED BY <1>1, <2>2, RoomOnBoard
<1>5. QED BY <1>1, <1>2, <1>3, <1>4

LEMMA LinkLive ==
  ASSUME Types, Types', Calling, Live, Arrive
  PROVE  Live'
<1> DEFINE m == Message(job, want)
<1>1. /\ toDevice # << >> /\ toDevice' = Tail(toDevice)
      /\ UNCHANGED <<dev, cmd, args, addr, len, write_buffer, i, rom, toHost, job, want, got>>
  BY DEF Arrive, hostVars, devVars
<1>2. rx' = Append(rx, Head(toDevice))
  BY <1>1, LiveRoom DEF Arrive
<1>3. m \in Seq(Bytes)
  BY MessageKnown
<1>4. /\ rx \in Seq(Bytes) /\ toDevice \in Seq(Bytes)
      /\ Len(args) \in Nat /\ Len(write_buffer) \in Nat
  BY LenProperties DEF Types, TypeOK
<1>5. \A p \in Nat : FlowOf(m, p, rx, toDevice) => FlowOf(m, p, rx', toDevice')
  <2> SUFFICES ASSUME NEW p \in Nat, FlowOf(m, p, rx, toDevice)
               PROVE  FlowOf(m, p, rx', toDevice')
    OBVIOUS
  <2> HIDE DEF m
  <2>1. FlowOf(m, p, Append(rx, Head(toDevice)), Tail(toDevice))
    BY <1>1, <1>3, <1>4, FlowArrives
  <2>2. QED BY <1>1, <1>2, <2>1
<1>6. CASE Asked
  <2>1. FlowOf(m, 0, rx', toDevice')
    BY <1>5, <1>6 DEF Asked, Flow
  <2>2. QED BY <1>1, <1>6, <2>1 DEF Live, Asked, Flow
<1>7. CASE Parsing
  <2>1. FlowOf(m, 3 + Len(args), rx', toDevice')
    <3>1. 3 + Len(args) \in Nat
      BY <1>4
    <3>2. QED BY <1>5, <1>7, <3>1 DEF Parsing, Flow
  <2>2. Parsing'
    BY <1>1, <1>7, <2>1 DEF Parsing, Flow
  <2>3. QED BY <2>2 DEF Live
<1>8. CASE Filling
  <2>1. FlowOf(m, 7 + Len(write_buffer), rx', toDevice')
    <3>1. 7 + Len(write_buffer) \in Nat
      BY <1>4
    <3>2. QED BY <1>5, <1>8, <3>1 DEF Filling, Flow
  <2>2. Filling'
    BY <1>1, <1>8, <2>1 DEF Filling, Flow
  <2>3. QED BY <2>2 DEF Live
<1>9. QED BY <1>1, <1>6, <1>7, <1>8, LiveRoom

LEMMA LinkStep ==
  ASSUME Types, Types', InTouch, Arrive
  PROVE  InTouch'
<1>1. /\ toDevice # << >>
      /\ UNCHANGED <<dev, rom, toHost, host, job, want, got, restarts>>
  BY DEF Arrive, hostVars, devVars
<1>2. ~Idling
  BY <1>1 DEF Idling, Silent
<1>3. host \notin {"startup", "prompt", "send"} /\ ~(host = "exited" /\ restarts = 0)
  BY <1>2 DEF InTouch, Starting, AtPrompt
<1>4. ASSUME host = "await" PROVE Calling' /\ (Live' \/ Doomed')
  <2>1. Calling /\ (Live \/ Doomed)
    BY <1>2, <1>4 DEF InTouch, Finished
  <2>2. Calling'
    BY <1>1, <2>1 DEF Calling
  <2>3. Doomed => Doomed'
    BY <1>1, <1>2 DEF Doomed
  <2>4. QED BY <2>1, <2>2, <2>3, LinkLive
<1>5. QED BY <1>1, <1>3, <1>4 DEF InTouch

LEMMA BoardStep ==
  ASSUME Types, Types', Firmware, InTouch, Board
  PROVE  InTouch'
<1>1. UNCHANGED <<host, job, want, got, restarts, toDevice>>
  BY BoardSays
<1>2. /\ Starting => Starting'
      /\ AtPrompt => AtPrompt'
      /\ Finished => Finished'
  BY BoardAtEase
<1>3. ASSUME host = "await" PROVE Calling' /\ (Live \/ Finished \/ Doomed)'
  <2>1. Calling /\ (Live \/ Finished \/ Doomed)
    BY <1>3 DEF InTouch
  <2>2. Calling'
    BY <1>1, <2>1 DEF Calling
  <2>3. Live => Live'
    BY <2>1, BoardLive
  <2>4. Doomed => Doomed'
    BY BoardInVain
  <2>5. QED BY <1>2, <2>1, <2>2, <2>3, <2>4
<1>4. QED BY <1>1, <1>2, <1>3 DEF InTouch
-----------------------------------------------------------------------------
(* A restart: what the board was told is lost, what it said last may be.   *)
LEMMA LiveAnswer ==
  ASSUME Types, Calling, Live, Len(got) = want, toHost # << >>
  PROVE  /\ Answered /\ Len(toHost) = 1 /\ toHost[1] = EOC
<1>1. /\ Len(toHost) \in Nat /\ Len(toHost) > 0 /\ want \in Nat /\ len \in Nat
  BY Taken, Sizes DEF Types, TypeOK
<1>2. want % WORD \in Nat /\ want % WORD <= want
  <2>1. WORD \in Nat /\ WORD > 0
    BY Sizes
  <2>2. /\ want \div WORD \in Nat /\ want % WORD \in Nat
        /\ want = WORD * (want \div WORD) + (want % WORD)
    BY <1>1, <2>1, DivMod
  <2> DEFINE q == want \div WORD
             x == want % WORD
  <2>3. q \in Nat /\ x \in Nat /\ want = WORD * q + x
    BY <2>2
  <2> HIDE DEF q, x
  <2>4. WORD * q \in Nat
    BY <2>1, <2>3
  <2>5. x \in Nat /\ x <= want
    BY <1>1, <2>3, <2>4
  <2>6. QED BY <2>5 DEF x
<1>3. ~Reading
  <2>1. ASSUME Reading PROVE FALSE
    <3>1. want + Len(toHost) + len = want % WORD
      BY <2>1 DEF Reading
    <3>2. QED BY <1>1, <1>2, <3>1
  <2>2. QED BY <2>1
<1>4. ~Ending
  <2>1. ASSUME Ending PROVE FALSE
    <3>1. want + Len(toHost) = want % WORD
      BY <2>1 DEF Ending
    <3>2. QED BY <1>1, <1>2, <3>1
  <2>2. QED BY <2>1
<1>5. Answered
  BY <1>3, <1>4 DEF Live, Asked, Parsing, Filling, Writing
<1>6. Len(toHost) = 1
  <2>1. want + Len(toHost) = (want % WORD) + 1
    BY <1>5 DEF Answered
  <2> DEFINE x == want % WORD
             y == Len(toHost)
  <2>2. x \in Nat /\ x <= want /\ want + Len(toHost) = x + 1
    BY <1>2, <2>1
  <2>3. y \in Nat /\ y > 0 /\ want \in Nat
    BY <1>1
  <2>4. want + y = x + 1
    BY <2>2
  <2>5. x \in Nat /\ x <= want
    BY <2>2
  <2> HIDE DEF x, y
  <2>6. y = 1
    BY <2>3, <2>4, <2>5
  <2>7. QED BY <2>6 DEF y
<1>7. QED BY <1>5, <1>6 DEF Answered

LEMMA LiveHasAll ==
  ASSUME Types, Calling, Live, Len(got) = want, want > 0
  PROVE  Silent
<1>1. job.op \notin Writes
  BY DEF Calling, Reads, Writes
<1>2. got # << >>
  BY EmptyIs DEF Types, TypeOK
<1>3. QED BY <1>1, <1>2 DEF Live, Asked, Parsing, Reading, Filling, Writing, Ending, Answered

LEMMA RestartStep ==
  ASSUME Types, Types', InTouch, Restart
  PROVE  InTouch'
<1>1. /\ restarts \in Nat /\ restarts' > 0 /\ dev' = "setup" /\ rx' = << >>
      /\ UNCHANGED <<rom, toDevice, host, job, want, got>>
      /\ \E k \in 0 .. Len(toHost) : toHost' = SubSeq(toHost, 1, k)
  BY ProgrammerAssumption DEF Restart, hostVars, Types, TypeOK
<1>2. PICK k \in 0 .. Len(toHost) : toHost' = SubSeq(toHost, 1, k)
  BY <1>1
<1>3. /\ Len(toHost) \in Nat /\ Len(toHost') = k /\ toHost' \in Seq(Bytes)
      /\ \A j \in 1 .. k : toHost'[j] = toHost[j]
  BY <1>2, Kept DEF Types, TypeOK
<1>4. toDevice = << >> => Idling'
  BY <1>1 DEF Idling, Silent
<1>5. AllReady(1) => AllReady(1)'
  BY <1>2, ReadyKept
<1>6. toHost' # << >> => toHost # << >> /\ toHost'[1] = toHost[1]
  <2>1. ASSUME toHost' # << >> PROVE toHost # << >> /\ toHost'[1] = toHost[1]
    <3>1. k > 0
      BY <1>3, <2>1, EmptyIs
    <3>2. 1 \in 1 .. k /\ Len(toHost) > 0
      BY <1>3, <3>1
    <3>3. toHost # << >>
      BY <3>2, EmptyIs DEF Types, TypeOK
    <3>4. QED BY <1>3, <3>2, <3>3
  <2>2. QED BY <2>1
<1>7. ASSUME Idling, AllReady(1) PROVE Starting' /\ AtPrompt'
  <2>1. Idling' /\ AllReady(1)'
    BY <1>4, <1>5, <1>7 DEF Idling, Silent
  <2>2. QED BY <1>1, <2>1 DEF Starting, AtPrompt
<1>8. ASSUME host = "await" PROVE Calling' /\ (Finished \/ Doomed)'
  <2>1. Calling /\ (Live \/ Finished \/ Doomed)
    BY <1>8 DEF InTouch
  <2>2. Calling'
    BY <1>1, <2>1 DEF Calling
  <2>3. want \in Nat /\ Len(got) \in Nat /\ Len(got) <= want
    BY LenProperties DEF Types, TypeOK
  <2>4. CASE Len(got) < want
    BY <1>1, <2>2, <2>4 DEF Doomed
  <2>5. ASSUME Len(got) = want, toHost' = << >>, want > 0 => toDevice = << >> PROVE Doomed'
    <3>1. CASE want = 0
      BY <1>1, <2>5, <3>1 DEF Doomed
    <3>2. CASE want > 0
      <4>1. Idling'
        BY <1>4, <2>5, <3>2
      <4>2. AllReady(1)'
        BY <2>5 DEF AllReady
      <4>3. QED BY <1>1, <2>5, <3>2, <4>1, <4>2 DEF Doomed
    <3>3. QED BY <2>3, <3>1, <3>2
  <2>6. CASE Len(got) = want /\ Live
    <3>1. want > 0 => toDevice = << >>
      BY <2>1, <2>6, LiveHasAll DEF Silent
    <3>2. CASE toHost' = << >>
      BY <2>2, <2>5, <2>6, <3>1, <3>2
    <3>3. CASE toHost' # << >>
      <4>1. Answered /\ Len(toHost) = 1 /\ toHost[1] = EOC
        BY <1>6, <2>1, <2>6, <3>3, LiveAnswer
      <4>2. toHost'[1] = EOC /\ Len(toHost') <= 1
        BY <1>3, <1>6, <3>3, <4>1
      <4>3. AllReady(2)'
        BY <1>3, <4>2 DEF AllReady
      <4>4. Idling'
        BY <1>4, <4>1 DEF Answered, Silent
      <4>5. Stored'
        BY <1>1, <4>1 DEF Answered, Stored, Written
      <4>6. QED BY <1>1, <2>2, <2>6, <3>3, <4>2, <4>3, <4>4, <4>5 DEF Finished
    <3>4. QED BY <3>2, <3>3
  <2>7. CASE Len(got) = want /\ Finished
    <3>1. toDevice = << >>
      BY <2>7 DEF Finished, Idling, Silent
    <3>2. CASE toHost' = << >>
      BY <2>2, <2>5, <2>7, <3>1, <3>2
    <3>3. CASE toHost' # << >>
      <4>1. toHost'[1] = EOC
        BY <1>6, <2>7, <3>3 DEF Finished
      <4>2. AllReady(2)'
        BY <1>2, <2>7, ReadyKept DEF Finished
      <4>3. Stored'
        BY <1>1, <2>7 DEF Finished, Stored, Written
      <4>4. Idling'
        BY <1>4, <3>1
      <4>5. QED BY <1>1, <2>2, <2>7, <3>3, <4>1, <4>2, <4>3, <4>4 DEF Finished
    <3>4. QED BY <3>2, <3>3
  <2>8. CASE Len(got) = want /\ Doomed
    <3>1. CASE want = 0
      <4>1. toHost # << >> => toHost[1] = READY
        BY <2>3, <2>8, <3>1 DEF Doomed
      <4>2. IF toHost' = << >> THEN dev' = "setup" ELSE toHost'[1] = READY
        BY <1>1, <1>6, <4>1
      <4>3. QED BY <1>1, <2>2, <3>1, <4>2 DEF Doomed
    <3>2. CASE want > 0
      <4>1. Idling /\ AllReady(1)
        BY <2>3, <2>8, <3>2 DEF Doomed
      <4>2. Idling' /\ AllReady(1)'
        BY <1>4, <1>5, <4>1 DEF Idling, Silent
      <4>3. QED BY <1>1, <2>2, <2>8, <3>2, <4>2 DEF Doomed
    <3>3. QED BY <2>3, <3>1, <3>2
  <2>9. QED BY <2>1, <2>3, <2>4, <2>6, <2>7, <2>8
<1>9. (Starting \/ AtPrompt) => Starting' /\ AtPrompt'
  BY <1>7 DEF Starting, AtPrompt
<1>10. QED BY <1>1, <1>8, <1>9 DEF InTouch
-----------------------------------------------------------------------------
(* The host.                                                               *)
LEMMA StartupStep ==
  ASSUME Types, Types', InTouch, AwaitReady
  PROVE  InTouch'
<1>1. /\ host = "startup" /\ toHost # << >> /\ toHost' = Tail(toHost)
      /\ host' = (IF Head(toHost) = READY THEN "prompt" ELSE "startup")
      /\ UNCHANGED <<rx, toDevice, dev, restarts>>
  BY DEF AwaitReady, devVars
<1>2. Idling /\ AllReady(1)
  BY <1>1 DEF InTouch, Starting
<1>3. host' = "prompt"
  <2>1. Head(toHost) = toHost[1] /\ Len(toHost) \in Nat /\ Len(toHost) > 0
    BY <1>1, Taken DEF Types, TypeOK
  <2>2. toHost[1] = READY
    BY <1>2, <2>1 DEF AllReady
  <2>3. QED BY <1>1, <2>1, <2>2
<1>4. AllReady(1)' /\ Len(toHost') = Len(toHost) - 1
  BY <1>1, <1>2, ReadyTaken
<1>5. Idling'
  BY <1>1, <1>2 DEF Idling, Silent
<1>6. ASSUME restarts' = 0 PROVE dev' = "command" /\ toHost' = << >>
  <2>1. dev # "setup" /\ Len(toHost) = 1
    BY <1>1, <1>6 DEF InTouch, Starting
  <2>2. Len(toHost') = 0
    BY <1>4, <2>1
  <2>3. toHost' = << >>
    BY <2>2, EmptyIs DEF Types, TypeOK
  <2>4. QED BY <1>1, <1>2, <2>1, <2>3 DEF Idling
<1>7. AtPrompt'
  BY <1>4, <1>5, <1>6 DEF AtPrompt
<1>8. QED BY <1>3, <1>7 DEF InTouch

LEMMA PromptStep ==
  ASSUME Types, Types', InTouch,
         LastPart \/ Quit \/ \E c \in Commands : Command(c)
  PROVE  InTouch'
<1>1. /\ host \in {"prompt", "send"} /\ host' \in {"prompt", "send", "exited"}
      /\ UNCHANGED <<rx, toDevice, toHost, dev, restarts>>
  BY DEF LastPart, Quit, Command, devVars
<1>2. AtPrompt
  BY <1>1 DEF InTouch
<1>3. AtPrompt'
  BY <1>1, <1>2 DEF AtPrompt, Idling, Silent, AllReady
<1>4. QED BY <1>1, <1>3 DEF InTouch

LEMMA RequestStep ==
  ASSUME Types, Types', InTouch, Requests
  PROVE  InTouch'
<1> DEFINE m == Message(job, want')
<1>1. /\ host = "send" /\ job.op # "none" /\ job' = job
      /\ want' \in Nat /\ (want' > 0 => job.op \in Reads)
      /\ job.op = "verify" => want' > 0
      /\ Request(m, want')
  BY RequestIs DEF Types
<1>2. /\ host' = "await" /\ got' = << >> /\ toDevice' = toDevice \o m
      /\ UNCHANGED <<rx, toHost, dev, restarts>>
  BY <1>1 DEF Request, devVars
<1>3. AtPrompt
  BY <1>1 DEF InTouch
<1>4. Calling'
  BY <1>1 DEF Calling
<1>5. CASE dev = "command" /\ toHost = << >>
  <2>1. rx = << >> /\ toDevice = << >>
    BY <1>3 DEF AtPrompt, Idling, Silent
  <2>2. m \in Seq(Bytes)
    BY <1>1, MessageIs DEF Laid, Types
  <2>3. FlowOf(m, 0, << >>, << >> \o m)
    BY <2>2, FlowStarts
  <2>4. Flow(0)'
    BY <1>1, <1>2, <2>1, <2>3 DEF Flow
  <2>5. Asked'
    BY <1>2, <1>5, <2>4 DEF Asked
  <2>6. QED BY <1>2, <1>4, <2>5 DEF InTouch, Live
<1>6. CASE ~(dev = "command" /\ toHost = << >>)
  <2>1. restarts \in Nat /\ restarts # 0 /\ dev \in {"setup", "command"} /\ AllReady(1)
    BY <1>3, <1>6, ProgrammerAssumption DEF AtPrompt, Idling, Types, TypeOK
  <2>2. CASE want' > 0
    <3>1. Len(got') = 0
      BY <1>2
    <3>2. Doomed'
      BY <1>2, <2>1, <2>2, <3>1 DEF Doomed
    <3>3. QED BY <1>2, <1>4, <3>2 DEF InTouch
  <2>3. CASE want' = 0
    <3>1. toHost # << >> => toHost[1] = READY
      <4>1. toHost # << >> => Len(toHost) \in Nat /\ Len(toHost) > 0
        BY Taken DEF Types, TypeOK
      <4>2. QED BY <2>1, <4>1 DEF AllReady
    <3>2. Doomed'
      BY <1>2, <1>6, <2>1, <2>3, <3>1 DEF Doomed
    <3>3. QED BY <1>2, <1>4, <3>2 DEF InTouch
  <2>4. QED BY <1>1, <2>2, <2>3
<1>7. QED BY <1>5, <1>6

LEMMA DataStep ==
  ASSUME Types, Types', InTouch, TakeData, ~astray'
  PROVE  InTouch'
<1>1. /\ host = "await" /\ Len(got) < want /\ toHost # << >>
      /\ got' = Append(got, Head(toHost)) /\ toHost' = Tail(toHost)
      /\ UNCHANGED <<host, job, want, toDevice, rx, devVars>>
      /\ ~(restarts > 0)
  BY DEF TakeData
<1>2. Calling /\ Live
  BY <1>1 DEF InTouch, Finished, Doomed
<1>3. /\ Len(toHost) \in Nat /\ Len(toHost) > 0 /\ Len(toHost') = Len(toHost) - 1
      /\ Head(toHost) \in Bytes
      /\ \A k \in 1 .. Len(toHost) - 1 : toHost'[k] = toHost[k + 1]
  BY <1>1, Taken DEF Types, TypeOK
<1>4. Len(got) \in Nat /\ Len(got') = Len(got) + 1
  BY <1>1, <1>3, Added DEF Types, TypeOK
<1>5. Len(got') + Len(toHost') = Len(got) + Len(toHost)
  BY <1>3, <1>4
<1>6. Reading \/ Ending \/ Answered
  BY <1>1, <1>2 DEF Live, Asked, Parsing, Filling, Writing
<1>7. Calling' /\ (Silent => Silent') /\ (Stored => Stored')
  BY <1>1, <1>2 DEF Calling, Silent, Stored, Written, devVars
<1>8. CASE Reading
  <2>1. Len(got') + Len(toHost') + len' = want' % WORD
    BY <1>1, <1>5, <1>8 DEF Reading, devVars
  <2>2. addr' = (Base(job') + Len(got') + Len(toHost')) % WORD
    <3> DEFINE b == Base(job)
    <3>1. b \in Nat /\ b + Len(got') + Len(toHost') = b + Len(got) + Len(toHost)
      BY <1>2, <1>3, <1>4, MessageKnown
    <3>2. addr = (b + Len(got) + Len(toHost)) % WORD /\ addr' = addr /\ Base(job') = b
      BY <1>1, <1>8 DEF Reading, devVars
    <3> HIDE DEF b
    <3>3. QED BY <3>1, <3>2
  <2>3. Reading'
    BY <1>1, <1>7, <1>8, <2>1, <2>2 DEF Reading, devVars
  <2>4. QED BY <1>1, <1>7, <2>3 DEF InTouch, Live
<1>9. CASE Ending
  <2>1. Ending'
    BY <1>1, <1>5, <1>7, <1>9 DEF Ending, devVars
  <2>2. QED BY <1>1, <1>7, <2>1 DEF InTouch, Live
<1>10. CASE Answered
  <2>1. ASSUME toHost' # << >> PROVE toHost'[Len(toHost')] = EOC
    <3>1. Len(toHost') > 0
      BY <2>1, EmptyIs DEF Types, TypeOK
    <3>2. toHost'[Len(toHost) - 1] = toHost[(Len(toHost) - 1) + 1]
      BY <1>3, <3>1
    <3>3. (Len(toHost) - 1) + 1 = Len(toHost)
      BY <1>3
    <3>4. QED BY <1>1, <1>3, <1>10, <3>2, <3>3 DEF Answered
  <2>2. Answered'
    BY <1>1, <1>5, <1>7, <1>10, <2>1 DEF Answered, devVars
  <2>3. QED BY <1>1, <1>7, <2>2 DEF InTouch, Live
<1>11. QED BY <1>6, <1>8, <1>9, <1>10

(* An end of command is only taken for what was stored.                    *)
LEMMA EocIsMeant ==
  ASSUME Types, InTouch, TakeEoc, Head(toHost) = EOC
  PROVE  (Answered \/ Finished) /\ Calling /\ Stored
<1>1. host = "await" /\ Len(got) = want /\ toHost # << >>
  BY DEF TakeEoc
<1>2. Calling /\ (Live \/ Finished \/ Doomed)
  BY <1>1 DEF InTouch
<1>3. toHost[1] = EOC /\ EOC # READY /\ Len(toHost) \in Nat /\ Len(toHost) > 0
  BY <1>1, Taken, Sizes DEF Types, TypeOK
<1>4. want \in Nat
  BY DEF Types, TypeOK
<1>5. ~Doomed
  BY <1>1, <1>3, <1>4 DEF Doomed, AllReady
<1>6. Answered \/ Finished
  BY <1>1, <1>2, <1>5, LiveAnswer
<1>7. QED BY <1>2, <1>6 DEF Answered, Finished

LEMMA EocStep ==
  ASSUME Types, Types', InTouch, TakeEoc
  PROVE  InTouch'
<1>1. /\ host = "await" /\ Len(got) = want /\ toHost # << >> /\ toHost' = Tail(toHost)
      /\ host' \in {"prompt", "send", "exited"}
      /\ UNCHANGED <<toDevice, rx, dev, restarts>>
  BY DEF TakeEoc, Raise, devVars
<1>2. Calling /\ (Live \/ Finished \/ Doomed)
  BY <1>1 DEF InTouch
<1>3. ASSUME AtPrompt' PROVE InTouch'
  BY <1>1, <1>3 DEF InTouch
<1>4. CASE Live
  <2>1. Answered /\ Len(toHost) = 1
    BY <1>1, <1>2, <1>4, LiveAnswer
  <2>2. Len(toHost') = 0
    BY <1>1, <2>1, Taken DEF Types, TypeOK
  <2>3. toHost' = << >> /\ AllReady(1)'
    BY <2>2, EmptyIs DEF Types, TypeOK, AllReady
  <2>4. AtPrompt'
    BY <1>1, <2>1, <2>3 DEF AtPrompt, Answered, Idling, Silent
  <2>5. QED BY <1>3, <2>4
<1>5. CASE Finished
  <2>1. AllReady(1)'
    BY <1>1, <1>5, ReadyTaken DEF Finished
  <2>2. AtPrompt'
    BY <1>1, <1>5, <2>1 DEF AtPrompt, Finished, Idling, Silent
  <2>3. QED BY <1>3, <2>2
<1>6. CASE Doomed
  <2>1. want \in Nat /\ restarts \in Nat /\ restarts # 0
    BY <1>6, ProgrammerAssumption DEF Doomed, Types, TypeOK
  <2>2. CASE want = 0
    <3>1. toHost[1] = READY
      BY <1>1, <1>6, <2>2 DEF Doomed
    <3>2. Head(toHost) # EOC
      BY <1>1, <3>1, Taken, Sizes DEF Types, TypeOK
    <3>3. job.op # "verify"
      BY <1>2, <2>2 DEF Calling
    <3>4. host' = "exited"
      BY <3>2, <3>3 DEF TakeEoc, Raise
    <3>5. QED BY <1>1, <2>1, <3>4 DEF InTouch
  <2>3. CASE want > 0
    <3>1. Idling /\ AllReady(1)
      BY <1>1, <1>6, <2>3 DEF Doomed
    <3>2. AllReady(1)'
      BY <1>1, <3>1, ReadyTaken
    <3>3. AtPrompt'
      BY <1>1, <2>1, <3>1, <3>2 DEF AtPrompt, Idling, Silent
    <3>4. QED BY <1>3, <3>3
  <2>4. QED BY <2>1, <2>2, <2>3
<1>7. QED BY <1>2, <1>4, <1>5, <1>6
-----------------------------------------------------------------------------
(* The invariant, and what it says of the properties.                      *)
LEMMA InTouchStep ==
  ASSUME Types, Types', Firmware, InTouch, [Next]_vars, ~astray'
  PROVE  InTouch'
<1>1. CASE Requests
  BY <1>1, RequestStep
<1>2. CASE AwaitReady
  BY <1>2, StartupStep
<1>3. CASE LastPart \/ Quit \/ \E c \in Commands : Command(c)
  BY <1>3, PromptStep
<1>4. CASE TakeData
  BY <1>4, DataStep
<1>5. CASE TakeEoc
  BY <1>5, EocStep
<1>6. CASE Arrive
  BY <1>6, LinkStep
<1>7. CASE Board
  BY <1>7, BoardStep
<1>8. CASE Restart
  BY <1>8, RestartStep
<1>9. CASE UNCHANGED vars
  <2>1. UNCHANGED <<rx, toDevice, toHost, host, job, want, got, rom, restarts,
                    dev, cmd, args, addr, len, write_buffer, i>>
    BY <1>9 DEF vars, hostVars, devVars
  <2>2. Silent' = Silent /\ Stored' = Stored /\ Calling' = Calling
    BY <2>1 DEF Silent, Stored, Written, Calling
  <2>3. Asked' = Asked /\ Parsing' = Parsing /\ Filling' = Filling
    BY <2>1 DEF Asked, Parsing, Filling, Flow
  <2>4. Reading' = Reading /\ Writing' = Writing /\ Ending' = Ending /\ Answered' = Answered
    BY <2>1, <2>2 DEF Reading, Writing, Ending, Answered, Written
  <2>5. Idling' = Idling /\ AllReady(1)' = AllReady(1) /\ AllReady(2)' = AllReady(2)
    BY <2>1, <2>2 DEF Idling, AllReady
  <2>6. Live' = Live /\ Finished' = Finished /\ Doomed' = Doomed
    BY <2>1, <2>2, <2>3, <2>4, <2>5 DEF Live, Finished, Doomed
  <2>7. Starting' = Starting /\ AtPrompt' = AtPrompt
    BY <2>1, <2>5 DEF Starting, AtPrompt
  <2>8. QED BY <2>1, <2>2, <2>6, <2>7 DEF InTouch
<1>10. QED BY <1>1, <1>2, <1>3, <1>4, <1>5, <1>6, <1>7, <1>8, <1>9
       DEF Next, Host, User, Requests

LEMMA AstrayStep ==
  ASSUME Types, [Next]_vars, astray => restarts > 0
  PROVE  (astray => restarts > 0)' /\ (~astray' => ~astray)
<1>1. restarts \in Nat
  BY ProgrammerAssumption DEF Types, TypeOK
<1>2. CASE TakeData
  BY <1>2 DEF TakeData, devVars
<1>3. CASE Restart
  BY <1>1, <1>3 DEF Restart, hostVars
<1>4. CASE (Next /\ ~TakeData /\ ~Restart) \/ UNCHANGED vars
  <2>1. UNCHANGED <<astray, restarts>>
    <3>1. CASE UNCHANGED vars
      BY <3>1 DEF vars, hostVars, devVars
    <3>2. CASE Host /\ ~TakeData
      BY <3>2 DEF Host, AwaitReady, Ping, Read, WriteChunk, VerifyChunk, ClearBlock,
                  CheckBlock, Request, LastPart, TakeEoc, devVars
    <3>3. CASE User
      BY <3>3 DEF User, Quit, Command, devVars
    <3>4. CASE Arrive \/ Board
      BY <3>4 DEF Arrive, Board, Setup, ReadCommand, ReadArgs, ReadLoop, FillBuffer,
                  WriteLoop, EndOfCommand, hostVars, devVars
    <3>5. QED BY <1>4, <3>1, <3>2, <3>3, <3>4 DEF Next
  <2>2. QED BY <2>1
<1>5. QED BY <1>2, <1>3, <1>4

LEMMA InvariantStep == IInv /\ [Next]_vars => IInv'
<1> SUFFICES ASSUME IInv, [Next]_vars PROVE IInv'
  OBVIOUS
<1>1. Types' /\ Firmware'
  BY TypesStep, FirmwareStep DEF IInv
<1>2. (astray => restarts > 0)' /\ (~astray' => ~astray)
  BY AstrayStep DEF IInv
<1>3. ~astray' => InTouch'
  BY <1>1, <1>2, InTouchStep DEF IInv
<1>4. QED BY <1>1, <1>2, <1>3 DEF IInv

LEMMA InvariantAtStart == Init => IInv
<1> SUFFICES ASSUME Init PROVE IInv
  OBVIOUS
<1>1. Types /\ Firmware
  BY TypesAtStart
<1>2. /\ host = "startup" /\ dev = "setup" /\ toHost = << >> /\ rx = << >>
      /\ toDevice = << >> /\ astray = FALSE
  BY DEF Init
<1>3. AllReady(1)
  BY <1>2 DEF AllReady
<1>4. Starting
  BY <1>2, <1>3 DEF Starting, Idling, Silent
<1>5. QED BY <1>1, <1>2, <1>4 DEF IInv, InTouch

LEMMA Invariant == Spec => []IInv
<1>1. QED BY InvariantAtStart, InvariantStep, PTL DEF Spec

LEMMA BufferSuffices ==
  ASSUME Types, Firmware, Calling, Live
  PROVE  Len(write_buffer) <= BufferSize
<1> DEFINE m == Message(job, want)
<1>1. /\ m \in Seq(Bytes) /\ Len(m) \in Nat
      /\ job.op # "ping" => Laid(m, Opcode(job), Base(job), Count(job, want), Payload(job))
      /\ Len(Payload(job)) \in Nat /\ Len(Payload(job)) <= BufferSize
  BY MessageKnown
<1>2. BufferSize \in Nat /\ Len(write_buffer) \in Nat
  BY LenProperties, ProgrammerAssumption DEF Types, TypeOK
<1>3. CASE write_buffer = << >>
  BY <1>2, <1>3
<1>4. CASE Filling
  <2>1. job.op \in Writes /\ FlowOf(m, 7 + Len(write_buffer), rx, toDevice)
    BY <1>4 DEF Filling, Flow
  <2>2. Len(m) = 7 + Len(Payload(job))
    BY <1>1, <2>1 DEF Laid, Writes
  <2>3. rx \in Seq(Bytes) /\ toDevice \in Seq(Bytes) /\ 7 + Len(write_buffer) \in Nat
    BY <1>2 DEF Types, TypeOK
  <2> HIDE DEF m
  <2>4. /\ Len(rx) \in Nat /\ Len(toDevice) \in Nat
        /\ (7 + Len(write_buffer)) + Len(rx) + Len(toDevice) = Len(m)
    BY <1>1, <2>1, <2>3, FlowLength
  <2>5. QED BY <1>1, <1>2, <2>2, <2>4
<1>5. CASE Writing
  <2>1. Len(write_buffer) = Len(Payload(job))
    BY <1>5 DEF Writing, Firmware
  <2>2. QED BY <1>1, <1>2, <2>1
<1>6. CASE Ending
  BY <1>6 DEF Ending
<1>7. Asked \/ Parsing \/ Reading \/ Answered => write_buffer = << >>
  BY DEF Firmware, Asked, Parsing, Reading, Answered
<1>8. QED BY <1>3, <1>4, <1>5, <1>6, <1>7 DEF Live

(* What the host sends always fits: no byte is dropped by the full buffer  *)
(* of the board's serial library, and none is written beyond write_buffer, *)
(* as long as the board does not restart.                                  *)
THEOREM NothingIsLost == Spec => []NothingLost
<1>1. IInv => NothingLost
  <2> SUFFICES ASSUME IInv, restarts = 0
               PROVE  /\ toDevice # << >> => Len(rx) < RxSize
                      /\ Len(write_buffer) <= BufferSize
    BY DEF NothingLost, Undisturbed
  <2>1. Types /\ Firmware /\ InTouch
    BY DEF IInv
  <2>2. CASE host = "await"
    <3>1. Calling /\ Live
      BY <2>1, <2>2 DEF InTouch, Finished, Doomed
    <3>2. QED BY <2>1, <3>1, LiveRoom, BufferSuffices
  <2>3. CASE host # "await"
    <3>1. Idling
      BY <2>1, <2>3 DEF InTouch, Starting, AtPrompt, Types, TypeOK
    <3>2. toDevice = << >> /\ write_buffer = << >>
      BY <2>1, <3>1 DEF Idling, Silent, Firmware
    <3>3. QED BY <3>2, ProgrammerAssumption
  <2>4. QED BY <2>2, <2>3
<1>2. QED BY <1>1, Invariant, PTL

(* At the prompt nothing of the last command is left on the link or in the *)
(* board, which waits for a command, as long as it does not restart.       *)
THEOREM StaysInStep == Spec => []InStep
<1>1. IInv => InStep
  <2> SUFFICES ASSUME IInv, host = "prompt", restarts = 0
               PROVE  toDevice = << >> /\ toHost = << >> /\ rx = << >> /\ dev = "command"
    BY DEF InStep, Undisturbed
  <2>1. AtPrompt
    BY DEF IInv, InTouch
  <2>2. QED BY <2>1 DEF AtPrompt, Idling, Silent
<1>2. QED BY <1>1, Invariant, PTL

LEMMA PlaceOfJob == ASSUME job \in Jobs PROVE job.addr + job.done \in Nat
BY DEF Jobs

(* A chunk reported as written is in the EEPROM, whenever and however      *)
(* often the board restarted, unless data was taken after a restart.       *)
THEOREM OkMeansWritten == Spec => OkIsWritten
<1> DEFINE Reported ==
      TakeEoc /\ job.op = "write" /\ host' = "send" /\ ~astray =>
        \A k \in 1 .. Len(Part(job, chunk_size)) :
          rom[Cell(k)] = Part(job, chunk_size)[k]
<1>1. IInv => Reported
  <2> SUFFICES ASSUME IInv, TakeEoc, job.op = "write", host' = "send", ~astray,
                      NEW k \in 1 .. Len(Part(job, chunk_size))
               PROVE  rom[Cell(k)] = Part(job, chunk_size)[k]
    OBVIOUS
  <2>1. Types /\ InTouch
    BY DEF IInv
  <2>2. Head(toHost) = EOC
    BY DEF TakeEoc, Raise
  <2>3. Stored
    BY <2>1, <2>2, EocIsMeant
  <2>4. Payload(job) = Part(job, chunk_size) /\ Base(job) = job.addr + job.done
    BY DEF Payload, Base
  <2>5. rom[(Base(job) + k - 1) % HALF] = Part(job, chunk_size)[k]
    BY <2>3, <2>4 DEF Stored, Written, Writes
  <2>6. Cell(k) = (Base(job) + k - 1) % HALF
    <3> DEFINE n == job.addr + job.done + k - 1
    <3>1. job.addr + job.done \in Nat
      BY <2>1, PlaceOfJob DEF Types
    <3>2. k \in Nat /\ k >= 1
      OBVIOUS
    <3>3. n \in Nat
      BY <3>1, <3>2
    <3> HIDE DEF n
    <3>4. ((n % WORD) + 0) % HALF = (n + 0) % HALF
      BY <3>3, CellOfAddress
    <3>5. (n % WORD) + 0 = n % WORD /\ n + 0 = n
      BY <3>3, DivMod, Sizes
    <3>6. (n % WORD) % HALF = n % HALF
      BY <3>4, <3>5
    <3>7. QED BY <2>4, <3>6 DEF n, Cell
  <2>7. QED BY <2>5, <2>6
<1>2. IInv /\ [Next]_vars => [Reported]_vars
  BY <1>1
<1>3. [][IInv /\ [Next]_vars]_vars => [][Reported]_vars
  BY <1>2, PTL
<1>4. QED BY <1>3, Invariant, PTL DEF Spec, OkIsWritten
-----------------------------------------------------------------------------
(* What the host reports of a verify and of a clear. Byte k of what the    *)
(* board has said since it was asked is from the cell it was asked for.    *)
Heard(k) == IF k <= Len(got) THEN got[k] ELSE toHost[k - Len(got)]
CellHolds(a, byte) == a % WORD < HALF => rom[a % WORD] = byte
Faithful ==
  \A k \in 1 .. want % WORD :
    k <= Len(got) + Len(toHost) => CellHolds(Base(job) + k - 1, Heard(k))

(* The first n bytes of the data are in their cells; the cells below n     *)
(* have been cleared.                                                      *)
Agrees(n) == \A k \in 1 .. n : CellHolds(job.addr + k - 1, job.data[k])
Blank(n) == \A a \in 0 .. HALF - 1 : a < n => rom[a] = EOC

Listening ==
  host = "await" =>
    /\ job.op \in Reads => Faithful
    /\ job.op = "verify" => want = Len(Part(job, verify_size))
Progress ==
  /\ job.op = "verify" => job.done <= Len(job.data) /\ Agrees(job.done)
  /\ job.op = "clear" => Blank(job.addr)
  /\ job.op = "check" => Blank(HALF)

(* The inductive invariant, beside IInv: while the board is not disturbed, *)
(* what was heard is so, what was verified is written, what was cleared is *)
(* blank.                                                                  *)
Reports == restarts = 0 => Listening /\ Progress

LEMMA PartHas ==
  ASSUME NEW j \in Jobs, NEW size \in Nat, size > 0, j.done <= Len(j.data)
  PROVE  /\ Len(Part(j, size)) \in Nat /\ Len(Part(j, size)) <= size
         /\ j.done + Len(Part(j, size)) <= Len(j.data)
         /\ \A k \in 1 .. Len(Part(j, size)) : Part(j, size)[k] = j.data[j.done + k]
<1> DEFINE last == IF j.done + size < Len(j.data) THEN j.done + size ELSE Len(j.data)
           p == Part(j, size)
<1>1. j.data \in Seq(Bytes) /\ Len(j.data) \in Nat /\ j.done \in Nat
  BY LenProperties DEF Jobs
<1>2. last \in Nat /\ last <= Len(j.data) /\ j.done <= last
  BY <1>1
<1>3. p = SubSeq(j.data, j.done + 1, last)
  BY DEF Part
<1> HIDE DEF last, p
<1>4. \A k \in j.done + 1 .. last : j.data[k] \in Bytes
  BY <1>1, <1>2, ElementOfSeq
<1>5. /\ Len(p) = IF j.done + 1 <= last THEN last - (j.done + 1) + 1 ELSE 0
      /\ \A k \in 1 .. last - (j.done + 1) + 1 : p[k] = j.data[j.done + 1 + k - 1]
  BY <1>1, <1>2, <1>3, <1>4, SubSeqProperties
<1>6. Len(p) = last - j.done
  BY <1>1, <1>2, <1>5
<1>7. ASSUME NEW k \in 1 .. Len(p) PROVE p[k] = j.data[j.done + k]
  <2>1. j.done + 1 + k - 1 = j.done + k /\ k \in 1 .. last - (j.done + 1) + 1
    BY <1>1, <1>2, <1>6
  <2>2. QED BY <1>5, <2>1
<1>8. Len(p) <= size
  BY PartIs DEF p
<1>9. QED BY <1>1, <1>2, <1>6, <1>7, <1>8 DEF p

LEMMA Together ==
  ASSUME IInv, restarts = 0
  PROVE  /\ Types /\ Firmware /\ InTouch /\ ~astray
         /\ host = "await" => Calling /\ Live
         /\ host # "await" => dev \in {"setup", "command"}
         /\ host \in {"prompt", "send"} => toHost = << >>
<1>1. Types /\ Firmware /\ InTouch /\ ~astray
  BY DEF IInv
<1>2. host = "await" => Calling /\ Live
  BY <1>1 DEF InTouch, Finished, Doomed
<1>3. ASSUME host # "await" PROVE dev \in {"setup", "command"}
  BY <1>1, <1>3 DEF InTouch, Starting, AtPrompt, Idling, Types, TypeOK
<1>4. host \in {"prompt", "send"} => toHost = << >>
  BY <1>1 DEF InTouch, AtPrompt
<1>5. QED BY <1>1, <1>2, <1>3, <1>4

(* Only the job of a command that writes changes the EEPROM.               *)
LEMMA WhoWrites ==
  ASSUME IInv, restarts = 0, Board
  PROVE  \/ rom' = rom
         \/ host = "await" /\ Calling /\ Writing /\ WriteLoop
<1>1. CASE Setup \/ ReadCommand \/ ReadArgs \/ ReadLoop \/ FillBuffer \/ EndOfCommand
  BY <1>1 DEF Setup, ReadCommand, ReadArgs, ReadLoop, FillBuffer, EndOfCommand
<1>2. CASE WriteLoop
  <2>1. dev = "write"
    BY <1>2 DEF WriteLoop
  <2>2. host = "await" /\ Calling /\ Live
    BY <2>1, Together
  <2>3. Writing
    BY <2>1, <2>2 DEF Live, Asked, Parsing, Reading, Filling, Writing, Ending, Answered
  <2>4. QED BY <1>2, <2>2, <2>3
<1>3. QED BY <1>1, <1>2 DEF Board

LEMMA ProgressKept ==
  ASSUME Progress, UNCHANGED <<job, rom>>
  PROVE  Progress'
BY DEF Progress, Agrees, Blank, CellHolds

LEMMA ReportsRequest ==
  ASSUME IInv, Reports, restarts' = 0, Requests
  PROVE  Reports'
<1>1. job \in Jobs
  BY DEF IInv, Types
<1>2. job' = job /\ Request(Message(job, want'), want')
  BY <1>1, RequestIs
<1>3. /\ host = "send" /\ got' = << >> /\ UNCHANGED <<toHost, rom, restarts>>
  BY <1>1, <1>2, RequestIs DEF Request, devVars
<1>4. toHost' = << >>
  BY <1>3, Together
<1>5. Faithful'
  <2>1. Len(got') = 0 /\ Len(toHost') = 0
    BY <1>3, <1>4
  <2>2. want' % WORD \in Int
    BY <1>1, RequestIs, Sizes
  <2>3. QED BY <2>1, <2>2 DEF Faithful
<1>6. job.op = "verify" => want' = Len(Part(job', verify_size))
  BY <1>2 DEF Requests, Ping, Read, WriteChunk, VerifyChunk, ClearBlock, CheckBlock, Request
<1>7. Progress'
  BY <1>2, <1>3, ProgressKept DEF Reports
<1>8. QED BY <1>2, <1>5, <1>6, <1>7 DEF Reports, Listening

LEMMA ReportsLast ==
  ASSUME IInv, Reports, restarts' = 0, LastPart
  PROVE  Reports'
<1>1. /\ host' \in {"prompt", "send"} /\ UNCHANGED <<rom, restarts>>
      /\ job.op \in {"clear", "check"} => job.addr >= WORD - 1
  BY DEF LastPart, devVars
<1>2. job \in Jobs /\ Progress
  BY <1>1 DEF IInv, Types, Reports
<1>3. CASE job.op = "write" /\ job.verify
  <2>1. job' = [job EXCEPT !.op = "verify", !.done = 0, !.addr = job.addr]
    BY <1>3 DEF LastPart
  <2>2. job'.op = "verify" /\ job'.done = 0 /\ job'.data = job.data
    BY <1>2, <2>1 DEF Jobs
  <2>3. Len(job.data) \in Nat
    BY <1>2, LenProperties DEF Jobs
  <2>4. Progress'
    BY <2>2, <2>3 DEF Progress, Agrees
  <2>5. QED BY <1>1, <2>4 DEF Reports, Listening
<1>4. CASE job.op = "clear"
  <2>1. job' = [job EXCEPT !.op = "check", !.done = 0, !.addr = 0]
    BY <1>4 DEF LastPart
  <2>2. job'.op = "check"
    BY <1>2, <2>1 DEF Jobs
  <2>3. Blank(job.addr) /\ job.addr >= WORD - 1 /\ job.addr \in Nat
    BY <1>1, <1>2, <1>4 DEF Progress, Jobs
  <2>4. \A a \in 0 .. HALF - 1 : a < job.addr
    BY <2>3, Sizes
  <2>5. Blank(HALF)'
    BY <1>1, <2>3, <2>4 DEF Blank
  <2>6. Progress'
    BY <2>2, <2>5 DEF Progress
  <2>7. QED BY <1>1, <2>6 DEF Reports, Listening
<1>5. CASE ~(job.op = "write" /\ job.verify) /\ job.op # "clear"
  <2>1. job' = Idle
    BY <1>5 DEF LastPart
  <2>2. QED BY <1>1, <2>1 DEF Reports, Listening, Progress, Idle
<1>6. QED BY <1>3, <1>4, <1>5

LEMMA ReportsCommand ==
  ASSUME IInv, Reports, restarts' = 0, NEW c \in Commands, Command(c)
  PROVE  Reports'
<1>1. host' = "send" /\ UNCHANGED rom
  BY DEF Command, devVars
<1>2. /\ c.op \in {"ping", "read", "byte", "file", "image", "clear"}
      /\ c.op = "clear" => c.addr = 0
  BY ProgrammerAssumption
<1>3. CASE c.op \in {"byte", "file", "image"}
  <2>1. job'.op = "write"
    BY <1>3 DEF Command, Job
  <2>2. QED BY <1>1, <2>1 DEF Reports, Listening, Progress
<1>4. CASE c.op \in {"ping", "read"}
  <2>1. job'.op \in {"ping", "read"}
    BY <1>4 DEF Command, Job
  <2>2. QED BY <1>1, <2>1 DEF Reports, Listening, Progress
<1>5. CASE c.op = "clear"
  <2>1. job'.op = "clear" /\ job'.addr = 0
    BY <1>2, <1>5 DEF Command, Job
  <2>2. Blank(0)'
    BY Sizes DEF Blank
  <2>3. QED BY <1>1, <2>1, <2>2 DEF Reports, Listening, Progress
<1>6. QED BY <1>2, <1>3, <1>4, <1>5

(* A byte taken from the link is heard as before.                          *)
LEMMA ReportsData ==
  ASSUME IInv, Reports, restarts' = 0, TakeData
  PROVE  Reports'
<1>1. /\ host = "await" /\ toHost # << >> /\ got' = Append(got, Head(toHost))
      /\ toHost' = Tail(toHost) /\ UNCHANGED <<host, job, want, rom, restarts>>
  BY DEF TakeData, devVars
<1>2. toHost \in Seq(Bytes) /\ got \in Seq(Bytes) /\ want \in Nat
  BY DEF IInv, Types, TypeOK
<1>3. Listening /\ Progress
  BY <1>1 DEF Reports
<1>4. /\ Len(toHost) \in Nat /\ Len(toHost) > 0 /\ Len(toHost') = Len(toHost) - 1
      /\ Head(toHost) \in Bytes /\ Head(toHost) = toHost[1]
      /\ \A k \in 1 .. Len(toHost) - 1 : toHost'[k] = toHost[k + 1]
  BY <1>1, <1>2, Taken
<1>5. /\ Len(got) \in Nat /\ Len(got') = Len(got) + 1 /\ got'[Len(got) + 1] = toHost[1]
      /\ \A k \in 1 .. Len(got) : got'[k] = got[k]
  BY <1>1, <1>2, <1>4, Added
<1>6. ASSUME NEW k \in Nat, k > 0, k <= Len(got) + Len(toHost)
      PROVE  Heard(k)' = Heard(k)
  <2>1. CASE k <= Len(got)
    <3>1. k \in 1 .. Len(got) /\ k <= Len(got')
      BY <1>5, <1>6, <2>1
    <3>2. QED BY <1>5, <2>1, <3>1 DEF Heard
  <2>2. CASE k = Len(got) + 1
    <3>1. ~(k <= Len(got)) /\ k - Len(got) = 1 /\ k <= Len(got')
      BY <1>5, <2>2
    <3>2. QED BY <1>5, <2>2, <3>1 DEF Heard
  <2>3. CASE k > Len(got) + 1
    <3> DEFINE g == Len(got)
               l == k - (g + 1)
    <3>1. /\ l \in 1 .. Len(toHost) - 1 /\ l + 1 = k - g /\ ~(k <= g) /\ ~(k <= g + 1)
      BY <1>4, <1>5, <1>6, <2>3
    <3>2. Heard(k) = toHost[l + 1]
      BY <3>1 DEF Heard
    <3>3. Heard(k)' = toHost'[l]
      BY <1>5, <3>1 DEF Heard
    <3>4. QED BY <1>4, <3>1, <3>2, <3>3
  <2>4. QED BY <1>5, <1>6, <2>1, <2>2, <2>3
<1>7. Len(got') + Len(toHost') = Len(got) + Len(toHost)
  BY <1>4, <1>5
<1>8. Faithful => Faithful'
  <2> SUFFICES ASSUME Faithful, NEW k \in 1 .. want' % WORD,
                      k <= Len(got') + Len(toHost')
               PROVE  CellHolds(Base(job) + k - 1, Heard(k))'
    BY DEF Faithful
  <2>1. want % WORD \in Int
    BY <1>2, Sizes
  <2>2. k \in 1 .. want % WORD /\ k \in Nat /\ k > 0 /\ k <= Len(got) + Len(toHost)
    BY <1>1, <1>7, <2>1
  <2>3. CellHolds(Base(job) + k - 1, Heard(k)) /\ Heard(k)' = Heard(k)
    BY <1>6, <2>2 DEF Faithful
  <2>4. QED BY <1>1, <2>3 DEF CellHolds
<1>9. Listening'
  BY <1>1, <1>3, <1>8 DEF Listening
<1>10. Progress'
  BY <1>1, <1>3, ProgressKept
<1>11. QED BY <1>9, <1>10 DEF Reports

(* A part is verified, or a block is cleared.                              *)
LEMMA VerifyGoesOn ==
  ASSUME IInv, Reports, restarts = 0, TakeEoc, job.op = "verify",
         got = Part(job, verify_size), job' = [job EXCEPT !.done = @ + want]
  PROVE  Progress'
<1>1. host = "await" /\ Len(got) = want /\ UNCHANGED rom
  BY DEF TakeEoc, devVars
<1>2. /\ job \in Jobs /\ job.addr \in Nat /\ job.done \in Nat
      /\ Len(job.data) \in Nat
  BY LenProperties DEF IInv, Types, Jobs
<1>3. job.done <= Len(job.data) /\ Agrees(job.done) /\ Faithful
  BY <1>1 DEF Reports, Listening, Progress, Reads
<1>4. verify_size \in Nat /\ verify_size > 0 /\ verify_size <= HALF
  BY ProgrammerAssumption, Sizes
<1>5. /\ want \in Nat /\ want <= verify_size /\ job.done + want <= Len(job.data)
      /\ \A k \in 1 .. want : got[k] = job.data[job.done + k]
  BY <1>1, <1>2, <1>3, <1>4, PartHas
<1>6. want % WORD = want
  <2>1. want < WORD
    BY <1>4, <1>5, Sizes
  <2>2. WORD \in Nat /\ WORD > 0 /\ want \in Nat /\ want = WORD * 0 + want
    BY <1>5, Sizes
  <2>3. QED BY <2>1, <2>2, ModUnique
<1>7. Base(job) = job.addr + job.done
  BY DEF Base
<1>8. ASSUME NEW k \in 1 .. job.done + want
      PROVE  CellHolds(job.addr + k - 1, job.data[k])
  <2>1. CASE k <= job.done
    <3>1. k \in 1 .. job.done
      BY <1>2, <1>5, <2>1
    <3>2. QED BY <1>3, <3>1 DEF Agrees
  <2>2. CASE k > job.done
    <3> DEFINE l == k - job.done
    <3>1. l \in 1 .. want /\ l \in Nat /\ l <= Len(got) /\ job.done + l = k
      BY <1>1, <1>2, <1>5, <2>2
    <3> HIDE DEF l
    <3>2. Base(job) + l - 1 = job.addr + k - 1
      <4> DEFINE p == job.addr
                 q == job.done
      <4>1. p \in Nat /\ q \in Nat /\ l \in Nat /\ q + l = k /\ Base(job) = p + q
        BY <1>2, <1>7, <3>1
      <4> HIDE DEF p, q
      <4>2. Base(job) + l - 1 = p + k - 1
        BY <4>1
      <4>3. QED BY <4>2 DEF p
    <3>3. l <= Len(got) + Len(toHost)
      <4>1. Len(toHost) \in Nat
        BY LenProperties DEF IInv, Types, TypeOK
      <4>2. QED BY <1>1, <1>5, <3>1, <4>1
    <3>4. CellHolds(Base(job) + l - 1, Heard(l)) /\ Heard(l) = got[l]
      BY <1>3, <1>6, <3>1, <3>3 DEF Faithful, Heard
    <3>5. got[l] = job.data[k]
      BY <1>5, <3>1
    <3>6. QED BY <3>2, <3>4, <3>5
  <2>3. QED BY <1>2, <1>5, <2>1, <2>2
<1>9. /\ job'.op = "verify" /\ job'.addr = job.addr /\ job'.data = job.data
      /\ job'.done = job.done + want
  BY <1>2 DEF Jobs
<1>10. Agrees(job.done)'
  BY <1>1, <1>2, <1>5, <1>8, <1>9 DEF Agrees, CellHolds
<1>11. QED BY <1>5, <1>9, <1>10 DEF Progress

LEMMA ClearGoesOn ==
  ASSUME IInv, Reports, restarts = 0, TakeEoc, job.op = "clear", Stored,
         job' = [job EXCEPT !.addr = @ + CLEAR_BLOCK]
  PROVE  Progress'
<1>1. UNCHANGED rom /\ Blank(job.addr)
  BY DEF TakeEoc, devVars, Reports, Progress
<1>2. job \in Jobs /\ job.addr \in Nat
  BY DEF IInv, Types, Jobs
<1>3. CLEAR_BLOCK \in Nat /\ HALF \in Nat /\ HALF > 0
  BY ProgrammerAssumption, Sizes
<1>4. Payload(job) = Block /\ Base(job) = job.addr
  BY DEF Payload, Base
<1>5. Len(Block) = CLEAR_BLOCK /\ \A k \in 1 .. CLEAR_BLOCK : Block[k] = EOC
  BY <1>3 DEF Block
<1>6. \A k \in 1 .. CLEAR_BLOCK : rom[(job.addr + k - 1) % HALF] = EOC
  BY <1>4, <1>5 DEF Stored, Writes, Written
<1>7. ASSUME NEW a \in 0 .. HALF - 1, a < job.addr + CLEAR_BLOCK PROVE rom[a] = EOC
  <2>1. CASE a < job.addr
    BY <1>1, <2>1 DEF Blank
  <2>2. CASE ~(a < job.addr)
    <3> DEFINE k == a - job.addr + 1
    <3>1. k \in 1 .. CLEAR_BLOCK /\ job.addr + k - 1 = a
      BY <1>2, <1>3, <1>7, <2>2
    <3> HIDE DEF k
    <3>2. a % HALF = a
      BY <1>3
    <3>3. QED BY <1>6, <3>1, <3>2
  <2>3. QED BY <2>1, <2>2
<1>8. job'.op = "clear" /\ job'.addr = job.addr + CLEAR_BLOCK
  BY <1>2 DEF Jobs
<1>9. Blank(job.addr)'
  BY <1>1, <1>7, <1>8 DEF Blank
<1>10. QED BY <1>8, <1>9 DEF Progress

LEMMA ReportsEoc ==
  ASSUME IInv, Reports, restarts' = 0, TakeEoc
  PROVE  Reports'
<1>1. host = "await" /\ host' # "await" /\ UNCHANGED <<rom, restarts>>
  BY DEF TakeEoc, Raise, devVars
<1>2. Progress /\ job \in Jobs
  BY <1>1 DEF Reports, IInv, Types
<1>3. CASE Head(toHost) # EOC \/ (job.op = "verify" /\ got # Part(job, verify_size))
  <2>1. job' = Idle \/ job' = job
    BY <1>3 DEF TakeEoc, Raise
  <2>2. Idle.op = "none"
    BY DEF Idle
  <2>3. Progress'
    BY <1>1, <1>2, <2>1, <2>2, ProgressKept DEF Progress
  <2>4. QED BY <1>1, <2>3 DEF Reports, Listening
<1>4. CASE Head(toHost) = EOC /\ (job.op = "verify" => got = Part(job, verify_size))
  <2>1. job' = Done
    BY <1>4 DEF TakeEoc
  <2>2. Stored
    BY <1>1, <1>4, Together, EocIsMeant
  <2>3. CASE job.op \in {"ping", "read"}
    <3>1. job'.op = "none"
      BY <2>1, <2>3 DEF Done, Idle
    <3>2. QED BY <1>1, <3>1 DEF Reports, Listening, Progress
  <2>4. CASE job.op = "write"
    <3>1. job'.op = "write"
      BY <1>2, <2>1, <2>4 DEF Done, Jobs
    <3>2. QED BY <1>1, <3>1 DEF Reports, Listening, Progress
  <2>5. CASE job.op = "verify"
    <3>1. job' = [job EXCEPT !.done = @ + want]
      BY <2>1, <2>5 DEF Done
    <3>2. Progress'
      BY <1>1, <1>4, <2>5, <3>1, VerifyGoesOn
    <3>3. QED BY <1>1, <3>2 DEF Reports, Listening
  <2>6. CASE job.op = "clear"
    <3>1. job' = [job EXCEPT !.addr = @ + CLEAR_BLOCK]
      BY <2>1, <2>6 DEF Done
    <3>2. Progress'
      BY <1>1, <2>2, <2>6, <3>1, ClearGoesOn
    <3>3. QED BY <1>1, <3>2 DEF Reports, Listening
  <2>7. CASE job.op \in {"check", "none"}
    <3>1. job'.op = job.op
      BY <1>2, <2>1, <2>7 DEF Done, Jobs
    <3>2. Progress'
      BY <1>1, <1>2, <2>7, <3>1 DEF Progress, Blank
    <3>3. QED BY <1>1, <3>2 DEF Reports, Listening
  <2>8. QED BY <1>2, <2>3, <2>4, <2>5, <2>6, <2>7 DEF Jobs, Ops
<1>5. QED BY <1>3, <1>4

(* What the board sends next is from the next cell.                        *)
LEMMA FaithfulStep ==
  ASSUME IInv, restarts = 0, host = "await", job.op \in Reads, Faithful, Board
  PROVE  Faithful'
<1>1. Types /\ Calling /\ Live
  BY Together
<1>2. UNCHANGED <<job, want, got>> /\ rom' = rom
  BY <1>1, BoardSays, WhoWrites DEF Writing, Reads, Writes
<1>3. /\ want \in Nat /\ toHost \in Seq(Bytes) /\ Len(got) \in Nat /\ Len(toHost) \in Nat
      /\ Base(job) \in Nat /\ want % WORD \in Int /\ len \in Nat
  <2>1. want \in Nat /\ toHost \in Seq(Bytes) /\ got \in Seq(Bytes) /\ len \in Nat
    BY <1>1, Sizes DEF Types, TypeOK
  <2>2. Base(job) \in Nat
    BY <1>1, MessageKnown
  <2>3. QED BY <2>1, <2>2, LenProperties, Sizes
<1>4. CASE toHost' = toHost
  BY <1>2, <1>4 DEF Faithful, CellHolds, Heard
<1>5. ASSUME NEW e \in Bytes, toHost' = Append(toHost, e),
             LET n == Len(got) + Len(toHost)
             IN  n + 1 <= want % WORD => CellHolds(Base(job) + n, e)
      PROVE  Faithful'
  <2> DEFINE n == Len(got) + Len(toHost)
  <2>1. /\ Len(toHost') = Len(toHost) + 1 /\ toHost'[Len(toHost) + 1] = e
        /\ \A k \in 1 .. Len(toHost) : toHost'[k] = toHost[k]
    BY <1>3, <1>5, Added
  <2> SUFFICES ASSUME NEW k \in 1 .. want' % WORD, k <= Len(got') + Len(toHost')
               PROVE  CellHolds(Base(job) + k - 1, Heard(k))'
    BY DEF Faithful
  <2>2. k \in 1 .. want % WORD /\ k \in Nat /\ k > 0 /\ k <= n + 1
    BY <1>2, <1>3, <2>1
  <2>3. CASE k = n + 1
    <3>1. k - Len(got) = Len(toHost) + 1 /\ ~(k <= Len(got)) /\ Base(job) + k - 1 = Base(job) + n
      BY <1>3, <2>3
    <3>2. Heard(k)' = e
      BY <1>2, <2>1, <3>1 DEF Heard
    <3>3. n + 1 <= want % WORD
      BY <1>3, <2>2, <2>3
    <3>4. CellHolds(Base(job) + n, e)
      BY <1>5, <3>3
    <3>5. QED BY <1>2, <3>1, <3>2, <3>4 DEF CellHolds
  <2>4. CASE k # n + 1
    <3>1. k <= Len(got) + Len(toHost) /\ (~(k <= Len(got)) => k - Len(got) \in 1 .. Len(toHost))
      BY <1>3, <2>2, <2>4
    <3>2. Heard(k)' = Heard(k)
      BY <1>2, <2>1, <3>1 DEF Heard
    <3>3. CellHolds(Base(job) + k - 1, Heard(k))
      BY <2>2, <3>1 DEF Faithful
    <3>4. QED BY <1>2, <3>2, <3>3 DEF CellHolds
  <2>5. QED BY <2>3, <2>4
<1>6. CASE ReadLoop /\ len # 0
  <2>1. PICK e \in e_read(addr) : toHost' = Append(toHost, e)
    BY <1>6 DEF ReadLoop, Send
  <2>2. e \in Bytes
    <3>1. Floating \subseteq Bytes
      BY ProgrammerAssumption DEF Bytes
    <3>2. addr < HALF => rom[addr] \in Bytes
      BY <1>1, Sizes DEF Types, TypeOK
    <3>3. QED BY <2>1, <3>1, <3>2 DEF e_read
  <2>3. dev = "read"
    BY <1>6 DEF ReadLoop
  <2>4. addr = (Base(job) + Len(got) + Len(toHost)) % WORD
    BY <1>1, <2>3 DEF Live, Asked, Parsing, Reading, Filling, Writing, Ending, Answered
  <2>5. Base(job) + Len(got) + Len(toHost) = Base(job) + (Len(got) + Len(toHost))
    BY <1>3
  <2>6. CellHolds(Base(job) + (Len(got) + Len(toHost)), e)
    BY <2>1, <2>4, <2>5 DEF CellHolds, e_read
  <2>7. QED BY <1>5, <2>1, <2>2, <2>6
<1>7. CASE ReadLoop /\ len = 0
  BY <1>4, <1>7 DEF ReadLoop
<1>8. CASE EndOfCommand
  <2>1. dev = "eoc" /\ toHost' = Append(toHost, EOC)
    BY <1>8 DEF EndOfCommand, Send
  <2>2. Len(got) + Len(toHost) = want % WORD
    BY <1>1, <2>1 DEF Live, Asked, Parsing, Reading, Filling, Writing, Ending, Answered
  <2>3. ~(Len(got) + Len(toHost) + 1 <= want % WORD)
    BY <1>3, <2>2
  <2>4. QED BY <1>5, <2>1, <2>3, Sizes
<1>9. CASE ReadCommand \/ ReadArgs \/ FillBuffer \/ WriteLoop
  BY <1>4, <1>9 DEF ReadCommand, ReadArgs, FillBuffer, WriteLoop
<1>10. ~Setup
  BY <1>1 DEF Setup, Live, Asked, Parsing, Reading, Filling, Writing, Ending, Answered
<1>11. QED BY <1>6, <1>7, <1>8, <1>9, <1>10 DEF Board

LEMMA ReportsBoard ==
  ASSUME IInv, Reports, restarts' = 0, Board
  PROVE  Reports'
<1>1. UNCHANGED <<host, job, want, got, restarts>>
  BY BoardSays DEF IInv
<1>2. restarts = 0 /\ Listening /\ Progress
  BY <1>1 DEF Reports
<1>3. Listening'
  BY <1>1, <1>2, FaithfulStep DEF Listening
<1>4. CASE rom' = rom
  BY <1>1, <1>2, <1>3, <1>4, ProgressKept DEF Reports
<1>5. CASE host = "await" /\ Calling /\ Writing /\ WriteLoop
  <2>1. job.op \in Writes
    BY <1>5 DEF Writing
  <2>2. CASE job.op = "write"
    BY <1>1, <1>3, <2>2 DEF Reports, Progress
  <2>3. CASE job.op = "clear"
    <3>1. Types /\ Firmware /\ Len(Payload(job)) \in Nat
      BY <1>2, <1>5, Together, MessageKnown
    <3>2. /\ rom \in [0 .. HALF - 1 -> Bytes] /\ i \in Nat /\ len \in Nat
      BY <3>1, Sizes DEF Types, TypeOK
    <3>3. /\ \A k \in 1 .. len : write_buffer[k] = Payload(job)[k]
          /\ len = Len(Payload(job))
      BY <1>5 DEF Writing
    <3>4. Payload(job) = Block /\ CLEAR_BLOCK \in Nat
      BY <2>3, ProgrammerAssumption, Sizes DEF Payload
    <3>5. \A k \in 1 .. len : write_buffer[k] = EOC
      BY <3>3, <3>4 DEF Block
    <3>6. \A a \in 0 .. HALF - 1 : rom[a] = EOC => rom'[a] = EOC
      <4>1. CASE i < len
        <5>1. i + 1 \in 1 .. len
          BY <3>2, <4>1
        <5>2. rom' = [rom EXCEPT ![(addr + i) % HALF] = EOC]
          BY <1>5, <3>5, <4>1, <5>1 DEF WriteLoop
        <5>3. QED BY <3>2, <5>2
      <4>2. CASE ~(i < len)
        BY <1>5, <4>2 DEF WriteLoop
      <4>3. QED BY <4>1, <4>2
    <3>7. Blank(job.addr)'
      BY <1>1, <1>2, <2>3, <3>6 DEF Blank, Progress
    <3>8. QED BY <1>1, <1>3, <2>3, <3>7 DEF Reports, Progress
  <2>4. QED BY <2>1, <2>2, <2>3 DEF Writes
<1>6. QED BY <1>2, <1>4, <1>5, WhoWrites

LEMMA ReportsStep ==
  ASSUME IInv, Reports, [Next]_vars
  PROVE  Reports'
<1> SUFFICES ASSUME restarts' = 0 PROVE Reports'
  BY DEF Reports
<1>1. CASE UNCHANGED vars \/ Arrive \/ AwaitReady \/ Quit
  <2>1. /\ UNCHANGED <<job, want, got, rom, restarts>>
        /\ UNCHANGED <<host, toHost>> \/ host' # "await"
    BY <1>1 DEF vars, hostVars, devVars, Arrive, AwaitReady, Quit
  <2>2. Progress'
    BY <2>1, ProgressKept DEF Reports
  <2>3. Faithful /\ toHost' = toHost => Faithful'
    BY <2>1 DEF Faithful, CellHolds, Heard
  <2>4. Listening'
    BY <2>1, <2>3 DEF Reports, Listening
  <2>5. QED BY <2>2, <2>4 DEF Reports
<1>2. CASE Restart
  <2>1. restarts \in Nat /\ restarts' = restarts + 1
    BY <1>2, ProgrammerAssumption DEF IInv, Types, TypeOK, Restart
  <2>2. QED BY <2>1
<1>3. QED BY <1>1, <1>2, ReportsRequest, ReportsLast, ReportsCommand, ReportsData,
         ReportsEoc, ReportsBoard DEF Next, Host, User, Requests

(* When verifying comes to its end the EEPROM holds the data, in every     *)
(* cell that its addresses select; when the check of clear comes to its    *)
(* end the whole EEPROM is blank: what the board sends is from the cells   *)
(* it was asked for, and nothing is written meanwhile.                     *)
THEOREM ReportsAreRight == Spec => ReportsAreTrue
<1> DEFINE Told ==
      LastPart /\ Undisturbed =>
        /\ job.op = "verify" =>
             \A k \in 1 .. Len(job.data) :
               LET a == (job.addr + k - 1) % WORD
               IN  a < HALF => rom[a] = job.data[k]
        /\ job.op = "check" => \A a \in 0 .. HALF - 1 : rom[a] = EOC
<1>1. IInv /\ Reports => Told
  <2> SUFFICES ASSUME IInv, Reports, LastPart, Undisturbed PROVE Told
    OBVIOUS
  <2>1. Progress /\ job \in Jobs
    BY DEF Reports, Undisturbed, IInv, Types
  <2>2. Len(job.data) \in Nat /\ job.done \in Nat
    BY <2>1, LenProperties DEF Jobs
  <2>3. ASSUME job.op = "verify", NEW k \in 1 .. Len(job.data)
        PROVE  CellHolds(job.addr + k - 1, job.data[k])
    <3>1. job.done >= Len(job.data) /\ Agrees(job.done)
      BY <2>1, <2>3 DEF LastPart, Progress
    <3>2. k \in 1 .. job.done
      BY <2>2, <3>1
    <3>3. QED BY <3>1, <3>2 DEF Agrees
  <2>4. job.op = "check" => \A a \in 0 .. HALF - 1 : rom[a] = EOC
    BY <2>1, Sizes DEF Progress, Blank
  <2>5. QED BY <2>3, <2>4 DEF CellHolds
<1>2. Init => Reports
  BY DEF Init, Reports, Listening, Progress, Idle
<1>3. IInv /\ Reports /\ [Next]_vars => Reports'
  BY ReportsStep
<1>4. IInv /\ Reports /\ [Next]_vars => [Told]_vars
  BY <1>1
<1> HIDE DEF Told
<1>5. Spec => [](IInv /\ Reports)
  BY <1>2, <1>3, Invariant, PTL DEF Spec
<1>6. [](IInv /\ Reports) /\ [][Next]_vars => [][Told]_vars
  BY <1>4, PTL
<1>7. [][Told]_vars => ReportsAreTrue
  BY DEF Told, ReportsAreTrue
<1>8. QED BY <1>5, <1>6, <1>7, PTL DEF Spec
=============================================================================
