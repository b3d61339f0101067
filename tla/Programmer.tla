----------------------------- MODULE Programmer -----------------------------
(***************************************************************************)
(* The EEPROM programmer: the host program misc/aep/aep.py, the firmware   *)
(* misc/aep/aep.ino, and the serial link between them. The host sends a    *)
(* command in bytes and waits for its data and an end of command; the      *)
(* firmware parses bytes as they come, into a receive buffer of fixed      *)
(* size. The board can restart at any time (opening the port restarts it). *)
(* A byte has BYTE values, a 16-bit word of the protocol BYTE * BYTE.      *)
(***************************************************************************)
EXTENDS Integers, Sequences

CONSTANTS
  BYTE,            \* values of a byte, 256
  READY,           \* what the firmware sends when it starts, 0xAA
  chunk_size,      \* bytes of a write, 16
  verify_size,     \* bytes of a read that verifies, 48
  CLEAR_BLOCK,     \* bytes of a block of clear, 48
  RxSize,          \* bytes the serial library of the board buffers, 63
  BufferSize,      \* bytes of write_buffer, 128
  Contents,        \* what the EEPROM may hold at the start
  Floating,        \* what a data bus nobody drives may read as
  Commands,        \* the commands the user gives
  MaxCommands,     \* bound: commands of a session
  MaxRestarts      \* bound: restarts of the board

WORD == BYTE * BYTE
HALF == WORD \div 2          \* cells: bit 15 of an address is output enable
EOC == BYTE - 1
AEPC_READY == 1
AEPC_READ == 2
AEPC_WRITE == 3
Header == 7                  \* command, its length, address, length

ASSUME ProgrammerAssumption ==
  /\ BYTE \in Nat /\ BYTE > 3 /\ BYTE % 2 = 0 /\ READY \in 0 .. BYTE - 2
  /\ {chunk_size, verify_size, CLEAR_BLOCK} \subseteq 1 .. HALF
  /\ Header + chunk_size <= RxSize /\ Header + CLEAR_BLOCK <= RxSize
  /\ chunk_size <= BufferSize /\ CLEAR_BLOCK <= BufferSize
  /\ {RxSize, BufferSize, MaxCommands, MaxRestarts} \subseteq Nat
  /\ Floating \subseteq 0 .. BYTE - 1
  /\ Contents \subseteq [0 .. HALF - 1 -> 0 .. BYTE - 1]
  /\ \A c \in Commands :
       /\ c.op \in {"ping", "read", "byte", "file", "image", "clear"}
       /\ c.addr \in Nat /\ c.data \in Seq(0 .. BYTE - 1) /\ c.verify \in BOOLEAN
       /\ c.op = "clear" => c.addr = 0

VARIABLES
  host,       \* where the host program is
  job,        \* the command it executes
  want, got,  \* bytes of data it waits for, and has
  toDevice,   \* bytes on their way to the board
  toHost,     \* bytes on their way to the host
  dev,        \* where the firmware is
  rx,         \* its receive buffer
  cmd,        \* the command it executes
  args,       \* bytes of address and length it has read
  addr, len,  \* the address and length of the command
  write_buffer,
  i,          \* bytes written so far
  rom,        \* the EEPROM
  commands, restarts,
  astray           \* history: data was taken after a restart

hostVars == <<host, job, want, got, commands, astray>>
devVars == <<dev, cmd, args, addr, len, write_buffer, i, rom, restarts>>
vars == <<hostVars, devVars, toDevice, toHost, rx>>

Idle == [op |-> "none", addr |-> 0, data |-> << >>, done |-> 0, verify |-> FALSE]
Job(op, a, d, v) ==
  [op |-> op, addr |-> a, data |-> d, done |-> 0, verify |-> v]
-----------------------------------------------------------------------------
(* The messages: words are sent low byte first, what does not fit a word   *)
(* is lost.                                                                *)
se_write16(w) == <<w % BYTE, (w \div BYTE) % BYTE>>
rom_read(a, n) ==
  <<AEPC_READ>> \o se_write16(Header) \o se_write16(a) \o se_write16(n)
rom_write(a, d) ==
  <<AEPC_WRITE>> \o se_write16(Header + Len(d)) \o se_write16(a)
    \o se_write16(Len(d)) \o d

(* The part of the data the next message is about.                         *)
Part(j, size) ==
  SubSeq(j.data, j.done + 1,
         IF j.done + size < Len(j.data) THEN j.done + size ELSE Len(j.data))
Block == [k \in 1 .. CLEAR_BLOCK |-> EOC]      \* 0xFF, as an end of command

Request(message, n) ==
  /\ toDevice' = toDevice \o message
  /\ want' = n /\ got' = << >>
  /\ host' = "await"
  /\ UNCHANGED <<commands, astray, toHost, rx, devVars>>

(* Start up: everything before the READY of the board is dropped.          *)
AwaitReady ==
  /\ host = "startup" /\ toHost # << >>
  /\ host' = IF Head(toHost) = READY THEN "prompt" ELSE "startup"
  /\ toHost' = Tail(toHost)
  /\ UNCHANGED <<job, want, got, commands, toDevice, rx, astray, devVars>>

(* The prompt. A file that would go beyond the last address is refused,    *)
(* and write takes a zero byte for the name of a file; nothing is asked of *)
(* the board then. image asks nothing.                                     *)
Accepted(c) ==
  /\ c.op = "byte" => c.data # <<0>>
  /\ c.op \in {"byte", "file"} => c.addr + Len(c.data) < WORD
Command(c) ==
  /\ host = "prompt" /\ commands < MaxCommands /\ Accepted(c)
  /\ job' = CASE c.op \in {"byte", "file"} -> Job("write", c.addr, c.data, c.verify)
              [] c.op = "image" -> Job("write", c.addr, c.data, TRUE)
              [] OTHER -> Job(c.op, c.addr, c.data, FALSE)
  /\ host' = "send" /\ commands' = commands + 1
  /\ UNCHANGED <<want, got, toDevice, toHost, rx, astray, devVars>>

Ping ==
  /\ host = "send" /\ job.op = "ping"
  /\ Request(<<AEPC_READY>> \o se_write16(3), 0)
  /\ UNCHANGED job
Read ==
  /\ host = "send" /\ job.op = "read"
  /\ Request(rom_read(job.addr, Len(job.data)), Len(job.data))
  /\ UNCHANGED job
\* Slip: a file is sent in one message.
WriteChunkWhole ==
  /\ host = "send" /\ job.op = "write" /\ job.done < Len(job.data)
  /\ Request(rom_write(job.addr, job.data), 0)
  /\ UNCHANGED job
WriteChunk ==
  /\ host = "send" /\ job.op = "write" /\ job.done < Len(job.data)
  /\ Request(rom_write(job.addr + job.done, Part(job, chunk_size)), 0)
  /\ UNCHANGED job
VerifyChunk ==
  /\ host = "send" /\ job.op = "verify" /\ job.done < Len(job.data)
  /\ LET n == Len(Part(job, verify_size))
     IN  Request(rom_read(job.addr + job.done, n), n)
  /\ UNCHANGED job
ClearBlock ==
  /\ host = "send" /\ job.op = "clear" /\ job.addr < WORD - 1
  /\ Request(rom_write(job.addr, Block), 0)
  /\ UNCHANGED job
CheckBlock ==
  /\ host = "send" /\ job.op = "check" /\ job.addr < WORD - 1
  /\ Request(rom_read(job.addr, CLEAR_BLOCK), CLEAR_BLOCK)
  /\ UNCHANGED job

(* The last part is done: verify what was written, check what was cleared, *)
(* or return to the prompt.                                                *)
LastPart ==
  /\ host = "send"
  /\ \/ job.op \in {"write", "verify"} /\ job.done >= Len(job.data)
     \/ job.op \in {"clear", "check"} /\ job.addr >= WORD - 1
  /\ LET next == CASE job.op = "write" /\ job.verify -> "verify"
                   [] job.op = "clear" -> "check"
                   [] OTHER -> "none"
     IN  /\ job' = IF next = "none" THEN Idle
                   ELSE [job EXCEPT !.op = next, !.done = 0,
                           !.addr = IF next = "check" THEN 0 ELSE @]
         /\ host' = IF next = "none" THEN "prompt" ELSE "send"
  /\ UNCHANGED <<want, got, commands, toDevice, toHost, rx, astray, devVars>>

(* se_read blocks until there is a byte.                                   *)
TakeData ==
  /\ host = "await" /\ Len(got) < want /\ toHost # << >>
  /\ got' = Append(got, Head(toHost)) /\ toHost' = Tail(toHost)
  /\ astray' = (astray \/ restarts > 0)
  /\ UNCHANGED <<host, job, want, commands, toDevice, rx, devVars>>

(* An exception ends the program, except one raised while it verifies.     *)
Raise ==
  IF job.op = "verify" THEN host' = "prompt" /\ job' = Idle
  ELSE host' = "exited" /\ UNCHANGED job
\* Slip: the blocks of clear advance by the loop and by its step.
DoneTwice == CASE job.op \in {"ping", "read"} -> Idle
          [] job.op = "write" -> [job EXCEPT !.done = @ + Len(Part(job, chunk_size))]
          [] job.op = "verify" -> [job EXCEPT !.done = @ + want]
          [] OTHER -> [job EXCEPT !.addr = @ + 2 * CLEAR_BLOCK]
Done == CASE job.op \in {"ping", "read"} -> Idle
          [] job.op = "write" -> [job EXCEPT !.done = @ + Len(Part(job, chunk_size))]
          [] job.op = "verify" -> [job EXCEPT !.done = @ + want]
          [] OTHER -> [job EXCEPT !.addr = @ + CLEAR_BLOCK]
TakeEoc ==
  /\ host = "await" /\ Len(got) = want /\ toHost # << >>
  /\ toHost' = Tail(toHost)
  /\ IF \/ Head(toHost) # EOC
        \/ job.op = "verify" /\ got # Part(job, verify_size)
     THEN Raise
     ELSE /\ job' = Done
          /\ host' = IF Done = Idle THEN "prompt" ELSE "send"
  /\ want' = 0 /\ got' = << >>
  /\ UNCHANGED <<commands, astray, toDevice, rx, devVars>>

Quit ==
  /\ host = "prompt"
  /\ host' = "exited"
  /\ UNCHANGED <<job, want, got, commands, toDevice, toHost, rx, astray, devVars>>
-----------------------------------------------------------------------------
(* The link: bytes arrive in order, and are lost when the buffer is full.  *)
Arrive ==
  /\ toDevice # << >>
  /\ rx' = IF Len(rx) < RxSize THEN Append(rx, Head(toDevice)) ELSE rx
  /\ toDevice' = Tail(toDevice)
  /\ UNCHANGED <<toHost, hostVars, devVars>>

Send(byte) == toHost' = Append(toHost, byte)
-----------------------------------------------------------------------------
(* The firmware. setup drains the receive buffer and reports.              *)
Setup ==
  /\ dev = "setup"
  /\ IF rx # << >>
     THEN rx' = Tail(rx) /\ UNCHANGED <<dev, toHost>>
     ELSE Send(READY) /\ dev' = "command" /\ UNCHANGED rx
  /\ UNCHANGED <<cmd, args, addr, len, write_buffer, i, rom, restarts, toDevice, hostVars>>

\* Slip: a command without data is not ended.
ReadCommandSilent ==
  /\ dev = "command" /\ Len(rx) >= 3
  /\ cmd' = rx[1] /\ rx' = SubSeq(rx, 4, Len(rx))
  /\ dev' = IF rx[1] \in {AEPC_READ, AEPC_WRITE} THEN "args" ELSE "command"
  /\ UNCHANGED <<args, addr, len, write_buffer, i, rom, restarts, toDevice, toHost, hostVars>>

ReadCommand ==
  /\ dev = "command" /\ Len(rx) >= 3
  /\ cmd' = rx[1] /\ rx' = SubSeq(rx, 4, Len(rx))
  /\ dev' = IF rx[1] \in {AEPC_READ, AEPC_WRITE} THEN "args" ELSE "eoc"
  /\ UNCHANGED <<args, addr, len, write_buffer, i, rom, restarts, toDevice, toHost, hostVars>>

read_wait == rx # << >> /\ rx' = Tail(rx)
word(lo, hi) == lo + BYTE * hi
ReadArgs ==
  /\ dev = "args" /\ read_wait
  /\ args' = Append(args, Head(rx))
  /\ IF Len(args) = 3
     THEN /\ addr' = word(args[1], args[2]) /\ len' = word(args[3], Head(rx))
          /\ dev' = IF cmd = AEPC_READ THEN "read" ELSE "fill"
     ELSE UNCHANGED <<addr, len, dev>>
  /\ UNCHANGED <<cmd, write_buffer, i, rom, restarts, toDevice, toHost, hostVars>>

(* e_addr: bit 15 of the address is the output enable of the EEPROM, which *)
(* a write sets and a read of an upper address sets too.                   *)
e_read(a) == IF a < HALF THEN {rom[a]} ELSE Floating
\* Slip: the length is tested after a byte was sent.
ReadLoopAfter ==
  /\ dev = "read"
  /\ \E byte \in e_read(addr) : Send(byte)
  /\ addr' = (addr + 1) % WORD
  /\ IF len # 0 THEN len' = len - 1 /\ UNCHANGED dev ELSE dev' = "eoc" /\ UNCHANGED len
  /\ UNCHANGED <<cmd, args, write_buffer, i, rom, restarts, toDevice, rx, hostVars>>

ReadLoop ==
  /\ dev = "read"
  /\ IF len # 0
     THEN /\ \E byte \in e_read(addr) : Send(byte)
          /\ addr' = (addr + 1) % WORD /\ len' = len - 1
          /\ UNCHANGED dev
     ELSE dev' = "eoc" /\ UNCHANGED <<toHost, addr, len>>
  /\ UNCHANGED <<cmd, args, write_buffer, i, rom, restarts, toDevice, rx, hostVars>>

FillBuffer ==
  /\ dev = "fill"
  /\ IF Len(write_buffer) # len
     THEN /\ read_wait /\ write_buffer' = Append(write_buffer, Head(rx))
          /\ UNCHANGED dev
     ELSE dev' = "write" /\ UNCHANGED <<rx, write_buffer>>
  /\ UNCHANGED <<cmd, args, addr, len, i, rom, restarts, toDevice, toHost, hostVars>>

\* Slip: the last byte of the buffer is not written.
WriteLoopShort ==
  /\ dev = "write"
  /\ IF i < len - 1
     THEN /\ rom' = [rom EXCEPT ![(addr + i) % HALF] = write_buffer[i + 1]]
          /\ i' = i + 1 /\ UNCHANGED dev
     ELSE dev' = "eoc" /\ UNCHANGED <<rom, i>>
  /\ UNCHANGED <<cmd, args, addr, len, write_buffer, restarts, toDevice, toHost, rx, hostVars>>

WriteLoop ==
  /\ dev = "write"
  /\ IF i < len
     THEN /\ rom' = [rom EXCEPT ![(addr + i) % HALF] = write_buffer[i + 1]]
          /\ i' = i + 1 /\ UNCHANGED dev
     ELSE dev' = "eoc" /\ UNCHANGED <<rom, i>>
  /\ UNCHANGED <<cmd, args, addr, len, write_buffer, restarts, toDevice, toHost, rx, hostVars>>

(* What the firmware no longer uses.                                       *)
Forget ==
  /\ cmd' = 0 /\ args' = << >> /\ addr' = 0 /\ len' = 0
  /\ write_buffer' = << >> /\ i' = 0

EndOfCommand ==
  /\ dev = "eoc"
  /\ Send(EOC) /\ dev' = "command"
  /\ Forget
  /\ UNCHANGED <<rom, restarts, toDevice, rx, hostVars>>

(* A restart loses the board's buffers, a part of what it was sending too. *)
Restart ==
  /\ restarts < MaxRestarts
  /\ restarts' = restarts + 1
  /\ dev' = "setup" /\ rx' = << >> /\ Forget
  /\ \E k \in 0 .. Len(toHost) : toHost' = SubSeq(toHost, 1, k)
  /\ UNCHANGED <<rom, toDevice, hostVars>>
-----------------------------------------------------------------------------
Init ==
  /\ host = "startup" /\ job = Idle /\ want = 0 /\ got = << >>
  /\ toDevice = << >> /\ toHost = << >> /\ rx = << >>
  /\ dev = "setup" /\ cmd = 0 /\ args = << >> /\ addr = 0 /\ len = 0
  /\ write_buffer = << >> /\ i = 0
  /\ rom \in Contents
  /\ commands = 0 /\ restarts = 0 /\ astray = FALSE

Host ==
  \/ AwaitReady \/ Ping \/ Read \/ WriteChunk \/ VerifyChunk
  \/ ClearBlock \/ CheckBlock \/ LastPart \/ TakeData \/ TakeEoc
User == Quit \/ \E c \in Commands : Command(c)
Board ==
  \/ Setup \/ ReadCommand \/ ReadArgs \/ ReadLoop \/ FillBuffer \/ WriteLoop
  \/ EndOfCommand

Next == Host \/ User \/ Arrive \/ Board \/ Restart

(* Both programs run on, and the link delivers; the user need not type.    *)
Spec ==
  /\ Init /\ [][Next]_vars
  /\ WF_vars(Host) /\ WF_vars(Board) /\ WF_vars(Arrive)
-----------------------------------------------------------------------------
Bytes == 0 .. BYTE - 1
Ops == {"none", "ping", "read", "write", "verify", "clear", "check"}

(* Bytes, words and labels are what they are named for.                    *)
TypeOK ==
  /\ host \in {"startup", "prompt", "send", "await", "exited"}
  /\ job.op \in Ops /\ job.addr \in Nat /\ job.done \in Nat
  /\ want \in Nat /\ got \in Seq(Bytes)
  /\ toDevice \in Seq(Bytes) /\ toHost \in Seq(Bytes) /\ rx \in Seq(Bytes)
  /\ dev \in {"setup", "command", "args", "read", "fill", "write", "eoc"}
  /\ cmd \in Bytes /\ args \in Seq(Bytes)
  /\ addr \in 0 .. WORD - 1 /\ len \in 0 .. WORD - 1 /\ i \in 0 .. WORD - 1
  /\ write_buffer \in Seq(Bytes)
  /\ rom \in [0 .. HALF - 1 -> Bytes]
  /\ commands \in 0 .. MaxCommands /\ restarts \in 0 .. MaxRestarts

Undisturbed == restarts = 0

(* The link has no flow control and the firmware does not read while it    *)
(* writes, but the host never has more on its way than the board's buffer  *)
(* takes: no byte is lost. Nor does a write exceed the buffer it is        *)
(* collected in.                                                           *)
NothingLost ==
  Undisturbed => /\ toDevice # << >> => Len(rx) < RxSize
                 /\ Len(write_buffer) <= BufferSize

(* At the prompt the two are in step: no byte is under way or unread, and  *)
(* the firmware waits for a command.                                       *)
InStep ==
  host = "prompt" /\ Undisturbed =>
    /\ toDevice = << >> /\ toHost = << >> /\ rx = << >>
    /\ dev = "command"

Cell(k) == ((job.addr + job.done + k - 1) % WORD) % HALF

(* The host reports a chunk as written only when the EEPROM holds it, also *)
(* if the board restarts before, during or after the write. (Until it took *)
(* data after a restart: READY is taken for a byte of data then, and a     *)
(* byte of data with the value of EOC for the end of the command, so that  *)
(* the true end is left for the next.)                                     *)
OkIsWritten ==
  [][TakeEoc /\ job.op = "write" /\ host' = "send" /\ ~astray =>
       \A k \in 1 .. Len(Part(job, chunk_size)) :
         rom[Cell(k)] = Part(job, chunk_size)[k]]_vars

(* When verifying comes to its end the EEPROM holds the data, wherever an  *)
(* address selects a cell; when the check of clear does, every cell has    *)
(* been cleared, the ones behind the last whole block too.                 *)
ReportsAreTrue ==
  [][LastPart /\ Undisturbed =>
       /\ job.op = "verify" =>
            \A k \in 1 .. Len(job.data) :
              LET a == (job.addr + k - 1) % WORD
              IN  a < HALF => rom[a] = job.data[k]
       /\ job.op = "check" => \A a \in 0 .. HALF - 1 : rom[a] = EOC]_vars

(* Every command ends, at the prompt or with the program, unless the board *)
(* restarts under it.                                                      *)
CommandsEnd == []<>(host \in {"prompt", "exited"} \/ ~Undisturbed)
=============================================================================
