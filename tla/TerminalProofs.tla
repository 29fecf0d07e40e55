--------------------------- MODULE TerminalProofs ---------------------------
(***************************************************************************)
(* Proofs about Terminal.  The first part is arithmetic: a register is a   *)
(* number, its parts are a quotient or a remainder, and setting one leaves *)
(* the others.  The second follows a call: from there the handler finds    *)
(* the arguments, and the library the answer, whatever the registers held. *)
(* The third is the line discipline: buffer and row change alike.  The     *)
(* fourth follows the parser token by token through a line: recursive      *)
(* functions are taken as runs, and a run is followed by its steps.  The   *)
(* invariant joins a fact about each of calls, console and session.        *)
(***************************************************************************)
EXTENDS Terminal, TLAPS, WellFoundedInduction, FiniteSetTheorems, SequenceTheorems

(* A number from its quotient and its remainder, and these from it.        *)
LEMMA Division ==
  ASSUME NEW a \in Nat, NEW d \in Nat \ {0}
  PROVE  /\ a \div d \in Nat /\ a % d \in 0 .. (d - 1)
         /\ a = d * (a \div d) + (a % d)
<1>1. a \div d \in Nat /\ a % d \in 0 .. (d - 1)
  BY SMT
<1>2. a = d * (a \div d) + (a % d)
  BY SMT
<1> QED BY <1>1, <1>2

(* A number put together comes apart into what it was made of.             *)
LEMMA Composition ==
  ASSUME NEW d \in Nat \ {0}, NEW q \in Nat, NEW m \in 0 .. (d - 1)
  PROVE  d * q + m \in Nat /\ (d * q + m) \div d = q /\ (d * q + m) % d = m
<1>1. (d * q + m) \div d = q
  BY SMT
<1>2. (d * q + m) % d = m
  BY SMT
<1>3. d * q \in Nat
  BY SMT
<1> QED BY <1>1, <1>2, <1>3, SMT

(* What fits into a part of a register is all of it.                       *)
LEMMA Fitting ==
  ASSUME NEW d \in Nat \ {0}, NEW m \in 0 .. (d - 1)
  PROVE  m % d = m /\ m \div d = 0
<1>1. d * 0 + m = m
  BY SMT
<1> QED BY <1>1, Composition, SMT

(* A number is below n k when its quotient by n is below k.                *)
LEMMA Below ==
  ASSUME NEW n \in Nat \ {0}, NEW k \in Nat, NEW q \in Nat, NEW m \in 0 .. (n - 1)
  PROVE  n * q + m \in 0 .. (n * k - 1) <=> q \in 0 .. (k - 1)
<1>1. n * q \in Nat /\ n * k \in Nat
  BY SMT
<1>2. ASSUME q <= k - 1  PROVE n * q + m <= n * k - 1
  <2>1. n * q <= n * (k - 1)
    BY <1>2, SMT
  <2>2. n * (k - 1) = n * k - n
    BY SMT
  <2> QED BY <1>1, <2>1, <2>2, SMT
<1>3. ASSUME q >= k  PROVE n * q + m >= n * k
  <2>1. n * q >= n * k
    BY <1>3, SMT
  <2> QED BY <1>1, <2>1, SMT
<1> QED BY <1>1, <1>2, <1>3, SMT

(* The part of a number below n is replaced.                               *)
LEMMA Replacement ==
  ASSUME NEW n \in Nat \ {0}, NEW k \in Nat, NEW r \in 0 .. (n * k - 1), NEW v \in 0 .. (n - 1)
  PROVE  /\ r - (r % n) + v \in 0 .. (n * k - 1)
         /\ (r - (r % n) + v) % n = v
         /\ (r - (r % n) + v) \div n = r \div n
         /\ r \div n \in 0 .. (k - 1)
<1> DEFINE q == r \div n
           m == r % n
<1>1. r \in Nat
  BY SMT
<1>2. q \in Nat /\ m \in 0 .. (n - 1) /\ r = n * q + m
  BY <1>1, Division
<1>3. n * q \in Nat
  BY <1>2, SMT
<1> HIDE DEF q, m
<1>4. r - m + v = n * q + v
  BY <1>2, <1>3, SMT
<1>5. q \in 0 .. (k - 1)
  BY <1>2, Below
<1>6. n * q + v \in 0 .. (n * k - 1)
  BY <1>2, <1>5, Below
<1>7. (n * q + v) % n = v /\ (n * q + v) \div n = q
  BY <1>2, Composition
<1>8. r - m + v \in 0 .. (n * k - 1) /\ (r - m + v) % n = v /\ (r - m + v) \div n = q
  BY <1>4, <1>6, <1>7
<1> QED BY <1>5, <1>8 DEF q, m

-----------------------------------------------------------------------------
(* The sizes of the parts of a register.                                   *)
LEMMA Sizes ==
  /\ Byte \in Nat \ {0} /\ Word \in Nat \ {0} /\ DWord \in Nat \ {0} /\ QWord \in Nat \ {0}
  /\ Byte < Word /\ Word < DWord /\ DWord < QWord
  /\ Unknown_Error \in 0 .. Word - 1 /\ Wait_Failed \in Register /\ Byte >= 12
<1>1. CASE Byte = 12
  <2>1. Word = 144 /\ DWord = 20736 /\ QWord = 429981696
    BY <1>1, SMT DEF Word, DWord, QWord
  <2>2. /\ Byte \in Nat \ {0} /\ Word \in Nat \ {0} /\ DWord \in Nat \ {0} /\ QWord \in Nat \ {0}
        /\ Byte < Word /\ Word < DWord /\ DWord < QWord /\ Byte >= 12
    BY <1>1, <2>1, SMT
  <2> QED BY <2>2, SMT DEF Unknown_Error, Wait_Failed, Register
<1>2. CASE Byte = 13
  <2>1. Word = 169 /\ DWord = 28561 /\ QWord = 815730721
    BY <1>2, SMT DEF Word, DWord, QWord
  <2>2. /\ Byte \in Nat \ {0} /\ Word \in Nat \ {0} /\ DWord \in Nat \ {0} /\ QWord \in Nat \ {0}
        /\ Byte < Word /\ Word < DWord /\ DWord < QWord /\ Byte >= 12
    BY <1>2, <2>1, SMT
  <2> QED BY <2>2, SMT DEF Unknown_Error, Wait_Failed, Register
<1>3. CASE Byte = 14
  <2>1. Word = 196 /\ DWord = 38416 /\ QWord = 1475789056
    BY <1>3, SMT DEF Word, DWord, QWord
  <2>2. /\ Byte \in Nat \ {0} /\ Word \in Nat \ {0} /\ DWord \in Nat \ {0} /\ QWord \in Nat \ {0}
        /\ Byte < Word /\ Word < DWord /\ DWord < QWord /\ Byte >= 12
    BY <1>3, <2>1, SMT
  <2> QED BY <2>2, SMT DEF Unknown_Error, Wait_Failed, Register
<1> QED  BY <1>1, <1>2, <1>3, ByteAssumption, SMT

(* Each size of a part divides the size of a register.                     *)
LEMMA Multiples ==
  /\ Word = Byte * Byte /\ DWord = Word * Word
  /\ \E k \in Nat : QWord = Byte * (Byte * k)
  /\ \E k \in Nat : QWord = Word * k
  /\ \E k \in Nat : QWord = DWord * k
<1>1. CASE Byte = 12
  <2>1. QWord = Byte * (Byte * 2985984) /\ QWord = Word * 2985984 /\ QWord = DWord * 20736
    BY <1>1, SMT DEF Word, DWord, QWord
  <2> QED BY <2>1 DEF Word, DWord
<1>2. CASE Byte = 13
  <2>1. QWord = Byte * (Byte * 4826809) /\ QWord = Word * 4826809 /\ QWord = DWord * 28561
    BY <1>2, SMT DEF Word, DWord, QWord
  <2> QED BY <2>1 DEF Word, DWord
<1>3. CASE Byte = 14
  <2>1. QWord = Byte * (Byte * 7529536) /\ QWord = Word * 7529536 /\ QWord = DWord * 38416
    BY <1>3, SMT DEF Word, DWord, QWord
  <2> QED BY <2>1 DEF Word, DWord
<1> QED  BY <1>1, <1>2, <1>3, ByteAssumption, SMT

(* A part that is set holds its value, and leaves what is beside it.       *)
LEMMA SetLow ==
  ASSUME NEW r \in Register, NEW v \in Part
  PROVE  WithL(r, v) \in Register /\ L(WithL(r, v)) = v /\ H(WithL(r, v)) = H(r)
<1>s. Byte \in Nat \ {0}
  BY Sizes
<1>1. PICK k \in Nat : QWord = Byte * (Byte * k)
  BY Multiples
<1>2. Byte * k \in Nat
  BY Sizes, SMT
<1>3. r \in 0 .. (Byte * (Byte * k) - 1) /\ v \in 0 .. (Byte - 1)
  BY <1>1 DEF Register, Part
<1>4. /\ r - (r % Byte) + v \in 0 .. (Byte * (Byte * k) - 1)
      /\ (r - (r % Byte) + v) % Byte = v
      /\ (r - (r % Byte) + v) \div Byte = r \div Byte
  BY <1>2, <1>3, <1>s, Replacement, Zenon
<1> QED BY <1>1, <1>4 DEF WithL, L, H, Register

(* The lower word is read as it was set (the 16-bit parts of TRegister).   *)
LEMMA SetWord ==
  ASSUME NEW r \in Register, NEW v \in Handle
  PROVE  WithX(r, v) \in Register /\ X(WithX(r, v)) = v
<1>s. Word \in Nat \ {0}
  BY Sizes
<1>1. PICK k \in Nat : QWord = Word * k
  BY Multiples
<1>2. r \in 0 .. (Word * k - 1) /\ v \in 0 .. (Word - 1)
  BY <1>1 DEF Register, Handle
<1>3. r - (r % Word) + v \in 0 .. (Word * k - 1) /\ (r - (r % Word) + v) % Word = v
  BY <1>2, <1>s, Replacement, Zenon
<1> QED BY <1>1, <1>3 DEF WithX, X, Register

(* The lower half is read as it was set (the 32-bit part).                 *)
LEMMA SetDWord ==
  ASSUME NEW r \in Register, NEW v \in 0 .. DWord - 1
  PROVE  WithE(r, v) \in Register /\ E(WithE(r, v)) = v
<1>s. DWord \in Nat \ {0}
  BY Sizes
<1>1. PICK k \in Nat : QWord = DWord * k
  BY Multiples
<1>2. r \in 0 .. (DWord * k - 1) /\ v \in 0 .. (DWord - 1)
  BY <1>1 DEF Register
<1>3. r - (r % DWord) + v \in 0 .. (DWord * k - 1) /\ (r - (r % DWord) + v) % DWord = v
  BY <1>2, <1>s, Replacement, Zenon
<1> QED BY <1>1, <1>3 DEF WithE, E, Register

(* The second byte is read as it was set, and the first one is as before.  *)
LEMMA SetHigh ==
  ASSUME NEW r \in Register, NEW v \in Part
  PROVE  WithH(r, v) \in Register /\ H(WithH(r, v)) = v /\ L(WithH(r, v)) = L(r)
<1> DEFINE q == r \div Byte
           l == r % Byte
           p == q - (q % Byte) + v
<1>s. Byte \in Nat \ {0}
  BY Sizes
<1>1. PICK k \in Nat : QWord = Byte * (Byte * k)
  BY Multiples
<1>2. Byte * k \in Nat /\ r \in Nat /\ v \in 0 .. (Byte - 1)
  BY Sizes, SMT DEF Register, Part
<1>3. q \in Nat /\ l \in 0 .. (Byte - 1) /\ r = Byte * q + l
  BY <1>2, Sizes, Division
<1>4. r \in 0 .. (Byte * (Byte * k) - 1)
  BY <1>1 DEF Register
<1> HIDE DEF q, l
<1>5. q \in 0 .. (Byte * k - 1)
  BY <1>2, <1>3, <1>4, Sizes, Below
<1>6. p \in 0 .. (Byte * k - 1) /\ p % Byte = v
  BY <1>2, <1>5, <1>s, Replacement, Zenon DEF p
<1>7. q % Byte \in 0 .. (Byte - 1)
  BY <1>3, Sizes, Division
<1>8. r - (q % Byte) * Byte + v * Byte = Byte * p + l
  <2>1. Byte * p = Byte * q - Byte * (q % Byte) + Byte * v
    BY <1>2, <1>3, <1>7, Sizes, SMT
  <2>2. Byte * q \in Int /\ Byte * (q % Byte) \in Int /\ Byte * v \in Int
    BY <1>2, <1>3, <1>7, Sizes, SMT
  <2>3. (q % Byte) * Byte = Byte * (q % Byte) /\ v * Byte = Byte * v
    BY <1>2, <1>7, Sizes, SMT
  <2> QED BY <1>3, <2>1, <2>2, <2>3, SMT
<1> HIDE DEF p
<1>9. /\ Byte * p + l \in 0 .. (Byte * (Byte * k) - 1)
      /\ (Byte * p + l) \div Byte = p /\ (Byte * p + l) % Byte = l
  <2>1. p \in Nat
    BY <1>6
  <2>2. Byte * p + l \in 0 .. (Byte * (Byte * k) - 1)
    BY <1>2, <1>3, <1>6, <2>1, Sizes, Below
  <2> QED BY <1>3, <2>1, <2>2, Sizes, Composition
<1>10. WithH(r, v) = Byte * p + l
  BY <1>8 DEF WithH, H, q
<1>11. H(WithH(r, v)) = v
  BY <1>6, <1>9, <1>10 DEF H
<1>12. L(WithH(r, v)) = L(r)
  BY <1>9, <1>10 DEF L, l
<1> QED BY <1>1, <1>9, <1>10, <1>11, <1>12 DEF Register

-----------------------------------------------------------------------------
(* TRegisters, with its values.                                            *)
Registers ==
  [rax : Register, rbx : Register, rcx : Register, rdx : Register, rdi : Register,
   carry : BOOLEAN]

(* No two services have the same numbers.                                  *)
LEMMA NumbersDiffer ==
  ASSUME NEW s \in DOMAIN Numbers, NEW t \in DOMAIN Numbers, Numbers[s] = Numbers[t]
  PROVE  s = t
  BY SMT DEF Numbers, File_System, Process

(* Each number of a service fits into a byte.                              *)
LEMMA NumbersAreParts ==
  ASSUME NEW s \in DOMAIN Numbers
  PROVE  Numbers[s][1] \in Part /\ Numbers[s][2] \in Part
  BY Sizes, SMT DEF Numbers, File_System, Process, Part

(* The kernel finds the service the library names.                         *)
LEMMA Dispatching ==
  ASSUME NEW r, NEW s \in DOMAIN Numbers, Numbers[s] = <<H(r.rax), L(r.rax)>>
  PROVE  Dispatched(r) = s
  BY NumbersDiffer DEF Dispatched

(* Prepare_SysCall_Context leaves the numbers of the service in AX, above  *)
(* garbage.                                                                *)
LEMMA Preparing ==
  ASSUME NEW s \in DOMAIN Numbers, NEW g \in Register
  PROVE  LET r == Prepare_SysCall_Context(s, g) IN
         r \in Registers /\ Numbers[s] = <<H(r.rax), L(r.rax)>>
<1> DEFINE high == WithH(g, Numbers[s][1])
           low == WithL(high, Numbers[s][2])
           r == Prepare_SysCall_Context(s, g)
<1>1. high \in Register /\ H(high) = Numbers[s][1]
  BY SetHigh, NumbersAreParts
<1> HIDE DEF high
<1>2. low \in Register /\ L(low) = Numbers[s][2] /\ H(low) = Numbers[s][1]
  BY <1>1, SetLow, NumbersAreParts
<1>3. Numbers[s] = <<Numbers[s][1], Numbers[s][2]>>
  BY SMT DEF Numbers
<1> HIDE DEF low
<1>4. r = [Unset(g) EXCEPT !.rax = low]
  BY DEF Prepare_SysCall_Context, Unset, low, high
<1>5. r \in Registers /\ r.rax = low
  BY <1>2, <1>4 DEF Registers, Unset
<1> QED BY <1>2, <1>3, <1>5

(* A number that is no wider than the part it is read from is read as it   *)
(* is.                                                                     *)
LEMMA Reading ==
  /\ \A v \in Part : v \in Register /\ L(v) = v
  /\ \A v \in Handle : v \in Register /\ X(v) = v
  /\ \A v \in 0 .. DWord - 1 : v \in Register /\ E(v) = v
<1>1. /\ \A v \in Part : v % Byte = v
      /\ \A v \in Handle : v % Word = v
      /\ \A v \in 0 .. DWord - 1 : v % DWord = v
  BY Sizes, Fitting, Zenon DEF Part, Handle
<1> QED BY <1>1, Sizes, SMT DEF Part, Handle, Register, L, X, E

(* Two handles share the lower half of a register.                         *)
LEMMA Pairing ==
  ASSUME NEW r \in Register, NEW i \in Handle, NEW o \in Handle
  PROVE  LET s == WithE(r, i * Word + o) IN
         s \in Register /\ X(E(s) \div Word) = i /\ X(s) = o
<1> DEFINE m == i * Word + o
           s == WithE(r, m)
<1>1. Word \in Nat \ {0} /\ i \in Nat /\ o \in 0 .. (Word - 1) /\ i \in 0 .. (Word - 1)
  BY Sizes, SMT DEF Handle
<1>2. m = Word * i + o
  BY <1>1, SMT
<1>3. m \in 0 .. DWord - 1
  BY <1>1, <1>2, Below DEF DWord
<1>4. m \div Word = i
  BY <1>1, <1>2, Composition
<1> HIDE DEF m
<1>5. s \in Register /\ E(s) = m
  BY <1>3, SetDWord
<1>6. X(s) = o
  <2> DEFINE q == s \div DWord
  <2>1. s \in Nat /\ DWord \in Nat \ {0}
    BY <1>5, Sizes DEF Register
  <2>2. q \in Nat /\ s = DWord * q + m
    BY <1>5, <2>1, Division DEF E
  <2> HIDE DEF q, s
  <2>3. Word * q \in Nat /\ Word * q + i \in Nat
    BY <1>1, <2>2, SMT
  <2>4. s = Word * (Word * q + i) + o
    <3>1. DWord * q = Word * (Word * q)
      BY <1>1, <2>2, SMT DEF DWord
    <3>2. Word * (Word * q + i) = Word * (Word * q) + Word * i
      BY <1>1, <2>3, SMT
    <3>3. Word * (Word * q) \in Int /\ Word * i \in Int
      BY <1>1, <2>3, SMT
    <3> QED BY <1>1, <1>2, <2>2, <3>1, <3>2, <3>3, SMT
  <2> QED BY <1>1, <2>3, <2>4, Composition DEF X
<1> QED BY <1>4, <1>5, <1>6, <1>1, Reading DEF s, m

-----------------------------------------------------------------------------
(* What the handler takes from the registers is what the program meant.    *)
LEMMA Requesting ==
  ASSUME NEW c, IsCall(c), NEW r \in Registers, Numbers[c.service] = <<H(r.rax), L(r.rax)>>
  PROVE  /\ Arguments(c, r) \in Registers
         /\ Request(Arguments(c, r)) = Meant(c)
<1> DEFINE a == Arguments(c, r)
<1>1. c.service \in DOMAIN Numbers
  BY SMT DEF IsCall, Numbers
<1>2. ASSUME a.rax = r.rax  PROVE Dispatched(a) = c.service
  BY <1>1, <1>2, Dispatching
<1>k. Create_Process \in Part /\ Create_Thread \in Part
  BY Sizes, SMT DEF Create_Process, Create_Thread, Part
<1>p. LET b == WithE(r.rbx, 1) IN
      b \in Register /\ X(E(b) \div Word) = 0 /\ X(b) = 1
  <2>1. 0 \in Handle /\ 1 \in Handle /\ 0 * Word + 1 = 1
    BY Sizes, SMT DEF Handle
  <2> QED BY <2>1, Pairing DEF Registers
<1>3. CASE c \in [service : {"Read_File", "Write_File"}, handle : Handle, buffer : Register,
                  size : Register]
  <2>1. a = [r EXCEPT !.rdx = WithX(@, c.handle), !.rdi = c.buffer, !.rcx = c.size]
    BY <1>3, SMT DEF Arguments, Transfer_Arguments
  <2>2. WithX(r.rdx, c.handle) \in Register /\ X(WithX(r.rdx, c.handle)) = c.handle
    BY <1>3, SetWord DEF Registers
  <2>3. a \in Registers /\ a.rax = r.rax /\ X(a.rdx) = c.handle
        /\ a.rdi = c.buffer /\ a.rcx = c.size
    BY <1>3, <2>1, <2>2 DEF Registers
  <2> HIDE DEF a
  <2>4. Dispatched(a) = c.service
    BY <1>2, <2>3
  <2>5. Request(a) = [service |-> c.service, handle |-> X(a.rdx), buffer |-> a.rdi, size |-> a.rcx]
    BY <1>3, <2>4, SMT DEF Request
  <2>6. Meant(c) = c
    BY <1>3, SMT DEF Meant
  <2> QED BY <1>3, <2>3, <2>5, <2>6, SMT DEF a
<1>4. CASE c \in [service : {"Open_File"}, filename : Register, flags : Part, attributes : Part]
  <2>1. a = [r EXCEPT !.rdx = c.filename, !.rcx = c.flags, !.rdi = c.attributes]
    BY <1>4, SMT DEF Arguments, Open_Arguments
  <2>2. c.flags \in Register /\ L(c.flags) = c.flags /\ c.attributes \in Register
    BY <1>4, Reading
  <2>3. a \in Registers /\ a.rax = r.rax /\ a.rdx = c.filename /\ L(a.rcx) = c.flags
        /\ a.rdi = c.attributes
    BY <1>4, <2>1, <2>2 DEF Registers
  <2> HIDE DEF a
  <2>4. Dispatched(a) = c.service
    BY <1>2, <2>3
  <2>5. Request(a) = [service |-> c.service, filename |-> a.rdx, flags |-> L(a.rcx),
                    attributes |-> a.rdi]
    BY <1>4, <2>4, SMT DEF Request
  <2>6. Meant(c) = c
    BY <1>4, SMT DEF Meant
  <2> QED BY <1>4, <2>3, <2>5, <2>6, SMT DEF a
<1>5. CASE c \in [service : {"Seek"}, handle : Handle, offset : Register, start : Part,
                  operation : Part]
  <2>1. a = [r EXCEPT !.rdx = WithX(@, c.handle), !.rdi = c.offset,
                       !.rcx = WithL(WithH(@, c.operation), c.start)]
    BY <1>5, SMT DEF Arguments, Seek_Arguments
  <2>2. LET h == WithH(r.rcx, c.operation)
            l == WithL(h, c.start) IN
        /\ WithX(r.rdx, c.handle) \in Register /\ X(WithX(r.rdx, c.handle)) = c.handle
        /\ l \in Register /\ L(l) = c.start /\ H(l) = c.operation
    BY <1>5, SetWord, SetHigh, SetLow DEF Registers
  <2>3. a \in Registers /\ a.rax = r.rax /\ X(a.rdx) = c.handle /\ a.rdi = c.offset
        /\ L(a.rcx) = c.start /\ H(a.rcx) = c.operation
    BY <1>5, <2>1, <2>2 DEF Registers
  <2> HIDE DEF a
  <2>4. Dispatched(a) = c.service
    BY <1>2, <2>3
  <2>5. Request(a) = [service |-> c.service, handle |-> X(a.rdx), offset |-> a.rdi,
                    start |-> L(a.rcx), operation |-> H(a.rcx)]
    BY <1>5, <2>4, SMT DEF Request
  <2>6. Meant(c) = c
    BY <1>5, SMT DEF Meant
  <2> QED BY <1>5, <2>3, <2>5, <2>6, SMT DEF a
<1>6. CASE c \in [service : {"Close_Handle", "Read_Exit_Code"}, handle : Handle]
  <2>1. a = [r EXCEPT !.rdx = WithX(@, c.handle)]
    BY <1>6, SMT DEF Arguments, Handle_Arguments
  <2>2. WithX(r.rdx, c.handle) \in Register /\ X(WithX(r.rdx, c.handle)) = c.handle
    BY <1>6, SetWord DEF Registers
  <2>3. a \in Registers /\ a.rax = r.rax /\ X(a.rdx) = c.handle
    BY <1>6, <2>1, <2>2 DEF Registers
  <2> HIDE DEF a
  <2>4. Dispatched(a) = c.service
    BY <1>2, <2>3
  <2>5. Request(a) = [service |-> c.service, handle |-> X(a.rdx)]
    BY <1>6, <2>4, SMT DEF Request
  <2>6. Meant(c) = c
    BY <1>6, SMT DEF Meant
  <2> QED BY <1>6, <2>3, <2>5, <2>6, SMT DEF a
<1>7. CASE c \in [service : {"Delete_File", "Set_Working_Dir"}, filename : Register]
  <2>1. a = [r EXCEPT !.rdx = c.filename]
    BY <1>7, SMT DEF Arguments, Name_Arguments
  <2>2. a \in Registers /\ a.rax = r.rax /\ a.rdx = c.filename
    BY <1>7, <2>1 DEF Registers
  <2> HIDE DEF a
  <2>3. Dispatched(a) = c.service
    BY <1>2, <2>2
  <2>4. Request(a) = [service |-> c.service, filename |-> a.rdx]
    BY <1>7, <2>3, SMT DEF Request
  <2>5. Meant(c) = c
    BY <1>7, SMT DEF Meant
  <2> QED BY <1>7, <2>2, <2>4, <2>5, SMT DEF a
<1>8. CASE c \in [service : {"Get_Working_Dir"}, buffer : Register, size : Register]
  <2>1. a = [r EXCEPT !.rdx = c.buffer, !.rcx = c.size]
    BY <1>8, SMT DEF Arguments, Get_Working_Dir_Arguments
  <2>2. a \in Registers /\ a.rax = r.rax /\ a.rdx = c.buffer /\ a.rcx = c.size
    BY <1>8, <2>1 DEF Registers
  <2> HIDE DEF a
  <2>3. Dispatched(a) = c.service
    BY <1>2, <2>2
  <2>4. Request(a) = [service |-> c.service, buffer |-> a.rdx, size |-> a.rcx]
    BY <1>8, <2>3, SMT DEF Request
  <2>5. Meant(c) = c
    BY <1>8, SMT DEF Meant
  <2> QED BY <1>8, <2>2, <2>4, <2>5, SMT DEF a
<1>9. CASE c \in [service : {"Create_Pipe"}, handles : Register]
  <2>1. a = [r EXCEPT !.rdx = c.handles]
    BY <1>9, SMT DEF Arguments, Create_Pipe_Arguments
  <2>2. a \in Registers /\ a.rax = r.rax /\ a.rdx = c.handles
    BY <1>9, <2>1 DEF Registers
  <2> HIDE DEF a
  <2>3. Dispatched(a) = c.service
    BY <1>2, <2>2
  <2>4. Request(a) = [service |-> c.service, handles |-> a.rdx]
    BY <1>9, <2>3, SMT DEF Request
  <2>5. Meant(c) = c
    BY <1>9, SMT DEF Meant
  <2> QED BY <1>9, <2>2, <2>4, <2>5, SMT DEF a
<1>10. CASE c \in [service : {"Clone"}, by : {"library"}, kind : {Create_Process, Create_Thread},
                   name : Register, data : Register, stdin : Handle, stdout : Handle]
  <2>1. a = [r EXCEPT !.rcx = c.kind, !.rdx = c.name, !.rdi = c.data,
                       !.rbx = WithE(@, c.stdin * Word + c.stdout)]
    BY <1>10, SMT DEF Arguments, Clone_Arguments
  <2>2. LET b == WithE(r.rbx, c.stdin * Word + c.stdout) IN
        /\ b \in Register /\ X(E(b) \div Word) = c.stdin /\ X(b) = c.stdout
        /\ c.kind \in Register /\ L(c.kind) = c.kind
    BY <1>10, <1>k, Pairing, Reading DEF Registers
  <2>3. a \in Registers /\ a.rax = r.rax /\ L(a.rcx) = c.kind /\ a.rdx = c.name
        /\ a.rdi = c.data /\ X(E(a.rbx) \div Word) = c.stdin /\ X(a.rbx) = c.stdout
    BY <1>10, <2>1, <2>2 DEF Registers
  <2> HIDE DEF a
  <2>4. Dispatched(a) = c.service
    BY <1>2, <2>3
  <2>5. Request(a) = [service |-> c.service, kind |-> L(a.rcx), name |-> a.rdx, data |-> a.rdi,
                     stdin |-> X(E(a.rbx) \div Word), stdout |-> X(a.rbx)]
    BY <1>10, <2>4, SMT DEF Request
  <2>6. Meant(c) = [service |-> c.service, kind |-> c.kind, name |-> c.name, data |-> c.data,
                 stdin |-> c.stdin, stdout |-> c.stdout]
    BY <1>10, SMT DEF Meant
  <2> QED BY <1>10, <2>3, <2>5, <2>6, SMT DEF a
<1>11. CASE c \in [service : {"Clone"}, by : {"kernel"}, kind : {Create_Process},
                   name : Register, data : Register, stdin : {0}, stdout : {1}]
  <2>1. a = [r EXCEPT !.rcx = WithL(@, c.kind), !.rdx = c.name, !.rdi = c.data,
                       !.rbx = WithE(@, 1)]
    BY <1>11, SMT DEF Arguments, Fork_Arguments
  <2>2. LET b == WithE(r.rbx, 1)
            k == WithL(r.rcx, c.kind) IN
        /\ b \in Register /\ X(E(b) \div Word) = c.stdin /\ X(b) = c.stdout
        /\ k \in Register /\ L(k) = c.kind
    BY <1>11, <1>k, <1>p, SetLow DEF Registers
  <2>3. a \in Registers /\ a.rax = r.rax /\ L(a.rcx) = c.kind /\ a.rdx = c.name
        /\ a.rdi = c.data /\ X(E(a.rbx) \div Word) = c.stdin /\ X(a.rbx) = c.stdout
    BY <1>11, <2>1, <2>2 DEF Registers
  <2> HIDE DEF a
  <2>4. Dispatched(a) = c.service
    BY <1>2, <2>3
  <2>5. Request(a) = [service |-> c.service, kind |-> L(a.rcx), name |-> a.rdx, data |-> a.rdi,
                     stdin |-> X(E(a.rbx) \div Word), stdout |-> X(a.rbx)]
    BY <1>11, <2>4, SMT DEF Request
  <2>6. Meant(c) = [service |-> c.service, kind |-> c.kind, name |-> c.name, data |-> c.data,
                 stdin |-> c.stdin, stdout |-> c.stdout]
    BY <1>11, SMT DEF Meant
  <2> QED BY <1>11, <2>3, <2>5, <2>6, SMT DEF a
<1>12. CASE c \in [service : {"Wait_For"}, handles : Register, count : 0 .. DWord - 1]
  <2>1. a = [r EXCEPT !.rdx = c.handles, !.rcx = c.count]
    BY <1>12, SMT DEF Arguments, Wait_For_Arguments
  <2>2. c.count \in Register /\ E(c.count) = c.count
    BY <1>12, Reading
  <2>3. a \in Registers /\ a.rax = r.rax /\ a.rdx = c.handles /\ E(a.rcx) = c.count
    BY <1>12, <2>1, <2>2 DEF Registers
  <2> HIDE DEF a
  <2>4. Dispatched(a) = c.service
    BY <1>2, <2>3
  <2>5. Request(a) = [service |-> c.service, handles |-> a.rdx, count |-> E(a.rcx)]
    BY <1>12, <2>4, SMT DEF Request
  <2>6. Meant(c) = c
    BY <1>12, SMT DEF Meant
  <2> QED BY <1>12, <2>3, <2>5, <2>6, SMT DEF a
<1>13. CASE c \in [service : {"Exit"}, code : Handle]
  <2>1. a = [r EXCEPT !.rcx = WithX(@, c.code)]
    BY <1>13, SMT DEF Arguments, Exit_Arguments
  <2>2. WithX(r.rcx, c.code) \in Register /\ X(WithX(r.rcx, c.code)) = c.code
    BY <1>13, SetWord DEF Registers
  <2>3. a \in Registers /\ a.rax = r.rax /\ X(a.rcx) = c.code
    BY <1>13, <2>1, <2>2 DEF Registers
  <2> HIDE DEF a
  <2>4. Dispatched(a) = c.service
    BY <1>2, <2>3
  <2>5. Request(a) = [service |-> c.service, code |-> X(a.rcx)]
    BY <1>13, <2>4, SMT DEF Request
  <2>6. Meant(c) = c
    BY <1>13, SMT DEF Meant
  <2> QED BY <1>13, <2>3, <2>5, <2>6, SMT DEF a
<1>14. CASE c \in [service : {"Register_Signal_Handler"}, signal : Part, handler : Register]
  <2>1. a = [r EXCEPT !.rcx = c.signal,
                       !.rdx = IF c.handler # 0 THEN c.handler ELSE Default_Signal_Handler]
    BY <1>14, SMT DEF Arguments, Signal_Arguments
  <2>2. c.signal \in Register /\ L(c.signal) = c.signal
    BY <1>14, Reading
  <2>3. a \in Registers /\ a.rax = r.rax /\ L(a.rcx) = c.signal
        /\ a.rdx = IF c.handler # 0 THEN c.handler ELSE Default_Signal_Handler
    BY <1>14, <2>1, <2>2, HandlerAssumption DEF Registers
  <2> HIDE DEF a
  <2>4. Dispatched(a) = c.service
    BY <1>2, <2>3
  <2>5. Request(a) = [service |-> c.service, signal |-> L(a.rcx), handler |-> a.rdx]
    BY <1>14, <2>4, SMT DEF Request
  <2>6. Meant(c) = [c EXCEPT !.handler = IF c.handler # 0 THEN c.handler ELSE Default_Signal_Handler]
    BY <1>14, SMT DEF Meant
  <2> QED BY <1>14, <2>3, <2>5, <2>6, SMT DEF a
<1>15. CASE c \in [service : {"Shutdown"}]
  <2>1. a = r
    BY <1>15, SMT DEF Arguments, Transfer_Arguments
  <2>2. a \in Registers /\ a.rax = r.rax
    BY <1>15, <2>1 DEF Registers
  <2> HIDE DEF a
  <2>3. Dispatched(a) = c.service
    BY <1>2, <2>2
  <2>4. Request(a) = [service |-> c.service]
    BY <1>15, <2>3, SMT DEF Request
  <2>5. Meant(c) = c
    BY <1>15, SMT DEF Meant
  <2> QED BY <1>15, <2>2, <2>4, <2>5, SMT DEF a
<1> QED BY <1>3, <1>4, <1>5, <1>6, <1>7, <1>8, <1>9, <1>10, <1>11, <1>12, <1>13, <1>14, <1>15 DEF IsCall

-----------------------------------------------------------------------------
(* Every error is told by a number that fits into a word.                  *)
LEMMA ErrorsFit ==
  ASSUME NEW q, NEW outcome \in DOMAIN Errors(q)
  PROVE  Errors(q)[outcome] \in Handle
<1> DEFINE Codes == {Success, Invalid_Argument, File_Not_Found, Directory_Not_Empty,
                     Out_Of_Memory, IO_Error, Unknown_Error}
<1>1. Codes \subseteq Handle
  BY Sizes, SMT DEF Handle, Success, Invalid_Argument, File_Not_Found, Directory_Not_Empty,
    Out_Of_Memory, IO_Error, Unknown_Error
<1>2. \A o \in DOMAIN Transferred : Transferred[o] \in Codes
  BY SMT DEF Transferred
<1>3. \A o \in DOMAIN Opened(q) : Opened(q)[o] \in Codes
  BY SMT DEF Opened
<1>4. \A o \in DOMAIN Sought : Sought[o] \in Codes
  BY SMT DEF Sought
<1>5. \A o \in DOMAIN Closed(q) : Closed(q)[o] \in Codes
  BY SMT DEF Closed
<1>6. \A o \in DOMAIN Deleted : Deleted[o] \in Codes
  BY SMT DEF Deleted
<1>7. \A o \in DOMAIN Entered : Entered[o] \in Codes
  BY SMT DEF Entered
<1>8. \A o \in DOMAIN Cloned(q) : Cloned(q)[o] \in Codes
  BY SMT DEF Cloned
<1>9. \A o \in DOMAIN Waited(q) : Waited(q)[o] \in Codes
  BY SMT DEF Waited
<1>10. \A o \in DOMAIN Collected : Collected[o] \in Codes
  BY SMT DEF Collected
<1>11. \A o \in DOMAIN [OK |-> Success] : [OK |-> Success][o] \in Codes
  BY SMT
<1> HIDE DEF Codes
<1>12. \/ Errors(q) = Transferred \/ Errors(q) = Opened(q) \/ Errors(q) = Sought
       \/ Errors(q) = Closed(q) \/ Errors(q) = Deleted \/ Errors(q) = Entered
       \/ Errors(q) = Cloned(q) \/ Errors(q) = Waited(q) \/ Errors(q) = Collected
       \/ Errors(q) = [OK |-> Success]
  BY Zenon DEF Errors
<1> QED
  BY <1>1, <1>2, <1>3, <1>4, <1>5, <1>6, <1>7, <1>8, <1>9, <1>10, <1>11, <1>12, Zenon

(* What the program is to get when the handler has answered with a value.  *)
Told(c, value) ==
  CASE c.service = "Wait_For" -> IF value = Wait_Failed THEN Word - 1 ELSE value
    [] c.service = "Seek" -> IF c.operation = Get_Position THEN value % Word ELSE c.offset
    [] OTHER -> value

(* The lower word of a register is a number of the register's width.       *)
LEMMA Halving ==
  ASSUME NEW r \in Register
  PROVE  X(r) \in Handle /\ X(r) \in Register
<1>1. r \in Nat /\ Word \in Nat \ {0}
  BY Sizes DEF Register
<1>2. X(r) \in Handle
  BY <1>1, Division, Zenon DEF X, Handle
<1> QED BY <1>2, Reading

(* Whatever is handed out is a number of the width of a register.          *)
LEMMA HandingOut ==
  ASSUME NEW c, IsCall(c), NEW s \in Registers
  PROVE  Handed_Out(c, s) \in Register
<1>1. s.rax \in Register /\ s.rcx \in Register /\ 0 \in Register
  BY Sizes, SMT DEF Registers, Register
<1>2. X(s.rax) \in Register /\ X(s.rcx) \in Register
  BY <1>1, Halving
<1>3. c.service = "Seek" => c.offset \in Register
  BY SMT DEF IsCall
<1> QED BY <1>1, <1>2, <1>3, Zenon DEF Handed_Out, Handle_In_AX

(* The mark of a failed wait is all ones, and so is its lower word.        *)
LEMMA FailedWait == X(Wait_Failed) = Word - 1
<1>1. Word \in Nat \ {0} /\ Word - 1 \in 0 .. (Word - 1) /\ Word - 1 \in Nat
  BY Sizes, SMT
<1>2. Wait_Failed = Word * (Word - 1) + (Word - 1)
  BY <1>1, SMT DEF Wait_Failed, DWord
<1> QED BY <1>1, <1>2, Composition DEF X

(* The answers fit: into a word, but for counts and positions, which have  *)
(* a register of their own.                                                *)
LEMMA ValuesFit ==
  ASSUME NEW c, IsCall(c), NEW value \in Values(Meant(c))
  PROVE  /\ value \in Register
         /\ c.service \in {"Open_File", "Clone", "Read_Exit_Code"} => value \in Handle
         /\ c.service = "Wait_For" => value = Wait_Failed \/ value \in Handle
<1>1. Meant(c).service = c.service
  BY SMT DEF Meant, IsCall
<1>2. CASE c.service \in {"Read_File", "Write_File", "Get_Working_Dir"}
  <2>1. Meant(c) = c /\ c.size \in Register
    BY <1>2, SMT DEF Meant, IsCall
  <2>2. Values(c) = 0 .. c.size
    BY <1>2, SMT DEF Values
  <2>3. value \in 0 .. c.size
    BY <2>1, <2>2
  <2>4. value \in Register
    BY <2>1, <2>3, Sizes, SMT DEF Register
  <2> QED BY <1>2, <2>4
<1>3. CASE c.service \in {"Open_File", "Clone", "Read_Exit_Code"}
  <2>1. Values(Meant(c)) = {2, Word - 2}
    BY <1>1, <1>3, SMT DEF Values
  <2> QED BY <1>3, <2>1, Sizes, Reading, SMT DEF Handle
<1>4. CASE c.service = "Seek"
  <2>1. Meant(c) = c /\ c.offset \in Register
    BY <1>4, SMT DEF Meant, IsCall
  <2>2. Values(c) = {c.offset, (c.offset + Word) % QWord}
    BY <1>4, SMT DEF Values
  <2>3. c.offset + Word \in Nat /\ QWord \in Nat \ {0}
    BY <2>1, Sizes, SMT DEF Register
  <2>4. (c.offset + Word) % QWord \in Register
    BY <2>3, Division, Zenon DEF Register
  <2> QED BY <1>4, <2>1, <2>2, <2>4
<1>5. CASE c.service = "Wait_For"
  <2>1. Meant(c) = c /\ c.count \in 0 .. DWord - 1
    BY <1>5, SMT DEF Meant, IsCall
  <2>2. Values(c) = IF c.count >= wait_obj_limit THEN {Wait_Failed}
                    ELSE 0 .. c.count \cup {Wait_Failed}
    BY <1>5, SMT DEF Values
  <2>3. c.count < wait_obj_limit => 0 .. c.count \subseteq Handle
    BY <2>1, LimitAssumption, Sizes, SMT DEF Handle
  <2>4. wait_obj_limit \in Int /\ c.count \in Int
    BY <2>1, LimitAssumption, Sizes, SMT
  <2>5. value = Wait_Failed \/ value \in Handle
    BY <2>1, <2>2, <2>3, <2>4, SMT
  <2> QED BY <1>5, <2>5, Sizes, Reading
<1>6. CASE c.service \notin {"Read_File", "Write_File", "Get_Working_Dir", "Open_File",
                             "Clone", "Read_Exit_Code", "Seek", "Wait_For"}
  <2>1. Values(Meant(c)) = {0}
    BY <1>1, <1>6, SMT DEF Values
  <2> QED BY <1>6, <2>1, Sizes, SMT DEF Register
<1> QED BY <1>2, <1>3, <1>4, <1>5, <1>6, Zenon

(* A successful answer is put where the library takes it from.             *)
LEMMA Succeeding ==
  ASSUME NEW c, IsCall(c), NEW r \in Registers, NEW value \in Values(Meant(c))
  PROVE  LET s == [Answered(Meant(c), value, r) EXCEPT !.carry = FALSE] IN
         s \in Registers /\ s.carry = FALSE /\ Handed_Out(c, s) = Told(c, value)
<1> DEFINE q == Meant(c)
           a == Answered(q, value, r)
           s == [a EXCEPT !.carry = FALSE]
<1> SUFFICES s \in Registers /\ s.carry = FALSE /\ Handed_Out(c, s) = Told(c, value)
  OBVIOUS
<1>1. q.service = c.service
  BY SMT DEF Meant, IsCall
<1>2. ASSUME a \in Registers
      PROVE  s \in Registers /\ s.carry = FALSE /\ s.rax = a.rax /\ s.rcx = a.rcx
  BY <1>2 DEF Registers
<1>3. r \in Registers /\ r.rax \in Register /\ r.rcx \in Register
  BY DEF Registers
<1> HIDE DEF q
<1>4. CASE c.service \in {"Read_File", "Write_File", "Get_Working_Dir"}
  <2>1. a = [r EXCEPT !.rax = value]
    BY <1>1, <1>4, SMT DEF Answered
  <2>2. a \in Registers /\ a.rax = value
    BY <1>3, <2>1, ValuesFit DEF Registers
  <2> HIDE DEF s, a
  <2>3. Handed_Out(c, s) = s.rax /\ Told(c, value) = value
    BY <1>4, SMT DEF Handed_Out, Told
  <2> QED BY <1>2, <2>2, <2>3
<1>5. CASE c.service = "Open_File" \/ (c.service = "Clone" /\ q.kind = Create_Process)
  <2>1. a = [r EXCEPT !.rax = WithX(@, value)]
    BY <1>1, <1>5, SMT DEF Answered
  <2>2. WithX(r.rax, value) \in Register /\ X(WithX(r.rax, value)) = value
    BY <1>3, <1>5, ValuesFit, SetWord
  <2>3. a \in Registers /\ X(a.rax) = value
    BY <1>3, <2>1, <2>2 DEF Registers
  <2> HIDE DEF s, a
  <2>4. Handed_Out(c, s) = X(s.rax) /\ Told(c, value) = value
    BY <1>5, SMT DEF Handed_Out, Handle_In_AX, Told
  <2> QED BY <1>2, <2>3, <2>4
<1>6. CASE c.service = "Clone" /\ q.kind # Create_Process
  <2>1. a = [r EXCEPT !.rax = value]
    BY <1>1, <1>6, SMT DEF Answered
  <2>2. value \in Register /\ X(value) = value
    BY <1>6, ValuesFit, Reading
  <2>3. a \in Registers /\ X(a.rax) = value
    BY <1>3, <2>1, <2>2 DEF Registers
  <2> HIDE DEF s, a
  <2>4. Handed_Out(c, s) = X(s.rax) /\ Told(c, value) = value
    BY <1>6, SMT DEF Handed_Out, Handle_In_AX, Told
  <2> QED BY <1>2, <2>3, <2>4
<1>7. CASE c.service = "Wait_For"
  <2>1. a = [r EXCEPT !.rax = value]
    BY <1>1, <1>7, SMT DEF Answered
  <2>2. a \in Registers /\ a.rax = value
    BY <1>3, <2>1, ValuesFit DEF Registers
  <2>3. X(value) = IF value = Wait_Failed THEN Word - 1 ELSE value
    BY <1>7, ValuesFit, Reading, FailedWait
  <2> HIDE DEF s, a
  <2>4. Handed_Out(c, s) = X(s.rax)
        /\ Told(c, value) = IF value = Wait_Failed THEN Word - 1 ELSE value
    BY <1>7, SMT DEF Handed_Out, Handle_In_AX, Told
  <2> QED BY <1>2, <2>2, <2>3, <2>4
<1>8. CASE c.service = "Seek"
  <2>1. q = c
    BY <1>8, SMT DEF q, Meant
  <2>2. a = IF c.operation = Get_Position THEN [r EXCEPT !.rax = value] ELSE r
    BY <1>8, <2>1, SMT DEF Answered
  <2>3. a \in Registers /\ (c.operation = Get_Position => a.rax = value)
    BY <1>3, <2>2, ValuesFit DEF Registers
  <2> HIDE DEF s, a
  <2>4. Handed_Out(c, s) = (IF c.operation = Get_Position THEN X(s.rax) ELSE c.offset)
        /\ Told(c, value) = (IF c.operation = Get_Position THEN value % Word ELSE c.offset)
    BY <1>8, SMT DEF Handed_Out, Told
  <2>5. s \in Registers /\ s.carry = FALSE /\ s.rax = a.rax
    BY <1>2, <2>3
  <2>6. X(value) = value % Word
    BY DEF X
  <2>7. CASE c.operation = Get_Position
    <3>1. Handed_Out(c, s) = X(value)
      BY <2>3, <2>4, <2>5, <2>7
    <3>2. Told(c, value) = value % Word
      BY <2>4, <2>7
    <3> QED BY <2>5, <2>6, <3>1, <3>2, Zenon
  <2>8. CASE c.operation # Get_Position
    BY <2>4, <2>5, <2>8
  <2> QED BY <2>7, <2>8
<1>9. CASE c.service = "Read_Exit_Code"
  <2>1. a = [r EXCEPT !.rcx = WithX(@, value)]
    BY <1>1, <1>9, SMT DEF Answered
  <2>2. WithX(r.rcx, value) \in Register /\ X(WithX(r.rcx, value)) = value
    BY <1>3, <1>9, ValuesFit, SetWord
  <2>3. a \in Registers /\ X(a.rcx) = value
    BY <1>3, <2>1, <2>2 DEF Registers
  <2> HIDE DEF s, a
  <2>4. Handed_Out(c, s) = X(s.rcx) /\ Told(c, value) = value
    BY <1>9, SMT DEF Handed_Out, Told
  <2> QED BY <1>2, <2>3, <2>4
<1>10. CASE c.service \notin {"Read_File", "Write_File", "Get_Working_Dir", "Open_File",
                             "Clone", "Read_Exit_Code", "Seek", "Wait_For"}
  <2>1. a = r /\ value = 0
    BY <1>1, <1>10, SMT DEF Answered, Values, q
  <2> HIDE DEF s, a
  <2>2. Handed_Out(c, s) = 0 /\ Told(c, value) = value
    BY <1>10, SMT DEF Handed_Out, Told
  <2> QED BY <1>2, <1>3, <2>1, <2>2
<1> QED BY <1>4, <1>5, <1>6, <1>7, <1>8, <1>9, <1>10, Zenon

(* The answer, an error or a value, is what the library takes out of the   *)
(* registers.                                                              *)
LEMMA Answering ==
  ASSUME NEW c, IsCall(c), NEW r \in Registers,
         NEW outcome \in DOMAIN Errors(Meant(c)), NEW value,
         Errors(Meant(c))[outcome] = Success => value \in Values(Meant(c))
  PROVE  LET q == Meant(c)
             error == Errors(q)[outcome]
             s == Set_Error(error, IF error = Success THEN Answered(q, value, r) ELSE r) IN
         /\ s \in Registers /\ error \in Handle /\ Read_Error(s) = error
         /\ Handed_Out(c, s) \in Register
         /\ error = Success => Handed_Out(c, s) = Told(c, value)
<1> DEFINE q == Meant(c)
           error == Errors(q)[outcome]
           s == Set_Error(error, IF error = Success THEN Answered(q, value, r) ELSE r)
<1>1. error \in Handle
  BY ErrorsFit
<1> HIDE DEF error
<1>2. CASE error = Success
  <2>1. s = [Answered(q, value, r) EXCEPT !.carry = FALSE]
    BY <1>2 DEF Set_Error
  <2>v. value \in Values(Meant(c))
    BY <1>2 DEF error
  <2>2. s \in Registers /\ s.carry = FALSE /\ Handed_Out(c, s) = Told(c, value)
    BY <2>v, <2>1, Succeeding
  <2> HIDE DEF s
  <2>3. Read_Error(s) = error
    BY <1>2, <2>2 DEF Read_Error
  <2> QED BY <1>1, <2>2, <2>3, HandingOut DEF s, error
<1>3. CASE error # Success
  <2>1. s = [r EXCEPT !.carry = TRUE, !.rax = error]
    BY <1>3 DEF Set_Error
  <2>2. error \in Register /\ X(error) = error
    BY <1>1, Reading
  <2>3. s \in Registers /\ s.carry = TRUE /\ s.rax = error
    BY <2>1, <2>2 DEF Registers
  <2> HIDE DEF s
  <2>4. Read_Error(s) = error
    BY <2>2, <2>3 DEF Read_Error
  <2> QED BY <1>1, <1>3, <2>3, <2>4, HandingOut DEF s, error
<1> QED BY <1>2, <1>3

-----------------------------------------------------------------------------
(* The invariant of a call: the registers hold at every moment what the    *)
(* next to look at them is to find there.                                  *)
Fields_Are(k) ==
  k = [stage |-> k.stage, call |-> k.call, regs |-> k.regs, request |-> k.request,
       answer |-> k.answer, result |-> k.result]
Arrived(k) == k.stage # "kernel" => k.request = Meant(k.call)
Handed(k) ==
  Has_Result(k) =>
    /\ k.result.error = k.answer.error
    /\ k.result.error = Success => k.result.value = Told(k.call, k.answer.value)
CallOk(k) ==
  /\ Fields_Are(k)
  /\ k.stage \in {"program", "kernel", "library"} /\ k.regs \in Registers
  /\ k.answer.error \in Handle
  /\ k.call = Nothing \/ IsCall(k.call)
  /\ k.stage # "program" => IsCall(k.call)
  /\ k.stage = "kernel" => Request(k.regs) = Meant(k.call)
  /\ Arrived(k)
  /\ k.stage = "library" =>
       /\ Read_Error(k.regs) = k.answer.error
       /\ Handed_Out(k.call, k.regs) \in Register
       /\ k.answer.error = Success => Handed_Out(k.call, k.regs) = Told(k.call, k.answer.value)
  /\ Handed(k)

CallInv == calls = [t \in Caller |-> calls[t]] /\ \A t \in Caller : CallOk(calls[t])

(* Nothing has been asked for at first.                                    *)
LEMMA UnusedOk == CallOk(Unused) /\ Unused.stage = "program" /\ Unused.call = Nothing
<1>1. 0 \in Register /\ 0 \in Handle
  BY Sizes, SMT DEF Register, Handle
<1>2. Unset(0) \in Registers
  BY <1>1 DEF Unset, Registers
<1>3. NoAnswer.error \in Handle
  BY <1>1 DEF NoAnswer, Success
<1>4. Meant(Nothing) = Nothing
  <2>1. Nothing.service = NoCall
    BY DEF Nothing
  <2>2. NoCall # "Clone" /\ NoCall # "Register_Signal_Handler"
    BY NoCallAssumption, SMT DEF Numbers
  <2> QED BY <2>1, <2>2, SMT DEF Meant
<1>5. /\ Unused.stage = "program" /\ Unused.call = Nothing /\ Unused.request = Nothing
      /\ Unused.regs = Unset(0) /\ Unused.answer = NoAnswer /\ Unused.result = NoAnswer
  BY DEF Unused
<1>6. Fields_Are(Unused)
  BY <1>5 DEF Fields_Are, Unused
<1>7. Arrived(Unused) /\ Handed(Unused)
  BY <1>4, <1>5 DEF Arrived, Handed, Has_Result
<1> QED BY <1>2, <1>3, <1>5, <1>6, <1>7 DEF CallOk

(* A call puts the arguments where the handler takes them from.            *)
LEMMA AskingOk ==
  ASSUME NEW c, IsCall(c), NEW g \in Garbage
  PROVE  LET k == Asking(c, g) IN CallOk(k) /\ k.stage = "kernel" /\ k.call = c
<1> DEFINE r == Prepare_SysCall_Context(c.service, g)
           k == Asking(c, g)
<1>2. c.service \in DOMAIN Numbers
  BY SMT DEF IsCall, Numbers
<1>3. r \in Registers /\ Numbers[c.service] = <<H(r.rax), L(r.rax)>>
  BY <1>2, GarbageAssumption, Preparing DEF Register
<1>4. Arguments(c, r) \in Registers /\ Request(Arguments(c, r)) = Meant(c)
  BY <1>3, Requesting
<1> DEFINE a == Arguments(c, r)
<1>a. k = [Unused EXCEPT !.stage = "kernel", !.call = c, !.regs = a]
  BY DEF Asking
<1> HIDE DEF r, k, a
<1>b. k = [stage |-> "kernel", call |-> c, regs |-> a, request |-> Nothing,
           answer |-> NoAnswer, result |-> NoAnswer]
  BY <1>a DEF Unused
<1>5. /\ k.stage = "kernel" /\ k.call = c /\ k.answer = NoAnswer /\ k.regs = Arguments(c, r)
      /\ Fields_Are(k)
  BY <1>b DEF Fields_Are, a
<1>6. k.answer.error \in Handle
  BY <1>5, Sizes, SMT DEF NoAnswer, Success, Handle
<1>7. Arrived(k) /\ Handed(k)
  BY <1>5 DEF Arrived, Handed, Has_Result
<1>8. CallOk(k)
  BY <1>4, <1>5, <1>6, <1>7 DEF CallOk
<1> QED BY <1>5, <1>8 DEF k

(* The handler asks for what was meant, and its answer fits into the       *)
(* registers.                                                              *)
LEMMA ServedOk ==
  ASSUME NEW k, CallOk(k), k.stage = "kernel",
         NEW outcome \in DOMAIN Errors(Request(k.regs)), NEW value,
         Errors(Request(k.regs))[outcome] = Success => value \in Values(Request(k.regs))
  PROVE  LET n == Served(k, outcome, value) IN
         /\ CallOk(n) /\ n.stage = "library" /\ n.call = k.call
         /\ n.answer.error = Success => n.answer.value = value
<1> DEFINE error == Errors(Meant(k.call))[outcome]
           s == Set_Error(error, IF error = Success THEN Answered(Meant(k.call), value, k.regs)
                                 ELSE k.regs)
           n == Served(k, outcome, value)
<1>f. Fields_Are(k)
  BY DEF CallOk
<1>1. Request(k.regs) = Meant(k.call) /\ IsCall(k.call) /\ k.regs \in Registers
  BY DEF CallOk
<1>v. /\ outcome \in DOMAIN Errors(Meant(k.call))
      /\ Errors(Meant(k.call))[outcome] = Success => value \in Values(Meant(k.call))
  BY <1>1
<1>2. /\ s \in Registers /\ error \in Handle /\ Read_Error(s) = error
      /\ Handed_Out(k.call, s) \in Register
      /\ error = Success => Handed_Out(k.call, s) = Told(k.call, value)
  BY ONLY <1>1, <1>v, Answering
<1>3. n = [stage |-> "library", call |-> k.call, regs |-> s, request |-> Meant(k.call),
           answer |-> [error |-> error, value |-> IF error = Success THEN value ELSE 0],
           result |-> k.result]
  <2> DEFINE e == Errors(Request(k.regs))[outcome]
             a == [error |-> e, value |-> IF e = Success THEN value ELSE 0]
             rs == Set_Error(e, IF e = Success THEN Answered(Request(k.regs), value, k.regs)
                                ELSE k.regs)
             q == Request(k.regs)
  <2>1. n = [k EXCEPT !.stage = "library", !.request = q, !.answer = a, !.regs = rs]
    BY DEF Served
  <2>2. a = [error |-> error, value |-> IF error = Success THEN value ELSE 0]
        /\ rs = s /\ q = Meant(k.call)
    BY <1>1
  <2> HIDE DEF n, a, rs, q, error, s
  <2>3. n = [stage |-> "library", call |-> k.call, regs |-> rs, request |-> q, answer |-> a,
             result |-> k.result]
    BY <1>f, <2>1 DEF Fields_Are
  <2> QED BY <2>2, <2>3
<1> HIDE DEF error, s, n
<1>4. /\ Fields_Are(n) /\ n.stage = "library" /\ n.call = k.call /\ n.regs = s
      /\ n.request = Meant(k.call) /\ n.answer.error = error
      /\ error = Success => n.answer.value = value
  BY <1>3 DEF Fields_Are
<1>5. Arrived(n) /\ Handed(n)
  BY <1>4 DEF Arrived, Handed, Has_Result
<1>6. CallOk(n)
  BY <1>1, <1>2, <1>4, <1>5 DEF CallOk
<1> QED BY <1>4, <1>6 DEF n

(* The library hands out what the handler answered.                        *)
LEMMA ReturnedOk ==
  ASSUME NEW k, CallOk(k), k.stage = "library"
  PROVE  LET n == Returned(k) IN
         /\ CallOk(n) /\ n.stage = "program" /\ n.call = k.call /\ n.request = k.request
         /\ n.answer = k.answer /\ n.result.value \in Register
         /\ n.result.error = k.answer.error
<1> DEFINE n == Returned(k)
           v == Handed_Out(k.call, k.regs)
           e == Read_Error(k.regs)
<1>1. /\ IsCall(k.call) /\ k.regs \in Registers /\ k.answer.error \in Handle
      /\ e = k.answer.error /\ v \in Register
      /\ k.answer.error = Success => v = Told(k.call, k.answer.value)
      /\ k.request = Meant(k.call) /\ Fields_Are(k)
  BY DEF CallOk, Arrived
<1>2. n = [k EXCEPT !.stage = "program", !.result = [error |-> e, value |-> v]]
  BY DEF Returned
<1> HIDE DEF n, v, e
<1>3. n = [stage |-> "program", call |-> k.call, regs |-> k.regs, request |-> k.request,
           answer |-> k.answer, result |-> [error |-> e, value |-> v]]
  BY <1>1, <1>2 DEF Fields_Are
<1>4. /\ Fields_Are(n) /\ n.stage = "program" /\ n.call = k.call /\ n.regs = k.regs
      /\ n.request = k.request /\ n.answer = k.answer
      /\ n.result.error = e /\ n.result.value = v
  BY <1>3 DEF Fields_Are
<1>5. Arrived(n) /\ Handed(n)
  BY <1>1, <1>4 DEF Arrived, Handed
<1>6. CallOk(n)
  BY <1>1, <1>4, <1>5 DEF CallOk
<1> QED BY <1>1, <1>4, <1>6 DEF n

(* The call of one thread leaves those of the others alone.                *)
LEMMA CallsChange ==
  ASSUME CallInv, NEW t \in Caller, NEW k, CallOk(k), calls' = [calls EXCEPT ![t] = k]
  PROVE  CallInv' /\ calls'[t] = k /\ \A u \in Caller \ {t} : calls'[u] = calls[u]
<1>1. calls = [u \in Caller |-> calls[u]] /\ \A u \in Caller : CallOk(calls[u])
  BY DEF CallInv
<1>2. calls' = [u \in Caller |-> IF u = t THEN k ELSE calls[u]]
  BY <1>1
<1>3. calls'[t] = k /\ \A u \in Caller \ {t} : calls'[u] = calls[u]
  BY <1>2
<1>4. calls' = [u \in Caller |-> calls'[u]]
  BY <1>2
<1>5. \A u \in Caller : CallOk(calls'[u])
  BY <1>1, <1>3
<1>6. CallInv' <=> calls' = [u \in Caller |-> calls'[u]] /\ \A u \in Caller : CallOk(calls'[u])
  BY DEF CallInv, CallOk, Fields_Are, Arrived, Handed, Has_Result
<1> QED BY <1>3, <1>4, <1>5, <1>6

-----------------------------------------------------------------------------
(* A sequence is the end of another when they agree from the end.          *)
LEMMA EndsAgree ==
  ASSUME NEW S, NEW s \in Seq(S), NEW t \in Seq(S)
  PROVE  IsSuffix(s, t) <=> /\ Len(s) <= Len(t)
                            /\ \A i \in 1 .. Len(s) : s[Len(s) - i + 1] = t[Len(t) - i + 1]
<1> DEFINE u == Reverse(s)
           w == Reverse(t)
<1>1. /\ Len(s) \in Nat /\ Len(t) \in Nat
      /\ u \in Seq(S) /\ w \in Seq(S) /\ Len(u) = Len(s) /\ Len(w) = Len(t)
      /\ \A i \in 1 .. Len(s) : u[i] = s[Len(s) - i + 1]
      /\ \A i \in 1 .. Len(t) : w[i] = t[Len(t) - i + 1]
  BY SMT DEF Reverse
<1> HIDE DEF u, w
<1>2. ASSUME Len(u) <= Len(w)
      PROVE  SubSeq(u, 1, Len(u)) = SubSeq(w, 1, Len(u)) <=> \A i \in 1 .. Len(u) : u[i] = w[i]
  BY <1>1, <1>2, SMT
<1>3. IsSuffix(s, t) <=> Len(u) <= Len(w) /\ SubSeq(u, 1, Len(u)) = SubSeq(w, 1, Len(u))
  BY DEF IsSuffix, IsPrefix, u, w
<1>4. ASSUME Len(s) <= Len(t), NEW i \in 1 .. Len(s)
      PROVE  u[i] = s[Len(s) - i + 1] /\ w[i] = t[Len(t) - i + 1]
  BY <1>1, <1>4, SMT
<1>5. ASSUME Len(s) <= Len(t)
      PROVE  (\A i \in 1 .. Len(u) : u[i] = w[i])
             <=> \A i \in 1 .. Len(s) : s[Len(s) - i + 1] = t[Len(t) - i + 1]
  <2>1. 1 .. Len(u) = 1 .. Len(s)
    BY <1>1
  <2>2. ASSUME NEW i \in 1 .. Len(s)
        PROVE  u[i] = w[i] <=> s[Len(s) - i + 1] = t[Len(t) - i + 1]
    <3>1. u[i] = s[Len(s) - i + 1] /\ w[i] = t[Len(t) - i + 1]
      BY <1>4, <1>5
    <3> QED BY <3>1, Zenon
  <2> QED BY <2>1, <2>2, Zenon
<1>6. (Len(u) <= Len(w)) <=> (Len(s) <= Len(t))
  BY <1>1
<1> QED BY <1>2, <1>3, <1>5, <1>6

(* What a key does to the end of the row it does to the buffer.            *)
LEMMA EmptyEnd ==
  ASSUME NEW S, NEW t \in Seq(S)
  PROVE  IsSuffix(<<>>, t)
<1>1. <<>> \in Seq(S) /\ Len(<<>>) <= Len(t) /\ 1 .. Len(<<>>) = {}
  BY SMT
<1>2. \A i \in 1 .. Len(<<>>) : <<>>[Len(<<>>) - i + 1] = t[Len(t) - i + 1]
  BY <1>1, Zenon
<1> QED BY <1>1, <1>2, EndsAgree, Zenon

(* A token that is stored and shown.                                       *)
LEMMA LongerEnd ==
  ASSUME NEW S, NEW s \in Seq(S), NEW t \in Seq(S), NEW x \in S, IsSuffix(s, t)
  PROVE  IsSuffix(Append(s, x), t \o <<x>>)
<1> DEFINE u == Append(s, x)
           w == t \o <<x>>
<1>1. /\ u \in Seq(S) /\ w \in Seq(S) /\ Len(s) \in Nat /\ Len(t) \in Nat
      /\ Len(u) = Len(s) + 1 /\ Len(w) = Len(t) + 1
      /\ u[Len(s) + 1] = x /\ w[Len(t) + 1] = x
      /\ \A i \in 1 .. Len(s) : u[i] = s[i]
      /\ \A i \in 1 .. Len(t) : w[i] = t[i]
  BY SMT
<1>2. Len(s) <= Len(t) /\ \A i \in 1 .. Len(s) : s[Len(s) - i + 1] = t[Len(t) - i + 1]
  BY EndsAgree
<1> HIDE DEF u, w
<1>3. ASSUME NEW i \in 1 .. Len(u)
      PROVE  u[Len(u) - i + 1] = w[Len(w) - i + 1]
  <2>1. CASE i = 1
    BY <1>1, <2>1, SMT
  <2>2. CASE i # 1
    <3>1. i - 1 \in 1 .. Len(s) /\ Len(s) - (i - 1) + 1 \in 1 .. Len(s)
          /\ Len(t) - (i - 1) + 1 \in 1 .. Len(t)
      BY <1>1, <1>2, <2>2, SMT
    <3>2. Len(u) - i + 1 = Len(s) - (i - 1) + 1 /\ Len(w) - i + 1 = Len(t) - (i - 1) + 1
      BY <1>1, SMT
    <3>3. s[Len(s) - (i - 1) + 1] = t[Len(t) - (i - 1) + 1]
      BY <1>2, <3>1, Zenon
    <3>4. /\ u[Len(s) - (i - 1) + 1] = s[Len(s) - (i - 1) + 1]
          /\ w[Len(t) - (i - 1) + 1] = t[Len(t) - (i - 1) + 1]
      BY <1>1, <3>1, Zenon
    <3> QED BY <3>2, <3>3, <3>4, Zenon
  <2> QED BY <2>1, <2>2
<1>4. Len(u) <= Len(w)
  BY <1>1, <1>2, SMT
<1> QED BY <1>1, <1>3, <1>4, EndsAgree DEF u, w

(* What is left without the last element.                                  *)
LEMMA Fronts ==
  ASSUME NEW S, NEW s \in Seq(S), Len(s) \in Nat \ {0}
  PROVE  /\ Front(s) \in Seq(S) /\ Len(Front(s)) = Len(s) - 1
         /\ \A i \in 1 .. Len(s) - 1 : Front(s)[i] = s[i]
<1> DEFINE n == Len(s) - 1
<1>1. n \in Nat /\ n <= Len(s) /\ \A i \in 1 .. n : i \in 1 .. Len(s) /\ s[i] \in S
  BY SMT
<1> HIDE DEF n
<1>2. /\ SubSeq(s, 1, n) \in Seq(S) /\ Len(SubSeq(s, 1, n)) = n
      /\ \A i \in 1 .. n : SubSeq(s, 1, n)[i] = s[i]
  BY <1>1, SMT
<1> QED BY <1>2, Zenon DEF Front, n

(* A character that is taken back, from the buffer and from the screen.    *)
LEMMA ShorterEnd ==
  ASSUME NEW S, NEW s \in Seq(S), NEW t \in Seq(S), s # <<>>, IsSuffix(s, t)
  PROVE  t # <<>> /\ Front(s) \in Seq(S) /\ Len(Front(s)) = Len(s) - 1
         /\ Front(t) \in Seq(S) /\ IsSuffix(Front(s), Front(t))
<1> DEFINE u == Front(s)
           w == Front(t)
<1>1. Len(s) <= Len(t) /\ \A i \in 1 .. Len(s) : s[Len(s) - i + 1] = t[Len(t) - i + 1]
  BY EndsAgree
<1>2. Len(s) \in Nat \ {0} /\ Len(t) \in Nat \ {0}
  BY <1>1, SMT
<1>f. /\ u \in Seq(S) /\ Len(u) = Len(s) - 1
      /\ \A i \in 1 .. Len(s) - 1 : u[i] = s[i]
  BY <1>2, Fronts
<1>t. /\ w \in Seq(S) /\ Len(w) = Len(t) - 1
      /\ \A i \in 1 .. Len(t) - 1 : w[i] = t[i]
  BY <1>2, Fronts
<1>3. /\ u \in Seq(S) /\ w \in Seq(S) /\ Len(u) = Len(s) - 1 /\ Len(w) = Len(t) - 1
      /\ \A i \in 1 .. Len(s) - 1 : u[i] = s[i]
      /\ \A i \in 1 .. Len(t) - 1 : w[i] = t[i]
  BY <1>f, <1>t, Zenon
<1> HIDE DEF u, w
<1>4. ASSUME NEW i \in 1 .. Len(u)
      PROVE  u[Len(u) - i + 1] = w[Len(w) - i + 1]
  <2>1. i + 1 \in 1 .. Len(s) /\ Len(u) - i + 1 \in 1 .. Len(s) - 1
        /\ Len(w) - i + 1 \in 1 .. Len(t) - 1
    BY <1>1, <1>2, <1>3, SMT
  <2>2. Len(u) - i + 1 = Len(s) - (i + 1) + 1 /\ Len(w) - i + 1 = Len(t) - (i + 1) + 1
    BY <1>2, <1>3, SMT
  <2>3. s[Len(s) - (i + 1) + 1] = t[Len(t) - (i + 1) + 1]
    BY <1>1, <2>1
  <2>4. u[Len(u) - i + 1] = s[Len(u) - i + 1] /\ w[Len(w) - i + 1] = t[Len(w) - i + 1]
    BY <1>3, <2>1
  <2> QED BY <2>2, <2>3, <2>4, Zenon
<1>5. Len(u) <= Len(w)
  BY <1>1, <1>2, <1>3, SMT
<1>6. IsSuffix(u, w)
  BY <1>3, <1>4, <1>5, EndsAgree
<1>7. t # <<>>
  BY <1>2, SMT
<1> QED BY <1>3, <1>6, <1>7 DEF u, w

-----------------------------------------------------------------------------
LEMMA Least ==
  ASSUME NEW T, T \subseteq Nat, T # {}
  PROVE  \E m \in T : \A n \in T : m <= n
<1>1. PICK x \in T : \A y \in T : ~(<<y, x>> \in OpToRel(<, Nat))
  BY NatLessThanWellFounded, WFMin
<1>2. \A y \in T : ~(y < x)
  BY <1>1 DEF OpToRel
<1>3. \A y \in T : x <= y
  BY <1>2
<1> QED BY <1>3

(* Induction over the numbers, for a set. *)
LEMMA NatInd ==
  ASSUME NEW T, 0 \in T, \A n \in Nat : n \in T => n + 1 \in T
  PROVE  Nat \subseteq T
<1>1. SUFFICES ASSUME Nat \ T # {} PROVE FALSE
  OBVIOUS
<1>2. PICK m \in Nat \ T : \A n \in Nat \ T : m <= n
  BY <1>1, Least
<1>3. m # 0 /\ m - 1 \in Nat
  BY <1>2
<1>4. m - 1 \in T
  BY <1>2, <1>3
<1> QED BY <1>2, <1>3, <1>4

(* What a command holds, field by field.                                   *)
Fields == DOMAIN Command
Is(c, w, ps, inf, outf, has_in, has_out, wt) ==
  /\ c = [f \in Fields |-> c[f]]
  /\ c.command_name = w /\ c.parameters = ps
  /\ c.input_filename = inf /\ c.output_filename = outf
  /\ c.has_input_file = has_in /\ c.has_output_file = has_out /\ c.waits = wt

(* What a token leaves to wait for, when it is an operator.                *)
Waits(t, operator) == IF t.rest = NoName THEN operator ELSE "none"

LEMMA FieldNames ==
  Fields = {"command_name", "parameters", "input_filename", "output_filename",
            "has_input_file", "has_output_file", "waits"}
BY DEF Fields, Command

LEMMA CommandIsEmpty == Is(Command, NoName, <<>>, NoName, NoName, FALSE, FALSE, "none")
BY FieldNames DEF Is, Command

(* What a token does to a command whose name is known.                     *)
LEMMA TokenIsRead ==
  ASSUME NEW w, w # NoName, NEW ps, NEW inf, NEW outf, NEW has_in, NEW has_out, NEW wt, NEW c,
         Is(c, w, ps, inf, outf, has_in, has_out, wt), NEW t
  PROVE  /\ wt = "none" /\ t.head = "<" =>
              Is(Parse_Token(c, t), w, ps, t.rest, outf, TRUE, has_out, Waits(t, "<"))
         /\ wt = "none" /\ t.head = ">" =>
              Is(Parse_Token(c, t), w, ps, inf, t.rest, FALSE, TRUE, Waits(t, ">"))
         /\ wt = "none" /\ t.head \notin {"<", ">"} =>
              Is(Parse_Token(c, t), w, Append(ps, Written(t)), inf, outf, FALSE, FALSE, "none")
         /\ wt = "<" => Is(Parse_Token(c, t), w, ps, Written(t), outf, has_in, has_out, "none")
         /\ wt = ">" => Is(Parse_Token(c, t), w, ps, inf, Written(t), has_in, has_out, "none")
<1>1. c.command_name # NoName /\ c.waits = wt
  BY DEF Is
<1>2. /\ wt = "none" /\ t.head = "<" => Parse_Token(c, t) = Matches_Input(c, t)
      /\ wt = "none" /\ t.head = ">" => Parse_Token(c, t) = Matches_Output(c, t)
      /\ wt = "none" /\ t.head \notin {"<", ">"} => Parse_Token(c, t) = Is_Parameter(c, t)
      /\ wt \in {"<", ">"} => Parse_Token(c, t) = Takes_Name(c, t)
  BY <1>1 DEF Parse_Token
<1>3. Is(Matches_Input(c, t), w, ps, t.rest, outf, TRUE, has_out, Waits(t, "<"))
  <2>1. Matches_Input(c, t) = [c EXCEPT !.has_input_file = TRUE, !.input_filename = t.rest,
                                        !.waits = Waits(t, "<")]
    BY Zenon DEF Matches_Input, Waits
  <2> QED BY <2>1, FieldNames DEF Is
<1>4. Is(Matches_Output(c, t), w, ps, inf, t.rest, FALSE, TRUE, Waits(t, ">"))
  <2>1. Matches_Output(c, t) = [c EXCEPT !.has_input_file = FALSE, !.has_output_file = TRUE,
                                         !.output_filename = t.rest, !.waits = Waits(t, ">")]
    BY Zenon DEF Matches_Output, Waits
  <2> QED BY <2>1, FieldNames DEF Is
<1>5. Is(Is_Parameter(c, t), w, Append(ps, Written(t)), inf, outf, FALSE, FALSE, wt)
  BY FieldNames DEF Is_Parameter, Is
<1>6. wt = "<" => Is(Takes_Name(c, t), w, ps, Written(t), outf, has_in, has_out, "none")
  <2> SUFFICES ASSUME wt = "<"
               PROVE  Is(Takes_Name(c, t), w, ps, Written(t), outf, has_in, has_out, "none")
    OBVIOUS
  <2>1. Takes_Name(c, t) = [c EXCEPT !.input_filename = Written(t), !.waits = "none"]
    BY <1>1 DEF Takes_Name
  <2> QED BY <2>1, FieldNames DEF Is
<1>7. wt = ">" => Is(Takes_Name(c, t), w, ps, inf, Written(t), has_in, has_out, "none")
  <2> SUFFICES ASSUME wt = ">"
               PROVE  Is(Takes_Name(c, t), w, ps, inf, Written(t), has_in, has_out, "none")
    OBVIOUS
  <2>1. Takes_Name(c, t) = [c EXCEPT !.output_filename = Written(t), !.waits = "none"]
    BY <1>1 DEF Takes_Name
  <2> QED BY <2>1, FieldNames DEF Is
<1> QED BY <1>2, <1>3, <1>4, <1>5, <1>6, <1>7

(* What is read token by token or element by element is the end of a run,  *)
(* whose steps are of three kinds.                                         *)
Reading_Tokens == [name |-> "tokens"]
Dividing == [name |-> "parts"]
Selecting(places) == [name |-> "places", places |-> places]
Next_Value(kind, v, list, i) ==
  CASE kind.name = "tokens" -> Parse_Token(v, list[i])
    [] kind.name = "parts" -> Divided(v, list[i])
    [] OTHER -> IF i \in kind.places THEN Append(v, list[i]) ELSE v
IsRun(g, kind, base, list, n) ==
  g = [i \in 0 .. n |-> IF i = 0 THEN base ELSE Next_Value(kind, g[i - 1], list, i)]

LEMMA RunExists ==
  ASSUME NEW kind, NEW base, NEW list, NEW n \in Nat
  PROVE  \E g : IsRun(g, kind, base, list, n)
<1> DEFINE T == {m \in Nat : \E g : IsRun(g, kind, base, list, m)}
<1>1. 0 \in T
  <2> DEFINE g == [i \in 0 .. 0 |-> base]
  <2>1. IsRun(g, kind, base, list, 0)
    BY DEF IsRun
  <2> QED BY <2>1
<1>2. ASSUME NEW m \in Nat, m \in T  PROVE m + 1 \in T
  <2>1. PICK g : IsRun(g, kind, base, list, m)
    BY <1>2
  <2> DEFINE h == [i \in 0 .. (m + 1) |->
                     IF i = m + 1 THEN Next_Value(kind, g[m], list, i) ELSE g[i]]
  <2>2. ASSUME NEW i \in 0 .. (m + 1)
        PROVE  h[i] = IF i = 0 THEN base ELSE Next_Value(kind, h[i - 1], list, i)
    <3>1. CASE i = m + 1
      <4>1. h[i] = Next_Value(kind, g[m], list, i) /\ h[m] = g[m] /\ i - 1 = m /\ i # 0
        BY <3>1
      <4> HIDE DEF h
      <4> QED BY <3>1, <4>1
    <3>2. CASE i # m + 1
      <4>1. i \in 0 .. m /\ h[i] = g[i] /\ (i # 0 => h[i - 1] = g[i - 1])
        BY <3>2
      <4>2. g[i] = IF i = 0 THEN base ELSE Next_Value(kind, g[i - 1], list, i)
        BY <2>1, <4>1 DEF IsRun
      <4> HIDE DEF h
      <4> QED BY <4>1, <4>2
    <3> QED BY <3>1, <3>2
  <2>3. h = [i \in 0 .. (m + 1) |-> h[i]]
    OBVIOUS
  <2> HIDE DEF h
  <2>4. IsRun(h, kind, base, list, m + 1)
    BY <2>2, <2>3, Zenon DEF IsRun
  <2> QED BY <2>4
<1> HIDE DEF T
<1>3. n \in T
  BY <1>1, <1>2, NatInd
<1> QED BY <1>3 DEF T

LEMMA RunSteps ==
  ASSUME NEW g, NEW kind, NEW base, NEW list, NEW n \in Nat, IsRun(g, kind, base, list, n)
  PROVE  g[0] = base /\ \A i \in 1 .. n : g[i] = Next_Value(kind, g[i - 1], list, i)
BY DEF IsRun

(* The command as it is after each of the first n tokens.                  *)
IsReading(rd, part, n) == IsRun(rd, Reading_Tokens, Command, part, n)

(* There is such a reading, and its end is what is parsed.                 *)
LEMMA PartsAreRead ==
  ASSUME NEW S, NEW part \in Seq(S)
  PROVE  \E rd : IsReading(rd, part, Len(part)) /\ Parse_Command(part) = Ended(rd[Len(part)])
<1> DEFINE D(g) == g = [i \in 0 .. Len(part) |->
                    IF i = 0 THEN Command ELSE Parse_Token(g[i - 1], part[i])]
<1>1. Parse_Command(part) = Ended((CHOOSE g : D(g))[Len(part)])
  BY Zenon DEF Parse_Command
<1>2. \A v, i : Next_Value(Reading_Tokens, v, part, i) = Parse_Token(v, part[i])
  BY DEF Next_Value, Reading_Tokens
<1>3. \A g : D(g) <=> IsReading(g, part, Len(part))
  BY <1>2, Zenon DEF IsReading, IsRun
<1>4. \E g : IsReading(g, part, Len(part))
  <2>1. Len(part) \in Nat
    OBVIOUS
  <2> QED BY ONLY <2>1, RunExists DEF IsReading
<1> HIDE DEF D
<1> QED BY <1>1, <1>3, <1>4, Zenon

LEMMA ReadingSteps ==
  ASSUME NEW part, NEW n \in Nat, NEW rd, IsReading(rd, part, n)
  PROVE  rd[0] = Command /\ \A k \in 1 .. n : rd[k] = Parse_Token(rd[k - 1], part[k])
<1>1. rd[0] = Command /\ \A k \in 1 .. n : rd[k] = Next_Value(Reading_Tokens, rd[k - 1], part, k)
  BY RunSteps DEF IsReading
<1>2. \A v, i : Next_Value(Reading_Tokens, v, part, i) = Parse_Token(v, part[i])
  BY DEF Next_Value, Reading_Tokens
<1> QED BY <1>1, <1>2, Zenon

(* A redirection ends with its own token, or with the name behind it.      *)
EndOf(part, i) == IF part[i].rest # NoName THEN i ELSE i + 1

LEMMA RedirectionsAreRead ==
  ASSUME NEW part, NEW n \in Nat, NEW rd, IsReading(rd, part, n),
         NEW w, w # NoName, NEW ps, NEW inf, NEW outf, NEW has_in, NEW has_out,
         NEW i \in 2 .. n,
         Is(rd[i - 1], w, ps, inf, outf, has_in, has_out, "none"),
         part[i].rest # NoName \/ (i < n /\ part[i + 1].head = Plain)
  PROVE  /\ part[i].head = "<" =>
              Is(rd[EndOf(part, i)], w, ps, Name_Of(part, i), outf, TRUE, has_out, "none")
         /\ part[i].head = ">" =>
              Is(rd[EndOf(part, i)], w, ps, inf, Name_Of(part, i), FALSE, TRUE, "none")
<1>1. \A k \in 1 .. n : rd[k] = Parse_Token(rd[k - 1], part[k])
  BY ReadingSteps
<1>2. rd[i] = Parse_Token(rd[i - 1], part[i])
  BY <1>1
<1>3. /\ part[i].head = "<" =>
            Is(rd[i], w, ps, part[i].rest, outf, TRUE, has_out, Waits(part[i], "<"))
      /\ part[i].head = ">" =>
            Is(rd[i], w, ps, inf, part[i].rest, FALSE, TRUE, Waits(part[i], ">"))
  BY ONLY <1>2, w # NoName, Is(rd[i - 1], w, ps, inf, outf, has_in, has_out, "none"), TokenIsRead
<1>4. CASE part[i].rest # NoName
  BY <1>3, <1>4, Zenon DEF EndOf, Name_Of, Waits
<1>5. CASE part[i].rest = NoName
  <2>1. i + 1 \in 1 .. n /\ (i + 1) - 1 = i
    BY <1>5
  <2>2. rd[i + 1] = Parse_Token(rd[i], part[i + 1])
    BY <1>1, <2>1
  <2>3. Written(part[i + 1]) = part[i + 1].rest
    BY <1>5 DEF Written
  <2>4. EndOf(part, i) = i + 1 /\ Name_Of(part, i) = part[i + 1].rest
    BY <1>5 DEF EndOf, Name_Of
  <2>5. Waits(part[i], "<") = "<" /\ Waits(part[i], ">") = ">"
    BY <1>5 DEF Waits
  <2>6. part[i].head = "<" =>
          Is(rd[i + 1], w, ps, Written(part[i + 1]), outf, TRUE, has_out, "none")
    BY ONLY <1>3, <2>2, <2>5, w # NoName, TokenIsRead
  <2>7. part[i].head = ">" =>
          Is(rd[i + 1], w, ps, inf, Written(part[i + 1]), FALSE, TRUE, "none")
    BY ONLY <1>3, <2>2, <2>5, w # NoName, TokenIsRead
  <2> QED BY <2>3, <2>4, <2>6, <2>7, Zenon
<1> QED BY <1>4, <1>5

(* The end of a part changes nothing but a name that is waited for.        *)
LEMMA EndsAreRead ==
  ASSUME NEW w, NEW ps, NEW inf, NEW outf, NEW has_in, NEW has_out, NEW wt, NEW c,
         Is(c, w, ps, inf, outf, has_in, has_out, wt)
  PROVE  /\ Ended(c).command_name = w
         /\ wt = "none" => Ended(c) = c
<1>1. c.waits = wt /\ c.command_name = w
  BY DEF Is
<1>2. [c EXCEPT !.input_filename = "<", !.waits = "none"].command_name = w
  BY FieldNames DEF Is
<1>3. [c EXCEPT !.output_filename = ">", !.waits = "none"].command_name = w
  BY FieldNames DEF Is
<1> QED BY <1>1, <1>2, <1>3 DEF Ended

LEMMA NothingAwaited ==
  ASSUME NEW c, c.waits = "none"
  PROVE  Ended(c) = c
BY DEF Ended

(* The first token is the name of the command.                             *)
LEMMA NamesAreRead ==
  ASSUME NEW part, NEW n \in Nat, NEW rd, IsReading(rd, part, n), 1 <= n
  PROVE  Is(rd[1], Written(part[1]), <<>>, NoName, NoName, FALSE, FALSE, "none")
<1>1. rd[0] = Command /\ rd[1] = Parse_Token(rd[0], part[1])
  <2>1. 1 \in 1 .. n /\ 1 - 1 = 0
    OBVIOUS
  <2> QED BY <2>1, ReadingSteps
<1>2. Command.command_name = NoName
  BY DEF Command
<1>3. rd[1] = [Command EXCEPT !.command_name = Written(part[1])]
  BY <1>1, <1>2 DEF Parse_Token
<1> QED BY <1>3, CommandIsEmpty, FieldNames DEF Is

(* ... and stays it.                                                       *)
LEMMA NamesStay ==
  ASSUME NEW part, NEW n \in Nat, NEW rd, IsReading(rd, part, n), 1 <= n,
         Written(part[1]) # NoName
  PROVE  \E ps, inf, outf, has_in, has_out, wt :
           Is(rd[n], Written(part[1]), ps, inf, outf, has_in, has_out, wt)
<1> DEFINE P(k) == \E ps, inf, outf, has_in, has_out :
                     \E wt \in {"none", "<", ">"} :
                       Is(rd[k], Written(part[1]), ps, inf, outf, has_in, has_out, wt)
           T == {k \in Nat : k + 1 <= n => P(k + 1)}
<1>1. 0 \in T
  <2>1. P(1)
    BY NamesAreRead
  <2> HIDE DEF P
  <2> QED BY <2>1
<1>2. ASSUME NEW k \in Nat, k \in T  PROVE k + 1 \in T
  <2>1. SUFFICES ASSUME k + 2 <= n  PROVE P(k + 2)
    <3> HIDE DEF P
    <3> QED OBVIOUS
  <2>2. P(k + 1)
    <3> HIDE DEF P
    <3> QED BY <1>2, <2>1
  <2>3. rd[k + 2] = Parse_Token(rd[k + 1], part[k + 2])
    <3>1. k + 2 \in 1 .. n /\ (k + 2) - 1 = k + 1
      BY <2>1
    <3> QED BY <3>1, ReadingSteps
  <2>4. PICK ps, inf, outf, has_in, has_out :
               \E wt \in {"none", "<", ">"} :
                 Is(rd[k + 1], Written(part[1]), ps, inf, outf, has_in, has_out, wt)
    BY <2>2
  <2>5. PICK wt \in {"none", "<", ">"} :
               Is(rd[k + 1], Written(part[1]), ps, inf, outf, has_in, has_out, wt)
    BY <2>4
  <2> DEFINE t == part[k + 2]
             c == Parse_Token(rd[k + 1], t)
             w == Written(part[1])
  <2>6. /\ wt = "none" /\ t.head = "<" => Is(c, w, ps, t.rest, outf, TRUE, has_out, Waits(t, "<"))
        /\ wt = "none" /\ t.head = ">" => Is(c, w, ps, inf, t.rest, FALSE, TRUE, Waits(t, ">"))
        /\ wt = "none" /\ t.head \notin {"<", ">"} =>
             Is(c, w, Append(ps, Written(t)), inf, outf, FALSE, FALSE, "none")
        /\ wt = "<" => Is(c, w, ps, Written(t), outf, has_in, has_out, "none")
        /\ wt = ">" => Is(c, w, ps, inf, Written(t), has_in, has_out, "none")
    <3> HIDE DEF t, w
    <3> QED BY ONLY <2>5, Written(part[1]) # NoName, TokenIsRead DEF w
  <2>7. Waits(t, "<") \in {"none", "<", ">"} /\ Waits(t, ">") \in {"none", "<", ">"}
    BY DEF Waits
  <2> HIDE DEF t, c, w
  <2>8. rd[k + 2] = c
    BY <2>3 DEF c, t
  <2> QED BY <2>5, <2>6, <2>7, <2>8, Zenon DEF w
<1> HIDE DEF P
<1>3. \A k \in Nat : k \in T
  <2> HIDE DEF T
  <2> QED BY <1>1, <1>2, NatInd
<1>4. n - 1 \in Nat /\ (n - 1) + 1 = n
  OBVIOUS
<1>5. P(n)
  BY <1>3, <1>4
<1> QED BY <1>5, Zenon DEF P

(* The words before the first redirection are kept in their order.         *)
WordsTo(part, k) == [j \in 1 .. (k - 1) |-> Written(part[j + 1])]

LEMMA WordsGrow ==
  ASSUME NEW part, NEW k \in Nat \ {0}
  PROVE  Append(WordsTo(part, k), Written(part[k + 1])) = WordsTo(part, k + 1)
<1> DEFINE U == {Written(part[j + 1]) : j \in 1 .. k}
           p == WordsTo(part, k)
           q == WordsTo(part, k + 1)
           x == Written(part[k + 1])
<1>1. /\ p \in Seq(U) /\ Len(p) = k - 1 /\ \A j \in 1 .. (k - 1) : p[j] = Written(part[j + 1])
      /\ q \in Seq(U) /\ Len(q) = k /\ \A j \in 1 .. k : q[j] = Written(part[j + 1])
      /\ x \in U
  <2>1. \A j \in 1 .. k : Written(part[j + 1]) \in U
    OBVIOUS
  <2>2. k \in 1 .. k /\ k - 1 \in Nat /\ (k + 1) - 1 = k
    OBVIOUS
  <2>3. \A j \in 1 .. (k - 1) : j \in 1 .. k
    OBVIOUS
  <2> HIDE DEF U
  <2> QED BY <2>1, <2>2, <2>3 DEF WordsTo
<1> HIDE DEF U, p, q
<1>2. Append(p, x) \in Seq(U) /\ Len(Append(p, x)) = k
  BY <1>1
<1>3. ASSUME NEW j \in 1 .. k  PROVE Append(p, x)[j] = q[j]
  BY <1>1
<1>4. Append(p, x) = q
  <2>1. Len(q) = k
    BY <1>1
  <2> QED BY ONLY <1>1, <1>2, <1>3, <2>1, SeqEqual
<1> QED BY <1>4 DEF p, q

LEMMA WordsAreRead ==
  ASSUME NEW part, NEW n \in Nat, NEW rd, IsReading(rd, part, n), Written(part[1]) # NoName,
         NEW m \in 1 .. n, \A k \in 2 .. m : part[k].head \notin {"<", ">"}
  PROVE  Is(rd[m], Written(part[1]), WordsTo(part, m), NoName, NoName, FALSE, FALSE, "none")
<1> DEFINE w == Written(part[1])
           P(k) == Is(rd[k], w, WordsTo(part, k), NoName, NoName, FALSE, FALSE, "none")
           T == {k \in Nat : k + 1 <= m => P(k + 1)}
<1>1. 0 \in T
  <2>1. WordsTo(part, 1) = <<>>
    BY DEF WordsTo
  <2>2. 1 <= n
    OBVIOUS
  <2>3. Is(rd[1], w, <<>>, NoName, NoName, FALSE, FALSE, "none")
    BY <2>2, NamesAreRead
  <2>4. P(1)
    BY <2>1, <2>3
  <2> HIDE DEF P
  <2> QED BY <2>4
<1>2. ASSUME NEW k \in Nat, k \in T  PROVE k + 1 \in T
  <2>1. SUFFICES ASSUME k + 2 <= m  PROVE P(k + 2)
    <3> HIDE DEF P
    <3> QED OBVIOUS
  <2>2. P(k + 1)
    <3> HIDE DEF P
    <3> QED BY <1>2, <2>1
  <2>3. rd[k + 2] = Parse_Token(rd[k + 1], part[k + 2])
    <3>1. k + 2 \in 1 .. n /\ (k + 2) - 1 = k + 1
      BY <2>1
    <3> QED BY <3>1, ReadingSteps
  <2>4. part[k + 2].head \notin {"<", ">"}
    BY <2>1
  <2> DEFINE c == rd[k + 1]
             ps == WordsTo(part, k + 1)
             t == part[k + 2]
  <2>5. Append(ps, Written(t)) = WordsTo(part, k + 2)
    <3>1. k + 1 \in Nat \ {0} /\ (k + 1) + 1 = k + 2
      OBVIOUS
    <3> QED BY <3>1, WordsGrow
  <2>6. Is(Parse_Token(c, t), w, Append(ps, Written(t)), NoName, NoName, FALSE, FALSE, "none")
    <3>1. Is(c, w, ps, NoName, NoName, FALSE, FALSE, "none") /\ w # NoName /\ t.head \notin {"<", ">"}
      BY <2>2, <2>4
    <3> HIDE DEF c, ps, t, w
    <3> QED BY ONLY <3>1, TokenIsRead
  <2> HIDE DEF w
  <2> QED BY <2>3, <2>5, <2>6
<1> HIDE DEF P
<1>3. \A k \in Nat : k \in T
  <2> HIDE DEF T
  <2> QED BY <1>1, <1>2, NatInd
<1>4. m - 1 \in Nat /\ (m - 1) + 1 = m
  OBVIOUS
<1>5. P(m)
  BY <1>3, <1>4
<1> QED BY <1>5 DEF P

(* The words of an orderly part stand before its first redirection.        *)
LEMMA WordsAreMeant ==
  ASSUME NEW part, Len(part) \in Nat, NEW m \in 1 .. Len(part),
         (2 .. Len(part)) \ (Redirections(part) \cup Named(part)) = 2 .. m
  PROVE  Words_Meant(part) = WordsTo(part, m)
<1>1. Cardinality(2 .. m) = m - 1
  <2>1. 2 \in Int /\ m \in Int
    OBVIOUS
  <2>2. Cardinality(2 .. m) = IF 2 > m THEN 0 ELSE m - 2 + 1
    BY <2>1, FS_Interval
  <2> QED BY <2>2
<1> QED BY <1>1 DEF Words_Meant, WordsTo

(* A part with at most one redirection of each kind, that of the output    *)
(* first: the four ways it can look.                                       *)
Looks(part, m) ==
  \/ /\ Redirections(part) = {} /\ Len(part) = m
  \/ /\ Redirections(part) = {m + 1} /\ EndOf(part, m + 1) = Len(part)
  \/ /\ part[m + 1].head = ">" /\ part[EndOf(part, m + 1) + 1].head = "<"
     /\ Redirections(part) = {m + 1, EndOf(part, m + 1) + 1}
     /\ EndOf(part, EndOf(part, m + 1) + 1) = Len(part)

LEMMA OrderlyLooks ==
  ASSUME NEW part, Len(part) \in Nat, 1 <= Len(part), Orderly(part)
  PROVE  \E m \in 1 .. Len(part) : Looks(part, m)
<1> DEFINE n == Len(part)
           ops == Redirections(part)
           End(i) == EndOf(part, i)
<1>1. /\ ops = {i \in 2 .. n : part[i].head \in {"<", ">"}}
      /\ \A i \in ops : part[i].rest # NoName \/ (i < n /\ part[i + 1].head = Plain)
      /\ \A i \in ops, j \in 2 .. n : j > i => j \in ops \cup Named(part)
      /\ \A i, j \in ops : i < j => part[i].head = ">" /\ part[j].head = "<"
      /\ Named(part) = {i + 1 : i \in {j \in ops : part[j].rest = NoName}}
      /\ \A i : End(i) = IF part[i].rest # NoName THEN i ELSE i + 1
  BY DEF Orderly, Redirections, Named, EndOf
<1>2. Plain \notin {"<", ">"}
  BY DEF Plain
<1> HIDE DEF n, ops, End
<1>n. n \in Nat /\ 1 <= n
  BY DEF n
<1>3. \A i \in ops : End(i) \in i .. n /\ (\A j \in ops : i < j => End(i) < j)
  <2> TAKE i \in ops
  <2>1. CASE part[i].rest # NoName
    BY <1>1, <1>n, <2>1
  <2>2. CASE part[i].rest = NoName
    <3>1. i < n /\ part[i + 1].head = Plain /\ End(i) = i + 1 /\ i \in 2 .. n
      BY <1>1, <2>2
    <3>2. i + 1 \notin ops
      BY <1>1, <1>2, <3>1
    <3> QED BY <1>1, <1>n, <3>1, <3>2
  <2> QED BY <2>1, <2>2
<1>4. ASSUME NEW i \in ops, End(i) < n  PROVE End(i) + 1 \in ops
  <2>1. End(i) + 1 \in 2 .. n /\ End(i) + 1 > i /\ i \in 2 .. n
    BY <1>1, <1>3, <1>4, <1>n
  <2>2. End(i) + 1 \in ops \cup Named(part)
    BY <1>1, <2>1
  <2>3. ASSUME End(i) + 1 \in Named(part)  PROVE FALSE
    <3>1. PICK j \in ops : part[j].rest = NoName /\ End(i) + 1 = j + 1
      BY <1>1, <2>3
    <3>2. j = End(i) /\ j \in 2 .. n
      BY <1>1, <1>3, <3>1
    <3>3. CASE part[i].rest # NoName
      BY <1>1, <3>1, <3>2, <3>3
    <3>4. CASE part[i].rest = NoName
      BY <1>1, <1>2, <3>2, <3>4
    <3> QED BY <3>3, <3>4
  <2> QED BY <2>2, <2>3
<1>5. CASE ops = {}
  BY <1>5, <1>n DEF Looks, ops, n
<1>6. CASE ops # {}
  <2>1. ops \subseteq Nat
    BY <1>1
  <2>2. PICK a \in ops : \A j \in ops : a <= j
    BY <1>6, <2>1, Least
  <2>3. a \in 2 .. n /\ a - 1 \in 1 .. n /\ (a - 1) + 1 = a
    BY <1>1, <1>n, <2>2
  <2>4. CASE End(a) = n
    <3>1. ASSUME NEW j \in ops  PROVE j = a
      BY <1>1, <1>3, <2>2, <2>3, <2>4
    <3>2. ops = {a}
      BY <2>2, <3>1
    <3> QED BY <2>3, <2>4, <3>2 DEF Looks, n, ops, End
  <2>5. CASE End(a) # n
    <3>1. End(a) < n
      BY <1>3, <1>n, <2>3, <2>5
    <3> DEFINE b == End(a) + 1
    <3>2. b \in ops /\ a < b /\ b \in 2 .. n
      <4>1. b \in ops
        BY <1>4, <3>1
      <4>2. End(a) \in a .. n
        BY <1>3
      <4> QED BY <1>1, <2>3, <4>1, <4>2
    <3> HIDE DEF b
    <3>3. part[a].head = ">" /\ part[b].head = "<"
      BY <1>1, <3>2
    <3>4. ASSUME NEW j \in ops, j # a, j # b  PROVE FALSE
      <4>1. j \in 2 .. n /\ a < j
        BY <1>1, <2>2, <2>3, <3>4
      <4>2. CASE b < j
        <5>1. part[b].head = ">"
          BY <1>1, <3>2, <4>2
        <5> QED BY <3>3, <5>1
      <4>3. CASE j < b
        <5>1. End(a) < j
          BY <1>3, <4>1
        <5>2. End(a) \in a .. n
          BY <1>3
        <5> QED BY <2>3, <4>1, <4>3, <5>1, <5>2 DEF b
      <4> QED BY <3>2, <3>4, <4>1, <4>2, <4>3
    <3>5. ops = {a, b}
      BY <2>2, <3>2, <3>4
    <3>6. End(b) = n
      <4>1. SUFFICES ASSUME End(b) # n  PROVE FALSE
        OBVIOUS
      <4>2. End(b) \in b .. n
        BY <1>3, <3>2
      <4>3. End(b) + 1 \in ops
        BY <1>4, <1>n, <3>2, <4>1, <4>2
      <4> QED BY <3>2, <3>5, <4>2, <4>3
    <3> QED BY <2>3, <3>3, <3>5, <3>6 DEF Looks, n, ops, End, b
  <2> QED BY <2>4, <2>5
<1> QED BY <1>5, <1>6

(* How an orderly part is parsed.                                          *)
LEMMA OrderlyIsRead ==
  ASSUME NEW S, NEW part \in Seq(S), part # <<>>, Written(part[1]) # NoName, Orderly(part)
  PROVE  /\ Input_Meant(part) = IF Parse_Command(part).has_input_file
                                THEN {Parse_Command(part).input_filename} ELSE {}
         /\ Output_Meant(part) = IF Parse_Command(part).has_output_file
                                 THEN {Parse_Command(part).output_filename} ELSE {}
         /\ Parse_Command(part).parameters = Words_Meant(part)
<1> DEFINE n == Len(part)
           w == Written(part[1])
           ops == Redirections(part)
<1>n. n \in Nat /\ 1 <= n
  OBVIOUS
<1>1. PICK rd : IsReading(rd, part, n) /\ Parse_Command(part) = Ended(rd[n])
  BY PartsAreRead
<1>2. PICK m \in 1 .. n : Looks(part, m)
  BY <1>n, OrderlyLooks
<1> DEFINE a == m + 1
           b == EndOf(part, a) + 1
           ps == WordsTo(part, m)
<1>3. /\ ops = {i \in 2 .. n : part[i].head \in {"<", ">"}}
      /\ \A i \in ops : part[i].rest # NoName \/ (i < n /\ part[i + 1].head = Plain)
      /\ Named(part) = {i + 1 : i \in {j \in ops : part[j].rest = NoName}}
      /\ Input_Meant(part) = {Name_Of(part, i) : i \in {j \in ops : part[j].head = "<"}}
      /\ Output_Meant(part) = {Name_Of(part, i) : i \in {j \in ops : part[j].head = ">"}}
  BY DEF Orderly, Redirections, Named, Input_Meant, Output_Meant
<1>e. \A i : EndOf(part, i) = IF part[i].rest # NoName THEN i ELSE i + 1
  BY DEF EndOf
<1>l. \/ ops = {} /\ n = m
      \/ ops = {a} /\ EndOf(part, a) = n
      \/ /\ part[a].head = ">" /\ part[b].head = "<" /\ ops = {a, b} /\ EndOf(part, b) = n
  BY <1>2 DEF Looks
<1> HIDE DEF ops, n, w
<1>4. \A k \in 2 .. m : part[k].head \notin {"<", ">"}
  <2>1. SUFFICES ASSUME NEW k \in 2 .. m, k \in ops  PROVE FALSE
    BY <1>3, <1>n
  <2>2. k < a /\ a <= EndOf(part, a) /\ k < b
    BY <1>e, <1>n
  <2> QED BY <1>l, <2>1, <2>2
<1>5. Is(rd[m], w, ps, NoName, NoName, FALSE, FALSE, "none")
  BY <1>1, <1>4, <1>n, WordsAreRead DEF w
<1>w. w # NoName
  BY DEF w
<1>6. ops \cup Named(part) = (m + 1) .. n
  <2>1. CASE ops = {} /\ n = m
    BY <1>3, <1>n, <2>1
  <2>2. CASE ops = {a} /\ EndOf(part, a) = n
    <3>1. Named(part) = IF part[a].rest = NoName THEN {a + 1} ELSE {}
      <4> HIDE DEF a
      <4> QED BY <1>3, <2>2
    <3>2. n = IF part[a].rest = NoName THEN a + 1 ELSE a
      BY <1>e, <2>2
    <3> QED BY <1>n, <2>2, <3>1, <3>2
  <2>3. CASE ops = {a, b} /\ EndOf(part, b) = n
    <3>1. Named(part) = (IF part[a].rest = NoName THEN {a + 1} ELSE {})
                        \cup (IF part[b].rest = NoName THEN {b + 1} ELSE {})
      <4> HIDE DEF a, b
      <4> QED BY <1>3, <2>3
    <3>2. /\ b = (IF part[a].rest = NoName THEN a + 1 ELSE a) + 1
          /\ n = (IF part[b].rest = NoName THEN b + 1 ELSE b)
      BY <1>e, <2>3
    <3> QED BY <1>n, <2>3, <3>1, <3>2
  <2> QED BY <1>l, <2>1, <2>2, <2>3
<1>7. Words_Meant(part) = ps
  <2>1. (2 .. n) \ ((m + 1) .. n) = 2 .. m
    BY <1>n
  <2> QED BY <1>6, <1>n, <2>1, WordsAreMeant DEF n, ops
<1>r. ASSUME NEW i \in ops, NEW inf, NEW outf, NEW has_in, NEW has_out,
             Is(rd[i - 1], w, ps, inf, outf, has_in, has_out, "none")
      PROVE  /\ part[i].head = "<" =>
                  Is(rd[EndOf(part, i)], w, ps, Name_Of(part, i), outf, TRUE, has_out, "none")
             /\ part[i].head = ">" =>
                  Is(rd[EndOf(part, i)], w, ps, inf, Name_Of(part, i), FALSE, TRUE, "none")
  <2>1. i \in 2 .. n /\ (part[i].rest # NoName \/ (i < n /\ part[i + 1].head = Plain))
    BY <1>3
  <2>2. Is(rd[i - 1], w, ps, inf, outf, has_in, has_out, "none")
    BY <1>r
  <2>3. IsReading(rd, part, n) /\ n \in Nat
    BY <1>1, <1>n
  <2> HIDE DEF ps
  <2> QED BY ONLY <1>w, <2>1, <2>2, <2>3, RedirectionsAreRead
<1>8. a - 1 = m /\ b - 1 = EndOf(part, a)
  BY <1>e, <1>n
<1> HIDE DEF a, b, ps
<1>9. CASE ops = {} /\ n = m
  <2>1. Parse_Command(part) = rd[m]
    <3>1. rd[m].waits = "none"
      BY <1>5 DEF Is
    <3> QED BY <1>1, <1>9, <3>1, NothingAwaited
  <2>2. Input_Meant(part) = {} /\ Output_Meant(part) = {}
    BY <1>3, <1>9
  <2>3. ~rd[m].has_input_file /\ ~rd[m].has_output_file /\ rd[m].parameters = ps
    BY <1>5 DEF Is
  <2> QED BY <1>7, <2>1, <2>2, <2>3
<1>10. CASE ops = {a} /\ EndOf(part, a) = n
  <2>1. a \in ops /\ part[a].head \in {"<", ">"}
    BY <1>10, <1>3
  <2>2. /\ part[a].head = "<" =>
             Is(rd[n], w, ps, Name_Of(part, a), NoName, TRUE, FALSE, "none")
        /\ part[a].head = ">" =>
             Is(rd[n], w, ps, NoName, Name_Of(part, a), FALSE, TRUE, "none")
    BY <1>10, <1>5, <1>8, <1>r, <2>1
  <2>3. CASE part[a].head = "<"
    <3>1. Input_Meant(part) = {Name_Of(part, a)} /\ Output_Meant(part) = {}
      BY <1>10, <1>3, <2>3
    <3>2. Is(rd[n], w, ps, Name_Of(part, a), NoName, TRUE, FALSE, "none")
      BY <2>2, <2>3
    <3>3. Parse_Command(part) = rd[n]
      <4>1. rd[n].waits = "none"
        BY <3>2 DEF Is
      <4> QED BY <1>1, <4>1, NothingAwaited
    <3>4. /\ rd[n].has_input_file /\ rd[n].input_filename = Name_Of(part, a)
          /\ ~rd[n].has_output_file /\ rd[n].parameters = ps
      BY <3>2 DEF Is
    <3> QED BY <1>7, <3>1, <3>3, <3>4
  <2>4. CASE part[a].head = ">"
    <3>1. Input_Meant(part) = {} /\ Output_Meant(part) = {Name_Of(part, a)}
      BY <1>10, <1>3, <2>4
    <3>2. Is(rd[n], w, ps, NoName, Name_Of(part, a), FALSE, TRUE, "none")
      BY <2>2, <2>4
    <3>3. Parse_Command(part) = rd[n]
      <4>1. rd[n].waits = "none"
        BY <3>2 DEF Is
      <4> QED BY <1>1, <4>1, NothingAwaited
    <3>4. /\ ~rd[n].has_input_file /\ rd[n].output_filename = Name_Of(part, a)
          /\ rd[n].has_output_file /\ rd[n].parameters = ps
      BY <3>2 DEF Is
    <3> QED BY <1>7, <3>1, <3>3, <3>4
  <2> QED BY <2>1, <2>3, <2>4
<1>11. CASE /\ part[a].head = ">" /\ part[b].head = "<" /\ ops = {a, b} /\ EndOf(part, b) = n
  <2>1. Is(rd[b - 1], w, ps, NoName, Name_Of(part, a), FALSE, TRUE, "none")
    BY <1>11, <1>5, <1>8, <1>r
  <2>2. Is(rd[n], w, ps, Name_Of(part, b), Name_Of(part, a), TRUE, TRUE, "none")
    BY <1>11, <1>r, <2>1
  <2>3. Input_Meant(part) = {Name_Of(part, b)} /\ Output_Meant(part) = {Name_Of(part, a)}
    BY <1>11, <1>3
  <2>4. Parse_Command(part) = rd[n]
    <3>1. rd[n].waits = "none"
      BY <2>2 DEF Is
    <3> QED BY <1>1, <3>1, NothingAwaited
  <2>5. /\ rd[n].has_input_file /\ rd[n].output_filename = Name_Of(part, a)
        /\ rd[n].has_output_file /\ rd[n].input_filename = Name_Of(part, b)
        /\ rd[n].parameters = ps
    BY <2>2 DEF Is
  <2> QED BY <1>7, <2>3, <2>4, <2>5
<1> QED BY <1>9, <1>10, <1>11, <1>l

(* The name of a command is the first word of its part, and a part without *)
(* tokens has none.                                                        *)
LEMMA NameIsRead ==
  ASSUME NEW S, NEW part \in Seq(S), \A t \in S : Written(t) # NoName
  PROVE  /\ part # <<>> => Parse_Command(part).command_name = Written(part[1])
         /\ Parse_Command(part).command_name # NoName <=> part # <<>>
<1>1. PICK rd : IsReading(rd, part, Len(part)) /\ Parse_Command(part) = Ended(rd[Len(part)])
  BY PartsAreRead
<1>2. CASE part = <<>>
  <2>1. Len(part) = 0
    BY <1>2
  <2>2. rd[0] = Command
    BY <1>1, <2>1, ReadingSteps
  <2>3. Command.waits = "none" /\ Command.command_name = NoName
    BY DEF Command
  <2>4. Parse_Command(part).command_name = NoName
    BY <1>1, <2>1, <2>2, <2>3, NothingAwaited
  <2> QED BY <1>2, <2>4
<1>3. CASE part # <<>>
  <2>1. Len(part) \in Nat /\ 1 <= Len(part) /\ Written(part[1]) # NoName
    BY <1>3
  <2>2. PICK ps, inf, outf, has_in, has_out, wt :
          Is(rd[Len(part)], Written(part[1]), ps, inf, outf, has_in, has_out, wt)
    BY <1>1, <2>1, NamesStay
  <2>3. Parse_Command(part).command_name = Written(part[1])
    BY <1>1, <2>2, EndsAreRead
  <2> QED BY <1>3, <2>1, <2>3
<1> QED BY <1>2, <1>3

-----------------------------------------------------------------------------
(* Elements at the same places of two lists of the same length are         *)
(* selected alike.                                                         *)
LEMMA SelectedRun ==
  ASSUME NEW S, NEW list \in Seq(S), NEW places
  PROVE  \E g : IsRun(g, Selecting(places), <<>>, list, Len(list))
               /\ Selected(list, places) = g[Len(list)]
<1> DEFINE D(g) == g = [i \in 0 .. Len(list) |->
                    IF i = 0 THEN <<>>
                    ELSE IF i \in places THEN Append(g[i - 1], list[i]) ELSE g[i - 1]]
<1>1. Selected(list, places) = (CHOOSE g : D(g))[Len(list)]
  BY Zenon DEF Selected
<1>2. \A v, i : Next_Value(Selecting(places), v, list, i)
                = IF i \in places THEN Append(v, list[i]) ELSE v
  BY DEF Next_Value, Selecting
<1>3. \A g : D(g) <=> IsRun(g, Selecting(places), <<>>, list, Len(list))
  BY <1>2, Zenon DEF IsRun
<1>4. \E g : IsRun(g, Selecting(places), <<>>, list, Len(list))
  <2>1. Len(list) \in Nat
    OBVIOUS
  <2> QED BY ONLY <2>1, RunExists
<1> HIDE DEF D
<1> QED BY <1>1, <1>3, <1>4, Zenon

SameChoice(p, q, a, b, places) ==
  /\ Len(p) = Len(q)
  /\ \A k \in 1 .. Len(p) :
       \E j \in 1 .. Len(a) : j \in places /\ p[k] = a[j] /\ q[k] = b[j]
LEMMA SelectedAlike ==
  ASSUME NEW A, NEW B, NEW a \in Seq(A), NEW b \in Seq(B), Len(a) = Len(b), NEW places
  PROVE  /\ Selected(a, places) \in Seq(A) /\ Selected(b, places) \in Seq(B)
         /\ SameChoice(Selected(a, places), Selected(b, places), a, b, places)
<1> DEFINE n == Len(a)
           Alike(p, q) == /\ p \in Seq(A) /\ q \in Seq(B) /\ Len(p) = Len(q)
                          /\ \A k \in 1 .. Len(p) :
                               \E j \in 1 .. n : j \in places /\ p[k] = a[j] /\ q[k] = b[j]
<1>n. n \in Nat
  OBVIOUS
<1>1. PICK g : IsRun(g, Selecting(places), <<>>, a, n) /\ Selected(a, places) = g[n]
  BY SelectedRun
<1>2. PICK h : IsRun(h, Selecting(places), <<>>, b, n) /\ Selected(b, places) = h[n]
  BY SelectedRun
<1>3. /\ g[0] = <<>> /\ h[0] = <<>>
      /\ \A i \in 1 .. n : g[i] = IF i \in places THEN Append(g[i - 1], a[i]) ELSE g[i - 1]
      /\ \A i \in 1 .. n : h[i] = IF i \in places THEN Append(h[i - 1], b[i]) ELSE h[i - 1]
  <2>1. /\ g[0] = <<>>
        /\ \A i \in 1 .. n : g[i] = Next_Value(Selecting(places), g[i - 1], a, i)
    BY ONLY <1>1, <1>n, RunSteps
  <2>2. /\ h[0] = <<>>
        /\ \A i \in 1 .. n : h[i] = Next_Value(Selecting(places), h[i - 1], b, i)
    BY ONLY <1>2, <1>n, RunSteps
  <2>3. /\ \A v, i : Next_Value(Selecting(places), v, a, i)
                     = IF i \in places THEN Append(v, a[i]) ELSE v
        /\ \A v, i : Next_Value(Selecting(places), v, b, i)
                     = IF i \in places THEN Append(v, b[i]) ELSE v
    BY DEF Next_Value, Selecting
  <2> HIDE DEF n
  <2>4. \A i \in 1 .. n : g[i] = IF i \in places THEN Append(g[i - 1], a[i]) ELSE g[i - 1]
    <3> TAKE i \in 1 .. n
    <3>1. g[i] = Next_Value(Selecting(places), g[i - 1], a, i)
      BY <2>1
    <3> QED BY ONLY <2>3, <3>1, Zenon
  <2>5. \A i \in 1 .. n : h[i] = IF i \in places THEN Append(h[i - 1], b[i]) ELSE h[i - 1]
    <3> TAKE i \in 1 .. n
    <3>1. h[i] = Next_Value(Selecting(places), h[i - 1], b, i)
      BY <2>2
    <3> QED BY ONLY <2>3, <3>1, Zenon
  <2> QED BY ONLY <2>1, <2>2, <2>4, <2>5, Zenon
<1> DEFINE T == {i \in Nat : i <= n => Alike(g[i], h[i])}
<1>4. 0 \in T
  <2>1. Alike(<<>>, <<>>)
    OBVIOUS
  <2> HIDE DEF Alike
  <2> QED BY <1>3, <2>1
<1>5. ASSUME NEW i \in Nat, i \in T  PROVE i + 1 \in T
  <2>1. SUFFICES ASSUME i + 1 <= n  PROVE Alike(g[i + 1], h[i + 1])
    <3> HIDE DEF Alike
    <3> QED OBVIOUS
  <2>2. Alike(g[i], h[i])
    <3> HIDE DEF Alike
    <3> QED BY <1>5, <1>n, <2>1
  <2>3. i + 1 \in 1 .. n /\ (i + 1) - 1 = i
    BY <1>n, <2>1
  <2>4. CASE i + 1 \notin places
    <3>1. g[i + 1] = g[i] /\ h[i + 1] = h[i]
      BY <1>3, <2>3, <2>4
    <3> HIDE DEF Alike
    <3> QED BY <2>2, <3>1
  <2>5. CASE i + 1 \in places
    <3>1. g[i + 1] = Append(g[i], a[i + 1]) /\ h[i + 1] = Append(h[i], b[i + 1])
      BY <1>3, <2>3, <2>5
    <3> DEFINE p == g[i]
               q == h[i]
               x == a[i + 1]
               y == b[i + 1]
               r == Append(p, x)
               s == Append(q, y)
    <3>2. p \in Seq(A) /\ q \in Seq(B) /\ Len(p) = Len(q) /\ x \in A /\ y \in B
      BY <2>2, <2>3
    <3>3. \A k \in 1 .. Len(p) : \E j \in 1 .. n : j \in places /\ p[k] = a[j] /\ q[k] = b[j]
      BY <2>2
    <3>d. i + 1 \in 1 .. n /\ i + 1 \in places /\ x = a[i + 1] /\ y = b[i + 1]
      BY <2>3, <2>5
    <3> HIDE DEF p, q, x, y
    <3>4. /\ r \in Seq(A) /\ Len(r) = Len(p) + 1 /\ r[Len(p) + 1] = x
          /\ s \in Seq(B) /\ Len(s) = Len(p) + 1 /\ s[Len(p) + 1] = y
          /\ \A k \in 1 .. Len(p) : r[k] = p[k] /\ s[k] = q[k]
          /\ Len(p) \in Nat
      BY <3>2
    <3> HIDE DEF r, s
    <3>5. ASSUME NEW k \in 1 .. Len(r)
          PROVE  \E j \in 1 .. n : j \in places /\ r[k] = a[j] /\ s[k] = b[j]
      <4>1. CASE k = Len(p) + 1
        BY <3>4, <3>d, <4>1
      <4>2. CASE k # Len(p) + 1
        <5>1. k \in 1 .. Len(p)
          BY <3>4, <4>2
        <5> QED BY <3>3, <3>4, <5>1
      <4> QED BY <4>1, <4>2
    <3>6. Alike(r, s)
      BY <3>4, <3>5
    <3>7. g[i + 1] = r /\ h[i + 1] = s
      BY <3>1 DEF p, q, r, s, x, y
    <3> HIDE DEF Alike
    <3> QED BY <3>6, <3>7
  <2> QED BY <2>4, <2>5
<1>6. n \in T
  <2> HIDE DEF T
  <2> QED BY <1>4, <1>5, <1>n, NatInd
<1>7. Alike(Selected(a, places), Selected(b, places))
  <2> HIDE DEF Alike
  <2> QED BY <1>1, <1>2, <1>6, <1>n
<1> QED BY <1>7, Zenon DEF SameChoice

(* The parts of a line are sequences of tokens without bars.               *)
LEMMA PartsAreDivided ==
  ASSUME NEW S, NEW text \in Seq(S)
  PROVE  Parts(text) \in Seq(Seq({t \in S : ~Is_Bar(t)}))
<1> DEFINE W == Seq({t \in S : ~Is_Bar(t)})
           n == Len(text)
           D(g) == g = [i \in 0 .. n |-> IF i = 0 THEN <<<<>>>> ELSE Divided(g[i - 1], text[i])]
<1>n. n \in Nat
  OBVIOUS
<1>1. Parts(text) = (CHOOSE g : D(g))[n]
  BY Zenon DEF Parts
<1>2. \A v, i : Next_Value(Dividing, v, text, i) = Divided(v, text[i])
  BY DEF Next_Value, Dividing
<1>3. \A g : D(g) <=> IsRun(g, Dividing, <<<<>>>>, text, n)
  BY <1>2, Zenon DEF IsRun
<1>4. \E g : IsRun(g, Dividing, <<<<>>>>, text, n)
  BY <1>n, RunExists
<1>5. PICK g : IsRun(g, Dividing, <<<<>>>>, text, n) /\ Parts(text) = g[n]
  <2> HIDE DEF D
  <2> QED BY <1>1, <1>3, <1>4, Zenon
<1>6. g[0] = <<<<>>>> /\ \A i \in 1 .. n : g[i] = Divided(g[i - 1], text[i])
  BY <1>2, <1>5, <1>n, RunSteps
<1> DEFINE P(v) == v \in Seq(W) /\ Len(v) # 0
           T == {i \in Nat : i <= n => P(g[i])}
<1>7. 0 \in T
  <2>1. <<>> \in W
    OBVIOUS
  <2>2. P(<<<<>>>>)
    <3> HIDE DEF W
    <3> QED BY <2>1
  <2> HIDE DEF P
  <2> QED BY <1>6, <2>2
<1>8. ASSUME NEW v, P(v), NEW t \in S  PROVE P(Divided(v, t))
  <2>1. <<>> \in W /\ v \in Seq(W) /\ Len(v) \in 1 .. Len(v)
    BY <1>8
  <2>2. CASE Is_Bar(t)
    <3> HIDE DEF W
    <3> QED BY <2>1, <2>2 DEF Divided
  <2>3. CASE ~Is_Bar(t)
    <3>1. v[Len(v)] \in W
      <4> HIDE DEF W
      <4> QED BY <2>1
    <3>2. Append(v[Len(v)], t) \in W
      BY <2>3, <3>1
    <3> HIDE DEF W
    <3>3. Divided(v, t) = [v EXCEPT ![Len(v)] = Append(v[Len(v)], t)]
      BY <2>3 DEF Divided
    <3> QED BY <1>8, <2>1, <3>2, <3>3
  <2> QED BY <2>2, <2>3
<1>9. ASSUME NEW i \in Nat, i \in T  PROVE i + 1 \in T
  <2>1. SUFFICES ASSUME i + 1 <= n  PROVE P(g[i + 1])
    <3> HIDE DEF P
    <3> QED OBVIOUS
  <2>2. P(g[i]) /\ text[i + 1] \in S /\ g[i + 1] = Divided(g[i], text[i + 1])
    <3>1. i + 1 \in 1 .. n /\ (i + 1) - 1 = i
      BY <2>1
    <3> HIDE DEF P
    <3> QED BY <1>6, <1>9, <1>n, <2>1, <3>1
  <2> HIDE DEF P
  <2> QED BY <1>8, <2>2
<1>10. P(g[n])
  <2>1. n \in T
    <3> HIDE DEF T
    <3> QED BY <1>7, <1>9, <1>n, NatInd
  <2> HIDE DEF P
  <2> QED BY <1>n, <2>1
<1> QED BY <1>5, <1>10

(* What RedirectionsAreKept asks of a line is so of every line.            *)
Places(text) ==
  LET all == Parts(text) IN {i \in DOMAIN all : all[i] # <<>>}
LineIsKept(text, cs) ==
  LET parts == Selected(Parts(text), Places(text)) IN
  /\ Len(cs) = Len(parts)
  /\ \A i \in DOMAIN parts : Orderly(parts[i]) =>
       /\ cs[i].command_name = Written(parts[i][1])
       /\ Input_Meant(parts[i]) = IF cs[i].has_input_file
                                  THEN {cs[i].input_filename} ELSE {}
       /\ Output_Meant(parts[i]) = IF cs[i].has_output_file
                                   THEN {cs[i].output_filename} ELSE {}
       /\ cs[i].parameters = Words_Meant(parts[i])
LEMMA LinesAreParsed ==
  ASSUME NEW S, \A t \in S : ~Is_Bar(t) => Written(t) # NoName, NEW text \in Seq(S)
  PROVE  LineIsKept(text, Parse_Input(text))
<1> DEFINE W == {t \in S : ~Is_Bar(t)}
           all == Parts(text)
           parsed == [i \in DOMAIN all |-> Parse_Command(all[i])]
           B == {Parse_Command(part) : part \in Seq(W)}
<1>1. all \in Seq(Seq(W))
  BY PartsAreDivided
<1>2. \A t \in W : Written(t) # NoName
  OBVIOUS
<1> HIDE DEF W, all
<1>3. /\ parsed \in Seq(B) /\ Len(parsed) = Len(all) /\ DOMAIN parsed = DOMAIN all
      /\ DOMAIN all = 1 .. Len(all)
      /\ \A i \in DOMAIN all : parsed[i] = Parse_Command(all[i]) /\ all[i] \in Seq(W)
  <2>1. DOMAIN all = 1 .. Len(all) /\ Len(all) \in Nat /\ \A i \in DOMAIN all : all[i] \in Seq(W)
    BY <1>1
  <2>2. \A i \in DOMAIN all : Parse_Command(all[i]) \in B
    BY <2>1
  <2> HIDE DEF B
  <2> QED BY <2>1, <2>2
<1> HIDE DEF parsed, B
<1>4. {i \in DOMAIN parsed : parsed[i].command_name # NoName} = Places(text)
  <2>1. ASSUME NEW i \in DOMAIN all
        PROVE  parsed[i].command_name # NoName <=> all[i] # <<>>
    BY <1>2, <1>3, NameIsRead
  <2> QED BY <1>3, <2>1 DEF Places, all
<1> DEFINE parts == Selected(all, Places(text))
           cs == Selected(parsed, Places(text))
<1>5. Parse_Input(text) = cs
  BY <1>4, Zenon DEF Parse_Input, parsed, all
<1>6. /\ parts \in Seq(Seq(W)) /\ cs \in Seq(B) /\ Len(parts) = Len(cs)
      /\ \A k \in 1 .. Len(parts) :
           \E j \in 1 .. Len(all) : j \in Places(text) /\ parts[k] = all[j] /\ cs[k] = parsed[j]
  <2>1. Len(all) = Len(parsed)
    BY <1>3
  <2>2. parts \in Seq(Seq(W)) /\ cs \in Seq(B) /\ SameChoice(parts, cs, all, parsed, Places(text))
    BY ONLY <1>1, <1>3, <2>1, SelectedAlike
  <2> QED BY ONLY <2>2, Zenon DEF SameChoice
<1> HIDE DEF parts, cs
<1>7. ASSUME NEW i \in DOMAIN parts
      PROVE  /\ parts[i] \in Seq(W) /\ parts[i] # <<>>
             /\ cs[i] = Parse_Command(parts[i])
             /\ Written(parts[i][1]) # NoName
             /\ Parse_Command(parts[i]).command_name = Written(parts[i][1])
  <2>1. i \in 1 .. Len(parts)
    BY <1>6
  <2>2. PICK j \in 1 .. Len(all) :
          j \in Places(text) /\ parts[i] = all[j] /\ cs[i] = parsed[j]
    BY <1>6, <2>1
  <2>3. all[j] # <<>> /\ j \in DOMAIN all
    BY <1>3, <2>2 DEF Places, all
  <2>4. parts[i] \in Seq(W) /\ parts[i] # <<>> /\ cs[i] = Parse_Command(parts[i])
    BY <1>3, <2>2, <2>3
  <2>5. Parse_Command(parts[i]).command_name = Written(parts[i][1])
    BY <1>2, <2>4, NameIsRead
  <2>6. parts[i][1] \in W
    BY <2>4
  <2> QED BY <1>2, <2>4, <2>5, <2>6
<1>8. ASSUME NEW i \in DOMAIN parts, Orderly(parts[i])
      PROVE  /\ cs[i].command_name = Written(parts[i][1])
             /\ Input_Meant(parts[i]) = IF cs[i].has_input_file
                                        THEN {cs[i].input_filename} ELSE {}
             /\ Output_Meant(parts[i]) = IF cs[i].has_output_file
                                         THEN {cs[i].output_filename} ELSE {}
             /\ cs[i].parameters = Words_Meant(parts[i])
  BY <1>7, <1>8, OrderlyIsRead
<1> QED BY <1>5, <1>6, <1>8 DEF parts, all, LineIsKept

-----------------------------------------------------------------------------
(* What a cell of the screen or of the buffer holds.                       *)
Cell == Token \cup {NUL, EOT, NL, Old}

(* The invariant of the console: a read that is under way has room for     *)
(* what it still takes, and shows what it has taken while it is alone.     *)
Parts_Are(r) ==
  r = [state |-> r.state, room |-> r.room, buffer |-> r.buffer, alone |-> r.alone]
ReadOk(r, cells) ==
  /\ Parts_Are(r)
  /\ r.state \in {"none", "reading", "done"} /\ r.alone \in BOOLEAN
  /\ r.room \in Register /\ r.buffer \in Seq(Cell) /\ Len(r.buffer) <= r.room
  /\ r.state = "reading" /\ r.alone => IsSuffix(r.buffer, cells)

ConsoleInv ==
  /\ Std_In_Is_Open \in BOOLEAN /\ keys \in 0 .. MaxKeys
  /\ row \in Seq(Cell)
  /\ reads = [t \in Caller |-> reads[t]]
  /\ \A t \in Caller : ReadOk(reads[t], row)

(* The invariant of the session: the shell runs only with the handles of   *)
(* the console, and a thread reads only while the call is under way that   *)
(* asked for it.                                                           *)
Reader(r, k) ==
  /\ r.state # "none" => /\ k.stage # "program"
                         /\ k.call.service = "Read_File" /\ k.call.handle = In
                         /\ k.call.size = r.room
  /\ r.state = "reading" => k.stage = "kernel"
ShellInv ==
  /\ size \in Register
  /\ at \notin {"boot", "ended"} => std_in = In /\ std_out = Out
  /\ calls[Shell].stage # "program" =>
       /\ at = "boot" => calls[Shell].call = Boot_Call
       /\ at = "read" => calls[Shell].call = Read_Call
       /\ at # "read" => calls[Shell].call.service # "Read_File"
  /\ at = "read" /\ calls[Shell].stage = "library" /\ calls[Shell].answer.error = Success =>
       calls[Shell].answer.value = Len(reads[Shell].buffer)
  /\ at = "line" => calls[Shell].stage = "program" /\ LineIsKept(line, commands)
ProgramInv ==
  /\ made \in 0 .. MaxCalls /\ awaited \subseteq running /\ running \subseteq Program

SessionInv == ShellInv /\ ProgramInv /\ \A t \in Caller : Reader(reads[t], calls[t])

IInv == CallInv /\ ConsoleInv /\ SessionInv

-----------------------------------------------------------------------------
(* A call of Read that is not there is in order, whatever the screen       *)
(* shows, and so is one that another thread has disturbed.                 *)
LEMMA NoReadOk ==
  ASSUME NEW cells \in Seq(Cell)
  PROVE  ReadOk(NoRead, cells) /\ NoRead.state = "none"
<1>1. <<>> \in Seq(Cell) /\ Len(<<>>) <= 0 /\ 0 \in Register
  BY Sizes, SMT DEF Register
<1> QED BY <1>1 DEF NoRead, ReadOk, Parts_Are

LEMMA DisturbedOk ==
  ASSUME NEW r, NEW cells, NEW others, ReadOk(r, cells)
  PROVE  /\ ReadOk(Disturbed(r), others)
         /\ Disturbed(r).state = r.state /\ Disturbed(r).room = r.room
         /\ Disturbed(r).buffer = r.buffer
<1>1. CASE r.state = "reading"
  <2> DEFINE d == Disturbed(r)
  <2>1. d = [r EXCEPT !.alone = FALSE] /\ Parts_Are(r)
    BY <1>1 DEF Disturbed, ReadOk
  <2> HIDE DEF d
  <2>2. d = [state |-> r.state, room |-> r.room, buffer |-> r.buffer, alone |-> FALSE]
    BY <2>1 DEF Parts_Are
  <2>3. /\ Parts_Are(d) /\ d.state = r.state /\ d.room = r.room /\ d.buffer = r.buffer
        /\ d.alone = FALSE
    BY <2>2 DEF Parts_Are
  <2>4. ReadOk(d, others)
    BY <2>3 DEF ReadOk
  <2> QED BY <2>3, <2>4 DEF d
<1>2. CASE r.state # "reading"
  <2>1. Disturbed(r) = r
    BY <1>2 DEF Disturbed
  <2>2. ReadOk(r, others)
    BY <1>2 DEF ReadOk
  <2> QED BY <2>1, <2>2
<1> QED BY <1>1, <1>2

(* The screen and the buffers start empty.                                 *)
LEMMA ConsoleBegins ==
  ASSUME Console_Init
  PROVE  ConsoleInv /\ \A t \in Caller : reads[t].state = "none"
<1>1. <<>> \in Seq(Cell) /\ 0 \in 0 .. MaxKeys
  BY ConsoleAssumption, SMT
<1>2. /\ Std_In_Is_Open = TRUE /\ keys = 0 /\ row = <<>>
      /\ reads = [t \in Caller |-> NoRead]
  BY DEF Console_Init
<1>3. ASSUME NEW f, f = [t \in Caller |-> NoRead]
      PROVE  f = [t \in Caller |-> f[t]] /\ \A t \in Caller : f[t] = NoRead
  BY ONLY <1>3, Zenon
<1>4. reads = [t \in Caller |-> reads[t]] /\ \A t \in Caller : reads[t] = NoRead
  BY ONLY <1>2, <1>3, Zenon
<1>5. \A t \in Caller : ReadOk(reads[t], row) /\ reads[t].state = "none"
  <2>1. row \in Seq(Cell)
    BY ONLY <1>1, <1>2
  <2>2. ReadOk(NoRead, row) /\ NoRead.state = "none"
    BY ONLY <2>1, NoReadOk
  <2> QED BY ONLY <1>4, <2>2, Zenon
<1> QED BY ONLY <1>1, <1>2, <1>4, <1>5 DEF ConsoleInv

(* The cells that are remembered are cells.                                *)
LEMMA Remembering ==
  ASSUME NEW cells \in Seq(Cell)
  PROVE  Aged(cells) \in Seq(Cell)
<1> DEFINE n == IF Len(cells) > MaxRow THEN MaxRow ELSE Len(cells)
<1>1. n \in Nat
  BY ConsoleAssumption, SMT
<1>2. Old \in Cell
  BY DEF Cell
<1> HIDE DEF n
<1>3. [i \in 1 .. n |-> Old] \in Seq(Cell)
  BY <1>1, <1>2, SMT
<1> QED BY <1>3 DEF Aged, n

(* The invariant after a step, when each read is in order after it.        *)
LEMMA ConsoleKept ==
  ASSUME Std_In_Is_Open' \in BOOLEAN, keys' \in 0 .. MaxKeys, row' \in Seq(Cell),
         reads' = [t \in Caller |-> reads'[t]],
         \A t \in Caller : ReadOk(reads'[t], row')
  PROVE  ConsoleInv'
BY DEF ConsoleInv, ReadOk, Parts_Are

(* A thread reads and shows nothing: the others read as before.            *)
LEMMA TakesOk ==
  ASSUME ConsoleInv, NEW t \in Caller, NEW r, ReadOk(r, row), Takes(t, r),
         Std_In_Is_Open' \in BOOLEAN, keys' \in 0 .. MaxKeys
  PROVE  ConsoleInv' /\ reads'[t] = r /\ \A u \in Caller \ {t} : reads'[u] = reads[u]
<1>1. /\ row \in Seq(Cell) /\ row' = row
      /\ reads = [u \in Caller |-> reads[u]] /\ reads' = [reads EXCEPT ![t] = r]
      /\ \A u \in Caller : ReadOk(reads[u], row)
  BY DEF ConsoleInv, Takes
<1>2. reads' = [u \in Caller |-> IF u = t THEN r ELSE reads[u]]
  BY <1>1
<1>3. reads'[t] = r /\ \A u \in Caller \ {t} : reads'[u] = reads[u]
  BY <1>2
<1>4. reads' = [u \in Caller |-> reads'[u]]
  BY <1>2
<1>5. \A u \in Caller : ReadOk(reads'[u], row')
  BY <1>1, <1>3
<1>6. row' \in Seq(Cell)
  BY <1>1
<1> QED BY <1>3, <1>4, <1>5, <1>6, ConsoleKept

(* A thread shows something: its own read agrees with the row, and the     *)
(* others are disturbed.                                                   *)
LEMMA ShowsOk ==
  ASSUME ConsoleInv, NEW t \in Caller, NEW r, NEW cells \in Seq(Cell), ReadOk(r, cells),
         Shows(t, r, cells), Std_In_Is_Open' \in BOOLEAN, keys' \in 0 .. MaxKeys
  PROVE  /\ ConsoleInv' /\ reads'[t] = r
         /\ \A u \in Caller \ {t} :
              /\ reads'[u].state = reads[u].state /\ reads'[u].room = reads[u].room
              /\ reads'[u].buffer = reads[u].buffer
<1>1. /\ row' = cells
      /\ reads' = [u \in Caller |-> IF u = t THEN r ELSE Disturbed(reads[u])]
      /\ \A u \in Caller : ReadOk(reads[u], row)
  BY DEF ConsoleInv, Shows
<1>2. reads'[t] = r /\ \A u \in Caller \ {t} : reads'[u] = Disturbed(reads[u])
  BY <1>1
<1>3. reads' = [u \in Caller |-> reads'[u]]
  BY <1>1
<1>4. \A u \in Caller \ {t} :
        /\ ReadOk(reads'[u], row')
        /\ reads'[u].state = reads[u].state /\ reads'[u].room = reads[u].room
        /\ reads'[u].buffer = reads[u].buffer
  BY <1>1, <1>2, DisturbedOk
<1>5. \A u \in Caller : ReadOk(reads'[u], row')
  BY <1>1, <1>2, <1>4
<1>6. row' \in Seq(Cell)
  BY <1>1
<1> QED BY <1>2, <1>3, <1>4, <1>5, <1>6, ConsoleKept

(* A read starts with an empty buffer.                                     *)
LEMMA ReadsStart ==
  ASSUME ConsoleInv, NEW t \in Caller, NEW n \in Register, Read_Starts(t, n)
  PROVE  /\ ConsoleInv' /\ reads'[t].state = "reading" /\ reads'[t].room = n
         /\ \A u \in Caller \ {t} : reads'[u] = reads[u]
<1> DEFINE r == [state |-> "reading", room |-> n, buffer |-> <<>>, alone |-> TRUE]
<1>1. Takes(t, r) /\ Std_In_Is_Open' = Std_In_Is_Open /\ keys' = keys
  BY DEF Read_Starts
<1>2. <<>> \in Seq(Cell) /\ Len(<<>>) <= n
  BY SMT DEF Register
<1>3. IsSuffix(<<>>, row)
  BY EmptyEnd DEF ConsoleInv
<1>4. /\ r.state = "reading" /\ r.room = n /\ r.buffer = <<>> /\ r.alone = TRUE /\ Parts_Are(r)
  BY DEF Parts_Are
<1> HIDE DEF r
<1>5. ReadOk(r, row)
  BY <1>2, <1>3, <1>4 DEF ReadOk
<1>6. Std_In_Is_Open' \in BOOLEAN /\ keys' \in 0 .. MaxKeys
  BY <1>1 DEF ConsoleInv
<1> QED BY <1>1, <1>4, <1>5, <1>6, TakesOk

(* A read that is over for the stream is in order when what it has stored  *)
(* fits.                                                                   *)
LEMMA FinishedOk ==
  ASSUME NEW r, Parts_Are(r), r.alone \in BOOLEAN, r.room \in Register,
         r.buffer \in Seq(Cell), Len(r.buffer) <= r.room, NEW cells
  PROVE  /\ ReadOk(Finished(r), cells) /\ Finished(r).state = "done"
         /\ Finished(r).room = r.room
<1> DEFINE f == Finished(r)
<1>1. f = [r EXCEPT !.state = "done"]
  BY DEF Finished
<1> HIDE DEF f
<1>2. f = [state |-> "done", room |-> r.room, buffer |-> r.buffer, alone |-> r.alone]
  BY <1>1 DEF Parts_Are
<1>3. /\ Parts_Are(f) /\ f.state = "done" /\ f.room = r.room /\ f.buffer = r.buffer
      /\ f.alone = r.alone
  BY <1>2 DEF Parts_Are
<1>4. ReadOk(f, cells)
  BY <1>3 DEF ReadOk
<1> QED BY <1>3, <1>4 DEF f

(* A key that is stored, where there is room for it.                       *)
LEMMA StoredOk ==
  ASSUME NEW r, NEW cells, ReadOk(r, cells), ~Full(r), NEW code \in Cell
  PROVE  LET s == Stored(r, code) IN
         /\ Parts_Are(s) /\ s.alone = r.alone /\ s.room = r.room /\ s.state = r.state
         /\ s.buffer = Append(r.buffer, code) /\ s.buffer \in Seq(Cell)
         /\ Len(s.buffer) <= s.room /\ s.room \in Register /\ s.alone \in BOOLEAN
<1> DEFINE s == Stored(r, code)
<1>1. s = [r EXCEPT !.buffer = Append(r.buffer, code)] /\ Parts_Are(r)
  BY DEF Stored, ReadOk
<1> HIDE DEF s
<1>2. s = [state |-> r.state, room |-> r.room, buffer |-> Append(r.buffer, code),
           alone |-> r.alone]
  BY <1>1 DEF Parts_Are
<1>3. /\ Parts_Are(s) /\ s.state = r.state /\ s.room = r.room /\ s.alone = r.alone
      /\ s.buffer = Append(r.buffer, code)
  BY <1>2 DEF Parts_Are
<1>4. r.buffer \in Seq(Cell) /\ r.room \in Nat /\ r.room \in Register /\ r.alone \in BOOLEAN
      /\ ~(Len(r.buffer) >= r.room)
  BY DEF ReadOk, Register, Full
<1>5. Append(r.buffer, code) \in Seq(Cell) /\ Len(Append(r.buffer, code)) = Len(r.buffer) + 1
      /\ Len(r.buffer) \in Nat
  BY <1>4, SMT
<1>6. Len(r.buffer) + 1 <= r.room
  BY <1>4, <1>5, SMT
<1> QED BY <1>3, <1>4, <1>5, <1>6 DEF s

(* A key changes buffer and row alike, within the room there is.           *)
LEMMA KeysKeep ==
  ASSUME ConsoleInv, NEW t \in Caller, Key(t)
  PROVE  /\ ConsoleInv' /\ reads[t].state = "reading"
         /\ reads'[t].state \in {"reading", "done"} /\ reads'[t].room = reads[t].room
         /\ \A u \in Caller \ {t} :
              /\ reads'[u].state = reads[u].state /\ reads'[u].room = reads[u].room
              /\ reads'[u].buffer = reads[u].buffer
<1> DEFINE r == reads[t]
<1>1. ReadOk(r, row) /\ row \in Seq(Cell) /\ keys \in 0 .. MaxKeys /\ MaxKeys \in Nat
  BY ConsoleAssumption DEF ConsoleInv
<1>2. ASSUME NEW open \in BOOLEAN, Read_Char(t, open)
      PROVE  /\ r.state = "reading" /\ ~Full(r)
             /\ keys' \in 0 .. MaxKeys /\ Std_In_Is_Open' \in BOOLEAN
  <2>1. r.state = "reading" /\ ~Full(r) /\ keys < MaxKeys /\ keys' = keys + 1
        /\ Std_In_Is_Open' = open
    BY <1>2 DEF Read_Char
  <2>2. keys' \in 0 .. MaxKeys
    BY <1>1, <2>1
  <2> QED BY <2>1, <2>2
<1>p. /\ Parts_Are(r) /\ r.alone \in BOOLEAN /\ r.room \in Register /\ r.buffer \in Seq(Cell)
      /\ Len(r.buffer) <= r.room
      /\ r.state = "reading" /\ r.alone => IsSuffix(r.buffer, row)
  BY <1>1 DEF ReadOk
<1>c. NUL \in Cell /\ EOT \in Cell /\ NL \in Cell /\ \A x \in Token : x \in Cell
  BY DEF Cell
<1> HIDE DEF r
<1>5. CASE Key_Fails(t)
  <2>1. Read_Char(t, FALSE) /\ Takes(t, Finished(r))
    BY <1>5 DEF Key_Fails, r
  <2>2. ReadOk(Finished(r), row) /\ Finished(r).state = "done" /\ Finished(r).room = r.room
    BY <1>p, FinishedOk
  <2>3. r.state = "reading" /\ keys' \in 0 .. MaxKeys /\ Std_In_Is_Open' \in BOOLEAN
    BY <1>2, <2>1
  <2>4. ConsoleInv' /\ reads'[t] = Finished(r) /\ \A u \in Caller \ {t} : reads'[u] = reads[u]
    BY <2>1, <2>2, <2>3, TakesOk
  <2> QED BY <2>2, <2>3, <2>4 DEF r
<1>6. CASE Key_Backspace(t)
  <2> DEFINE s == Shortened(r)
             cells == Write_Backspace
             b == IF r.buffer = <<>> THEN r.buffer ELSE Front(r.buffer)
  <2>1. Read_Char(t, TRUE) /\ Shows(t, s, cells)
    BY <1>6 DEF Key_Backspace, r
  <2>2. r.state = "reading" /\ keys' \in 0 .. MaxKeys /\ Std_In_Is_Open' \in BOOLEAN
    BY <1>2, <2>1
  <2>3. s = [r EXCEPT !.buffer = b]
    BY DEF Shortened
  <2>4. cells = (IF row = <<>> THEN row ELSE Front(row))
    BY DEF Write_Backspace
  <2> HIDE DEF s, cells, b
  <2>5. s = [state |-> r.state, room |-> r.room, buffer |-> b, alone |-> r.alone]
    BY <1>p, <2>3 DEF Parts_Are
  <2>6. Parts_Are(s) /\ s.state = r.state /\ s.room = r.room /\ s.buffer = b /\ s.alone = r.alone
    BY <2>5 DEF Parts_Are
  <2>7. cells \in Seq(Cell)
    <3>1. CASE row = <<>>
      BY <1>1, <2>4, <3>1
    <3>2. CASE row # <<>>
      <4>1. Len(row) \in Nat \ {0}
        BY <1>1, <3>2, SMT
      <4> QED BY <1>1, <2>4, <3>2, <4>1, Fronts
    <3> QED BY <3>1, <3>2
  <2>8. b \in Seq(Cell) /\ Len(b) <= r.room
    <3>1. CASE r.buffer = <<>>
      BY <1>p, <3>1 DEF b
    <3>2. CASE r.buffer # <<>>
      <4>1. Len(r.buffer) \in Nat \ {0}
        BY <1>p, <3>2, SMT
      <4>2. b \in Seq(Cell) /\ Len(b) = Len(r.buffer) - 1
        BY <1>p, <3>2, <4>1, Fronts DEF b
      <4> QED BY <1>p, <4>1, <4>2, SMT DEF Register
    <3> QED BY <3>1, <3>2
  <2>9. ASSUME r.alone  PROVE IsSuffix(b, cells)
    <3>1. IsSuffix(r.buffer, row)
      BY <1>p, <2>2, <2>9
    <3>2. CASE r.buffer = <<>>
      BY <2>7, <3>2, EmptyEnd DEF b
    <3>3. CASE r.buffer # <<>>
      <4>1. row # <<>> /\ IsSuffix(Front(r.buffer), Front(row))
        BY <1>1, <1>p, <3>1, <3>3, ShorterEnd
      <4> QED BY <2>4, <3>3, <4>1 DEF b
    <3> QED BY <3>2, <3>3
  <2>10. ReadOk(s, cells)
    BY <1>p, <2>2, <2>6, <2>8, <2>9 DEF ReadOk
  <2> QED BY <2>1, <2>2, <2>6, <2>7, <2>10, ShowsOk DEF r
<1>7. CASE Key_Linefeed(t)
  <2>1. Read_Char(t, TRUE) /\ Takes(t, r)
    BY <1>7 DEF Key_Linefeed, r
  <2>2. r.state = "reading" /\ keys' \in 0 .. MaxKeys /\ Std_In_Is_Open' \in BOOLEAN
    BY <1>2, <2>1
  <2>3. ConsoleInv' /\ reads'[t] = r /\ \A u \in Caller \ {t} : reads'[u] = reads[u]
    BY <1>1, <2>1, <2>2, TakesOk
  <2> QED BY <2>2, <2>3 DEF r
<1>8. CASE Key_Return(t)
  <2> DEFINE s == Stored(r, NL)
  <2>1. Read_Char(t, TRUE) /\ Shows(t, Finished(s), <<>>)
    BY <1>8 DEF Key_Return, Newline, r
  <2>2. /\ r.state = "reading" /\ ~Full(r)
        /\ keys' \in 0 .. MaxKeys /\ Std_In_Is_Open' \in BOOLEAN
    BY <1>2, <2>1
  <2>3. /\ Parts_Are(s) /\ s.alone \in BOOLEAN /\ s.room = r.room /\ s.room \in Register
        /\ s.buffer \in Seq(Cell) /\ Len(s.buffer) <= s.room
    BY <1>1, <1>c, <2>2, StoredOk
  <2> HIDE DEF s
  <2>4. ReadOk(Finished(s), <<>>) /\ Finished(s).state = "done" /\ Finished(s).room = r.room
    BY <2>3, FinishedOk
  <2>5. <<>> \in Seq(Cell)
    BY SMT
  <2> QED BY <2>1, <2>2, <2>4, <2>5, ShowsOk DEF r
<1>9. ASSUME NEW code \in {NUL, EOT}, Key_Ends(t, code)
      PROVE  /\ ConsoleInv' /\ r.state = "reading"
             /\ reads'[t].state = "done" /\ reads'[t].room = r.room
             /\ \A u \in Caller \ {t} : reads'[u] = reads[u]
  <2> DEFINE s == Stored(r, code)
  <2>1. Read_Char(t, TRUE) /\ Takes(t, Finished(s))
    BY <1>9 DEF Key_Ends, r
  <2>2. /\ r.state = "reading" /\ ~Full(r)
        /\ keys' \in 0 .. MaxKeys /\ Std_In_Is_Open' \in BOOLEAN
    BY <1>2, <2>1
  <2>c. code \in Cell
    BY <1>c
  <2>3. /\ Parts_Are(s) /\ s.alone \in BOOLEAN /\ s.room = r.room /\ s.room \in Register
        /\ s.buffer \in Seq(Cell) /\ Len(s.buffer) <= s.room
    BY <1>1, <2>c, <2>2, StoredOk
  <2> HIDE DEF s
  <2>4. ReadOk(Finished(s), row) /\ Finished(s).state = "done" /\ Finished(s).room = r.room
    BY <2>3, FinishedOk
  <2> QED BY <2>1, <2>2, <2>4, TakesOk
<1>10. ASSUME NEW token \in Token, Key_Token(t, token)
       PROVE  /\ ConsoleInv' /\ r.state = "reading"
              /\ reads'[t].state \in {"reading", "done"} /\ reads'[t].room = r.room
              /\ \A u \in Caller \ {t} :
                   /\ reads'[u].state = reads[u].state /\ reads'[u].room = reads[u].room
                   /\ reads'[u].buffer = reads[u].buffer
  <2> DEFINE s == Stored(r, token)
             n == IF Full(s) THEN Finished(s) ELSE s
             cells == row \o <<token>>
  <2>1. Read_Char(t, TRUE) /\ Shows(t, n, cells)
    BY <1>10 DEF Key_Token, Write_String, r
  <2>2. /\ r.state = "reading" /\ ~Full(r)
        /\ keys' \in 0 .. MaxKeys /\ Std_In_Is_Open' \in BOOLEAN
    BY <1>2, <2>1
  <2>c. token \in Cell
    BY <1>c
  <2>3. /\ Parts_Are(s) /\ s.alone = r.alone /\ s.alone \in BOOLEAN
        /\ s.room = r.room /\ s.room \in Register /\ s.state = r.state
        /\ s.buffer \in Seq(Cell) /\ Len(s.buffer) <= s.room
        /\ s.buffer = Append(r.buffer, token)
    BY <1>1, <2>c, <2>2, StoredOk
  <2>4. cells \in Seq(Cell)
    BY <1>1, <2>c, SMT
  <2>5. r.alone => IsSuffix(Append(r.buffer, token), cells)
    BY <1>1, <1>p, <2>2, <2>c, LongerEnd
  <2> HIDE DEF s, n, cells
  <2>6. ReadOk(s, cells)
    BY <2>2, <2>3, <2>5 DEF ReadOk
  <2>7. ReadOk(Finished(s), cells) /\ Finished(s).state = "done" /\ Finished(s).room = r.room
    BY <2>3, FinishedOk
  <2>8. ReadOk(n, cells) /\ n.state \in {"reading", "done"} /\ n.room = r.room
    BY <2>2, <2>3, <2>6, <2>7 DEF n
  <2> QED BY <2>1, <2>2, <2>4, <2>8, ShowsOk
<1> QED BY <1>5, <1>6, <1>7, <1>8, <1>9, <1>10 DEF Key, r

(* The end of a read without room.                                         *)
LEMMA NothingRead ==
  ASSUME ConsoleInv, NEW t \in Caller, Read_Nothing(t)
  PROVE  /\ ConsoleInv' /\ reads[t].state = "reading"
         /\ reads'[t].state = "done" /\ reads'[t].room = reads[t].room
         /\ \A u \in Caller \ {t} : reads'[u] = reads[u]
<1> DEFINE r == reads[t]
<1>1. r.state = "reading" /\ Takes(t, Finished(r))
      /\ Std_In_Is_Open' = Std_In_Is_Open /\ keys' = keys
  BY DEF Read_Nothing
<1>2. /\ Parts_Are(r) /\ r.alone \in BOOLEAN /\ r.room \in Register /\ r.buffer \in Seq(Cell)
      /\ Len(r.buffer) <= r.room
  BY DEF ConsoleInv, ReadOk
<1>3. Std_In_Is_Open' \in BOOLEAN /\ keys' \in 0 .. MaxKeys
  BY <1>1 DEF ConsoleInv
<1> HIDE DEF r
<1>4. ReadOk(Finished(r), row) /\ Finished(r).state = "done" /\ Finished(r).room = r.room
  BY <1>2, FinishedOk
<1> QED BY <1>1, <1>3, <1>4, TakesOk DEF r

(* What is forgotten after a read.                                         *)
LEMMA ReadsEnd ==
  ASSUME ConsoleInv, NEW t \in Caller, Read_Is_Over(t)
  PROVE  /\ ConsoleInv' /\ reads'[t].state = "none"
         /\ \A u \in Caller \ {t} : reads'[u] = reads[u]
<1>1. /\ reads' = [reads EXCEPT ![t] = NoRead]
      /\ row' = (IF \E u \in Caller \ {t} : Alone(u) THEN row ELSE Aged(row))
      /\ Std_In_Is_Open' = Std_In_Is_Open /\ keys' = keys
  BY DEF Read_Is_Over
<1>2. /\ row \in Seq(Cell) /\ reads = [u \in Caller |-> reads[u]]
      /\ \A u \in Caller : ReadOk(reads[u], row)
      /\ Std_In_Is_Open' \in BOOLEAN /\ keys' \in 0 .. MaxKeys
  BY <1>1 DEF ConsoleInv
<1>3. row' \in Seq(Cell)
  BY <1>1, <1>2, Remembering
<1>4. reads' = [u \in Caller |-> IF u = t THEN NoRead ELSE reads[u]]
  BY <1>1, <1>2
<1>5. reads'[t] = NoRead /\ \A u \in Caller \ {t} : reads'[u] = reads[u]
  BY <1>4
<1>6. reads' = [u \in Caller |-> reads'[u]]
  BY <1>4
<1>7. ASSUME NEW u \in Caller  PROVE ReadOk(reads'[u], row')
  <2>1. CASE u = t
    BY <1>3, <1>5, <2>1, NoReadOk
  <2>2. CASE u # t /\ Alone(u)
    BY <1>1, <1>2, <1>5, <2>2
  <2>3. CASE u # t /\ ~Alone(u)
    <3>1. ReadOk(reads[u], row) /\ ~(reads[u].state = "reading" /\ reads[u].alone)
      BY <1>2, <2>3 DEF Alone
    <3>2. ReadOk(reads[u], row')
      BY <3>1 DEF ReadOk
    <3> QED BY <1>5, <2>3, <3>2
  <2> QED BY <2>1, <2>2, <2>3
<1>8. reads'[t].state = "none"
  BY <1>3, <1>5, NoReadOk
<1> QED BY <1>2, <1>3, <1>5, <1>6, <1>7, <1>8, ConsoleKept

(* What is written disturbs all that read.                                 *)
LEMMA WritesKeep ==
  ASSUME ConsoleInv, NEW t \in Caller, reads[t].state = "none", NEW n \in Register,
         Write_Console(t, [i \in 1 .. n |-> Old])
  PROVE  /\ ConsoleInv' /\ reads'[t] = reads[t]
         /\ \A u \in Caller \ {t} :
              /\ reads'[u].state = reads[u].state /\ reads'[u].room = reads[u].room
              /\ reads'[u].buffer = reads[u].buffer
<1> DEFINE cells == [i \in 1 .. n |-> Old]
           aged == Aged(row \o cells)
<1>1. Shows(t, reads[t], aged) /\ Std_In_Is_Open' = Std_In_Is_Open /\ keys' = keys
  BY DEF Write_Console, Write_String
<1>2. n \in Nat /\ Old \in Cell
  BY SMT DEF Register, Cell
<1>3. cells \in Seq(Cell)
  BY <1>2, SMT
<1> HIDE DEF cells
<1>4. row \o cells \in Seq(Cell)
  BY <1>3, SMT DEF ConsoleInv
<1>5. aged \in Seq(Cell)
  BY <1>4, Remembering
<1> HIDE DEF aged
<1>6. ReadOk(reads[t], aged)
  BY DEF ConsoleInv, ReadOk
<1>7. Std_In_Is_Open' \in BOOLEAN /\ keys' \in 0 .. MaxKeys
  BY <1>1 DEF ConsoleInv
<1> QED BY <1>1, <1>5, <1>6, <1>7, ShowsOk

(* What is no step of the console leaves it alone.                         *)
LEMMA ConsoleRests ==
  ASSUME ConsoleInv, UNCHANGED console_vars
  PROVE  ConsoleInv' /\ reads' = reads
<1>1. Std_In_Is_Open' = Std_In_Is_Open /\ reads' = reads /\ row' = row /\ keys' = keys
  BY DEF console_vars
<1> QED BY <1>1, ConsoleKept DEF ConsoleInv

-----------------------------------------------------------------------------
(* A thread asks for something, is answered, or has its answer.            *)
LEMMA CallsAreMade ==
  ASSUME CallInv, NEW t \in Caller, NEW c, IsCall(c), Sys_Call(t, c)
  PROVE  /\ CallInv' /\ calls[t].stage = "program"
         /\ calls'[t].stage = "kernel" /\ calls'[t].call = c
         /\ \A u \in Caller \ {t} : calls'[u] = calls[u]
<1>1. PICK g \in Garbage : calls' = [calls EXCEPT ![t] = Asking(c, g)]
  BY DEF Sys_Call
<1>2. PICK k : k = Asking(c, g)
  OBVIOUS
<1>3. CallOk(k) /\ k.stage = "kernel" /\ k.call = c
  BY <1>2, AskingOk
<1>4. calls' = [calls EXCEPT ![t] = k]
  BY <1>1, <1>2
<1>5. CallInv' /\ calls'[t] = k /\ \A u \in Caller \ {t} : calls'[u] = calls[u]
  BY <1>3, <1>4, CallsChange
<1> QED BY <1>3, <1>5 DEF Sys_Call

LEMMA CallsAreServed ==
  ASSUME CallInv, NEW t \in Caller, NEW outcome \in DOMAIN Errors(Asked(t)), NEW value,
         Errors(Asked(t))[outcome] = Success => value \in Values(Asked(t)),
         Serve(t, outcome, value)
  PROVE  /\ CallInv' /\ calls[t].stage = "kernel" /\ calls'[t].stage = "library"
         /\ calls'[t].call = calls[t].call
         /\ calls'[t].answer.error = Success => calls'[t].answer.value = value
         /\ \A u \in Caller \ {t} : calls'[u] = calls[u]
<1>1. calls[t].stage = "kernel" /\ calls' = [calls EXCEPT ![t] = Served(calls[t], outcome, value)]
  BY DEF Serve
<1>2. PICK old : old = calls[t]
  OBVIOUS
<1>3. /\ CallOk(old) /\ old.stage = "kernel" /\ outcome \in DOMAIN Errors(Request(old.regs))
      /\ Errors(Request(old.regs))[outcome] = Success => value \in Values(Request(old.regs))
  BY <1>1, <1>2 DEF CallInv, Asked
<1>4. PICK k : k = Served(old, outcome, value)
  OBVIOUS
<1>5. /\ CallOk(k) /\ k.stage = "library" /\ k.call = old.call
      /\ k.answer.error = Success => k.answer.value = value
  BY <1>3, <1>4, ServedOk
<1>6. calls' = [calls EXCEPT ![t] = k]
  BY <1>1, <1>2, <1>4
<1>7. CallInv' /\ calls'[t] = k /\ \A u \in Caller \ {t} : calls'[u] = calls[u]
  BY <1>5, <1>6, CallsChange
<1> QED BY <1>1, <1>2, <1>5, <1>7

LEMMA CallsReturn ==
  ASSUME CallInv, NEW t \in Caller, Return(t)
  PROVE  /\ CallInv' /\ calls[t].stage = "library" /\ IsCall(calls[t].call)
         /\ calls'[t].stage = "program" /\ calls'[t].call = calls[t].call
         /\ calls'[t].answer = calls[t].answer /\ calls'[t].result.value \in Register
         /\ calls'[t].result.error = calls[t].answer.error
         /\ \A u \in Caller \ {t} : calls'[u] = calls[u]
<1>1. calls[t].stage = "library" /\ calls' = [calls EXCEPT ![t] = Returned(calls[t])]
  BY DEF Return
<1>2. PICK old : old = calls[t]
  OBVIOUS
<1>3. CallOk(old) /\ old.stage = "library"
  BY <1>1, <1>2 DEF CallInv
<1>c. IsCall(old.call)
  BY <1>3 DEF CallOk
<1>4. PICK k : k = Returned(old)
  OBVIOUS
<1>5. /\ CallOk(k) /\ k.stage = "program" /\ k.call = old.call /\ k.answer = old.answer
      /\ k.result.value \in Register /\ k.result.error = old.answer.error
  BY <1>3, <1>4, ReturnedOk
<1>6. calls' = [calls EXCEPT ![t] = k]
  BY <1>1, <1>2, <1>4
<1>7. CallInv' /\ calls'[t] = k /\ \A u \in Caller \ {t} : calls'[u] = calls[u]
  BY <1>5, <1>6, CallsChange
<1> QED BY <1>1, <1>2, <1>c, <1>5, <1>7

(* A program that ends leaves no call behind.                              *)
LEMMA CallsEnd ==
  ASSUME CallInv, NEW t \in Caller, calls' = [calls EXCEPT ![t] = Unused]
  PROVE  /\ CallInv' /\ calls'[t].stage = "program"
         /\ \A u \in Caller \ {t} : calls'[u] = calls[u]
BY UnusedOk, CallsChange

(* What is no step of a call leaves it alone.                              *)
LEMMA CallsRest ==
  ASSUME CallInv, calls' = calls
  PROVE  CallInv'
BY DEF CallInv, CallOk, Fields_Are, Arrived, Handed, Has_Result

-----------------------------------------------------------------------------
(* The shell's calls are calls of the library.                             *)
LEMMA ShellsCalls ==
  ASSUME ShellInv,
         at \in {"boot", "welcome", "cwd", "prompt", "path", "beak", "read"}
  PROVE  /\ IsCall(Shell_Call) /\ (at = "boot" => Shell_Call = Boot_Call)
         /\ (at = "read" => Shell_Call = Read_Call)
         /\ (at # "read" => Shell_Call.service # "Read_File")
<1>1. /\ Text \in Register /\ Line_Size \in Register /\ size \in Register
      /\ 0 \in Handle /\ 1 \in Handle /\ 1 \in Register
  BY SessionAssumption, Sizes, SMT DEF ShellInv, Handle, Register
<1>2. at # "boot" => std_in \in Handle /\ std_out \in Handle
  BY <1>1 DEF ShellInv, In, Out
<1>3. IsCall(Boot_Call)
  BY <1>1, SMT DEF Boot_Call, IsCall, In, Out
<1>4. at # "boot" => IsCall(Write_Call(1)) /\ IsCall(Write_Call(size)) /\ IsCall(Read_Call)
  BY <1>1, <1>2, SMT DEF Write_Call, Read_Call, IsCall
<1>5. IsCall(Cwd_Call)
  BY <1>1, SMT DEF Cwd_Call, IsCall
<1>6. \/ at = "boot" /\ Shell_Call = Boot_Call
      \/ /\ at \notin {"boot", "read"}
         /\ (\/ Shell_Call = Write_Call(1) \/ Shell_Call = Write_Call(size)
             \/ Shell_Call = Cwd_Call)
      \/ at = "read" /\ Shell_Call = Read_Call
  BY Zenon DEF Shell_Call
<1>7. /\ \A n : Write_Call(n).service # "Read_File"
      /\ Boot_Call.service # "Read_File" /\ Cwd_Call.service # "Read_File"
  BY SMT DEF Write_Call, Boot_Call, Cwd_Call
<1> QED BY <1>3, <1>4, <1>5, <1>6, <1>7, Zenon

(* What is asked of the console is asked by a call.                        *)
LEMMA AskedOfConsole ==
  ASSUME CallInv, NEW t \in Caller, calls[t].stage = "kernel"
  PROVE  LET c == calls[t].call IN
         /\ c.service \in {"Read_File", "Write_File"} <=>
              Asked(t).service \in {"Read_File", "Write_File"}
         /\ c.service \in {"Read_File", "Write_File"} =>
              /\ Asked(t) = c /\ c.size \in Register /\ "OK" \in DOMAIN Errors(Asked(t))
              /\ Values(Asked(t)) = 0 .. c.size
<1> DEFINE c == calls[t].call
           q == Asked(t)
<1>1. q = Meant(c) /\ IsCall(c)
  BY DEF CallInv, CallOk, Asked
<1> HIDE DEF c, q
<1>2. q.service = c.service
  BY <1>1, SMT DEF Meant, IsCall
<1>3. ASSUME c.service \in {"Read_File", "Write_File"}
      PROVE  /\ q = c /\ c.size \in Register
             /\ Errors(q) = Transferred /\ Values(q) = 0 .. c.size
  <2>1. q = c /\ c.size \in Register
    BY <1>1, <1>3, SMT DEF Meant, IsCall
  <2> QED BY <1>2, <1>3, <2>1, SMT DEF Errors, Values
<1>4. "OK" \in DOMAIN Transferred
  BY DEF Transferred
<1> QED BY <1>2, <1>3, <1>4 DEF c, q

(* When the shell reads a line, it is the console that is read.            *)
LEMMA ReadingALine ==
  ASSUME CallInv, SessionInv, at = "read", calls[Shell].stage = "kernel"
  PROVE  Reads_Console(Shell) /\ ~Writes_Console(Shell)
<1>1. calls[Shell].call = Read_Call /\ std_in = In
  BY DEF SessionInv, ShellInv
<1>2. Read_Call.service = "Read_File" /\ Read_Call.handle = std_in
  BY SMT DEF Read_Call
<1>3. Asked(Shell).service = "Read_File" /\ Asked(Shell).handle = In
  BY <1>1, <1>2, ShellAssumption, AskedOfConsole
<1> QED BY <1>3 DEF Reads_Console, Writes_Console

(* What other threads do leaves a reader's call and its read.              *)
LEMMA ReadersStay ==
  ASSUME SessionInv, NEW t \in Caller, Reader(reads'[t], calls'[t]),
         \A u \in Caller \ {t} :
           /\ reads'[u].state = reads[u].state /\ reads'[u].room = reads[u].room
           /\ calls'[u] = calls[u]
  PROVE  \A u \in Caller : Reader(reads'[u], calls'[u])
<1> TAKE u \in Caller
<1>1. CASE u = t
  BY <1>1
<1>2. CASE u # t
  <2>1. Reader(reads[u], calls[u])
    BY DEF SessionInv
  <2> QED BY <1>2, <2>1 DEF Reader
<1> QED BY <1>1, <1>2

(* A thread that makes no call of Read reads nothing.                      *)
LEMMA NoReader ==
  ASSUME NEW r, NEW k, Reader(r, k),
         k.stage = "program" \/ k.call.service # "Read_File" \/ k.call.handle # In
  PROVE  r.state = "none"
BY DEF Reader

(* The shell's part of the invariant while its call goes on and no other   *)
(* variable of its changes.                                                *)
LEMMA ShellWaits ==
  ASSUME ShellInv, UNCHANGED shell_vars,
         calls'[Shell].call = calls[Shell].call,
         calls'[Shell].stage = "program" <=> calls[Shell].stage = "program",
         at = "read" /\ calls'[Shell].stage = "library" /\ calls'[Shell].answer.error = Success
           => calls'[Shell].answer.value = Len(reads'[Shell].buffer)
  PROVE  ShellInv'
<1>1. /\ at' = at /\ std_in' = std_in /\ std_out' = std_out /\ size' = size /\ line' = line
      /\ commands' = commands
  BY DEF shell_vars
<1>2. Boot_Call' = Boot_Call /\ Read_Call' = Read_Call
  BY <1>1 DEF Boot_Call, Read_Call
<1> QED BY <1>1, <1>2 DEF ShellInv

(* ... and while another thread runs.                                      *)
LEMMA ShellStays ==
  ASSUME ShellInv, UNCHANGED shell_vars, calls'[Shell] = calls[Shell],
         reads'[Shell].buffer = reads[Shell].buffer
  PROVE  ShellInv'
<1>1. at = "read" /\ calls[Shell].stage = "library" /\ calls[Shell].answer.error = Success
        => calls[Shell].answer.value = Len(reads[Shell].buffer)
  BY DEF ShellInv
<1> QED BY <1>1, ShellWaits

(* The programs' part is about three variables.                            *)
LEMMA ProgramsStay ==
  ASSUME ProgramInv, UNCHANGED program_vars
  PROVE  ProgramInv'
BY DEF ProgramInv, program_vars

(* A line that was read has the cells of the buffer for its tokens, and    *)
(* its commands are kept.                                                  *)
LEMMA LinesAreKept ==
  ASSUME NEW chars \in Seq(Cell)
  PROVE  LineIsKept(Words(chars), Parse_Input(Words(chars)))
<1> DEFINE text == Stripped(chars)
           places == {i \in DOMAIN text : text[i] # NL}
<1>1. text \in Seq(Cell)
  <2>1. CASE chars # <<>> /\ Last(chars) = EOT
    <3>1. Front(chars) \in Seq(Cell)
      BY <2>1, Fronts
    <3> QED BY <2>1, <3>1 DEF Stripped
  <2>2. CASE ~(chars # <<>> /\ Last(chars) = EOT)
    BY <2>2 DEF Stripped
  <2> QED BY <2>1, <2>2
<1> HIDE DEF text
<1>2. Words(chars) = Selected(text, places)
  BY Zenon DEF Words, text
<1> HIDE DEF places
<1>3. Selected(text, places) \in Seq(Cell)
  BY ONLY <1>1, SelectedAlike
<1>4. \A t \in Cell : ~Is_Bar(t) => Written(t) # NoName
  <2>1. \A name : Written(Control(name)) = name
    BY SMT DEF Written, Control
  <2>2. "NUL" # NoName /\ "EOT" # NoName /\ "NL" # NoName /\ "old" # NoName
    BY Zenon DEF NoName
  <2>3. \A t \in {NUL, EOT, NL, Old} : Written(t) # NoName
    BY <2>1, <2>2, Zenon DEF NUL, EOT, NL, Old
  <2> QED BY <2>3, WordAssumption, Zenon DEF Cell
<1>5. Words(chars) \in Seq(Cell)
  BY <1>2, <1>3
<1> QED BY ONLY <1>4, <1>5, LinesAreParsed

(* The session starts with the invariant.                                  *)
LEMMA Begins == Init => IInv
<1> SUFFICES ASSUME Init  PROVE IInv
  OBVIOUS
<1>1. ConsoleInv /\ \A t \in Caller : reads[t].state = "none"
  BY ConsoleBegins DEF Init
<1>2. /\ calls = [t \in Caller |-> Unused] /\ at = "boot" /\ size = 0
      /\ running = {} /\ awaited = {} /\ made = 0
  BY DEF Init, Calls_Init
<1>3. ASSUME NEW f, f = [t \in Caller |-> Unused]
      PROVE  f = [t \in Caller |-> f[t]] /\ \A t \in Caller : f[t] = Unused
  BY ONLY <1>3, Zenon
<1>4. calls = [t \in Caller |-> calls[t]] /\ \A t \in Caller : calls[t] = Unused
  BY ONLY <1>2, <1>3, Zenon
<1>5. CallInv
  BY ONLY <1>4, UnusedOk, Zenon DEF CallInv
<1>6. calls[Shell].stage = "program"
  BY ONLY <1>4, UnusedOk, ShellAssumption, Zenon
<1>7. 0 \in Register /\ 0 \in 0 .. MaxCalls
  BY Sizes, SessionAssumption, SMT DEF Register
<1>8. ShellInv
  BY ONLY <1>2, <1>6, <1>7, Zenon DEF ShellInv
<1>9. ProgramInv
  BY ONLY <1>2, <1>7, Zenon DEF ProgramInv
<1>10. \A t \in Caller : Reader(reads[t], calls[t])
  BY ONLY <1>1, Zenon DEF Reader
<1> QED BY <1>1, <1>5, <1>8, <1>9, <1>10 DEF IInv, SessionInv

(* What the kernel and the keyboard do for a thread, the shell's or        *)
(* another.                                                                *)
LEMMA ServicesKeep ==
  ASSUME IInv, NEW t \in Caller,
         Start_Read(t) \/ Press(t) \/ Finish_Read(t) \/ Serve_Write(t) \/ Serve_Other(t)
  PROVE  IInv'
<1>i. CallInv /\ ConsoleInv /\ SessionInv /\ ShellInv /\ ProgramInv /\ Reader(reads[t], calls[t])
  BY DEF IInv, SessionInv
<1>n. ASSUME reads[t].state # "none"
      PROVE  /\ calls[t].stage # "program" /\ calls[t].call.service = "Read_File"
             /\ calls[t].call.handle = In /\ calls[t].call.size = reads[t].room
  BY <1>i, <1>n DEF Reader
<1>s. Shell \in Caller
  BY ShellAssumption
<1>1. CASE Start_Read(t)
  <2>1. /\ calls[t].stage = "kernel" /\ Asked(t).service = "Read_File" /\ Asked(t).handle = In
        /\ Read_Starts(t, Asked(t).size)
        /\ calls' = calls /\ UNCHANGED shell_vars /\ UNCHANGED program_vars
    BY <1>1 DEF Start_Read, Reads_Console
  <2>2. /\ Asked(t) = calls[t].call /\ Asked(t).size \in Register
    BY <1>i, <2>1, AskedOfConsole
  <2>3. PICK n : n = Asked(t).size
    OBVIOUS
  <2>4. /\ ConsoleInv' /\ reads'[t].state = "reading" /\ reads'[t].room = n
        /\ \A u \in Caller \ {t} : reads'[u] = reads[u]
    BY <1>i, <2>1, <2>2, <2>3, ReadsStart
  <2>5. Reader(reads'[t], calls'[t])
    BY <2>1, <2>2, <2>3, <2>4 DEF Reader
  <2>6. \A u \in Caller : Reader(reads'[u], calls'[u])
    BY <1>i, <2>1, <2>4, <2>5, ReadersStay
  <2>7. ShellInv'
    <3>1. CASE t = Shell
      BY <1>i, <2>1, <3>1, ShellWaits
    <3>2. CASE t # Shell
      BY <1>i, <1>s, <2>1, <2>4, <3>2, ShellStays
    <3> QED BY <3>1, <3>2
  <2> QED BY <1>i, <2>1, <2>4, <2>6, <2>7, CallsRest, ProgramsStay DEF IInv, SessionInv
<1>2. CASE Press(t)
  <2>1. /\ Key(t) \/ Read_Nothing(t)
        /\ calls' = calls /\ UNCHANGED shell_vars /\ UNCHANGED program_vars
    BY <1>2 DEF Press
  <2>2. /\ ConsoleInv' /\ reads[t].state = "reading"
        /\ reads'[t].state \in {"reading", "done"} /\ reads'[t].room = reads[t].room
        /\ \A u \in Caller \ {t} :
             /\ reads'[u].state = reads[u].state /\ reads'[u].room = reads[u].room
             /\ reads'[u].buffer = reads[u].buffer
    BY <1>i, <2>1, KeysKeep, NothingRead
  <2>3. calls[t].stage = "kernel"
    BY <1>i, <2>2 DEF Reader
  <2>4. Reader(reads'[t], calls'[t])
    BY <1>n, <2>1, <2>2, <2>3 DEF Reader
  <2>5. \A u \in Caller : Reader(reads'[u], calls'[u])
    BY <1>i, <2>1, <2>2, <2>4, ReadersStay
  <2>6. ShellInv'
    <3>1. CASE t = Shell
      BY <1>i, <2>1, <2>3, <3>1, ShellWaits
    <3>2. CASE t # Shell
      BY <1>i, <1>s, <2>1, <2>2, <3>2, ShellStays
    <3> QED BY <3>1, <3>2
  <2> QED BY <1>i, <2>1, <2>2, <2>5, <2>6, CallsRest, ProgramsStay DEF IInv, SessionInv
<1>3. CASE Finish_Read(t)
  <2>1. /\ reads[t].state = "done" /\ Serve(t, "OK", Len(reads[t].buffer))
        /\ UNCHANGED console_vars /\ UNCHANGED shell_vars /\ UNCHANGED program_vars
    BY <1>3 DEF Finish_Read
  <2>2. calls[t].stage = "kernel" /\ calls[t].call.service = "Read_File"
        /\ calls[t].call.size = reads[t].room
    BY <1>n, <2>1 DEF Serve
  <2>3. /\ "OK" \in DOMAIN Errors(Asked(t)) /\ Values(Asked(t)) = 0 .. reads[t].room
    BY <1>i, <2>2, AskedOfConsole
  <2>4. Len(reads[t].buffer) \in 0 .. reads[t].room
    <3>1. /\ reads[t].buffer \in Seq(Cell) /\ Len(reads[t].buffer) <= reads[t].room
          /\ reads[t].room \in Nat
      BY <1>i DEF ConsoleInv, ReadOk, Register
    <3> QED BY <3>1, SMT
  <2>v. PICK v : v = Len(reads[t].buffer)
    OBVIOUS
  <2>5. /\ CallInv' /\ calls'[t].stage = "library" /\ calls'[t].call = calls[t].call
        /\ calls'[t].answer.error = Success => calls'[t].answer.value = v
        /\ \A u \in Caller \ {t} : calls'[u] = calls[u]
    BY <1>i, <2>1, <2>3, <2>4, <2>v, CallsAreServed
  <2>6. ConsoleInv' /\ reads' = reads
    BY <1>i, <2>1, ConsoleRests
  <2>7. Reader(reads'[t], calls'[t])
    BY <1>n, <2>1, <2>5, <2>6 DEF Reader
  <2>8. \A u \in Caller : Reader(reads'[u], calls'[u])
    BY <1>i, <2>5, <2>6, <2>7, ReadersStay
  <2>9. ShellInv'
    <3>1. CASE t = Shell
      BY <1>i, <2>1, <2>2, <2>v, <2>5, <2>6, <3>1, ShellWaits
    <3>2. CASE t # Shell
      BY <1>i, <1>s, <2>1, <2>5, <2>6, <3>2, ShellStays
    <3> QED BY <3>1, <3>2
  <2> QED BY <1>i, <2>1, <2>5, <2>6, <2>8, <2>9, ProgramsStay DEF IInv, SessionInv
<1>4. CASE Serve_Write(t)
  <2>1. /\ calls[t].stage = "kernel" /\ Asked(t).service = "Write_File"
        /\ Write_Console(t, [i \in 1 .. Asked(t).size |-> Old])
        /\ Serve(t, "OK", Asked(t).size) /\ UNCHANGED shell_vars /\ UNCHANGED program_vars
    BY <1>4 DEF Serve_Write, Writes_Console
  <2>2. /\ Asked(t) = calls[t].call /\ Asked(t).size \in Register
        /\ "OK" \in DOMAIN Errors(Asked(t)) /\ Values(Asked(t)) = 0 .. Asked(t).size
    BY <1>i, <2>1, AskedOfConsole
  <2>n. PICK n : n = Asked(t).size
    OBVIOUS
  <2>3. n \in Register /\ n \in 0 .. n
    BY <2>2, <2>n, SMT DEF Register
  <2>4. calls[t].call.service # "Read_File"
    BY <2>1, <2>2
  <2>5. reads[t].state = "none"
    BY <1>n, <2>4
  <2>6. /\ CallInv' /\ calls'[t].stage = "library" /\ calls'[t].call = calls[t].call
        /\ \A u \in Caller \ {t} : calls'[u] = calls[u]
    BY <1>i, <2>1, <2>2, <2>n, <2>3, CallsAreServed
  <2>7. /\ ConsoleInv' /\ reads'[t] = reads[t]
        /\ \A u \in Caller \ {t} :
             /\ reads'[u].state = reads[u].state /\ reads'[u].room = reads[u].room
             /\ reads'[u].buffer = reads[u].buffer
    BY <1>i, <2>1, <2>n, <2>3, <2>5, WritesKeep
  <2>8. Reader(reads'[t], calls'[t])
    BY <2>5, <2>7 DEF Reader
  <2>9. \A u \in Caller : Reader(reads'[u], calls'[u])
    BY <1>i, <2>6, <2>7, <2>8, ReadersStay
  <2>10. ShellInv'
    <3>1. CASE t = Shell
      <4>1. Read_Call.service = "Read_File"
        BY SMT DEF Read_Call
      <4>2. at # "read"
        BY <1>i, <2>1, <2>4, <3>1, <4>1 DEF ShellInv
      <4> QED BY <1>i, <2>1, <2>6, <3>1, <4>2, ShellWaits
    <3>2. CASE t # Shell
      BY <1>i, <1>s, <2>1, <2>6, <2>7, <3>2, ShellStays
    <3> QED BY <3>1, <3>2
  <2> QED BY <1>i, <2>1, <2>6, <2>7, <2>9, <2>10, ProgramsStay DEF IInv, SessionInv
<1>5. CASE Serve_Other(t)
  <2>1. PICK outcome \in DOMAIN Errors(Asked(t)) :
          /\ \E value \in IF Errors(Asked(t))[outcome] = Success THEN Values(Asked(t)) ELSE {0} :
               Serve(t, outcome, value)
          /\ IF outcome = "OK" /\ Starts_Thread(t) THEN Start_Thread(t)
             ELSE UNCHANGED program_vars
    BY <1>5 DEF Serve_Other
  <2>2. PICK value \in IF Errors(Asked(t))[outcome] = Success THEN Values(Asked(t)) ELSE {0} :
          Serve(t, outcome, value)
    BY <2>1
  <2>3. /\ calls[t].stage = "kernel" /\ ~Reads_Console(t)
        /\ UNCHANGED console_vars /\ UNCHANGED shell_vars
    BY <1>5 DEF Serve_Other
  <2>4. /\ CallInv' /\ calls'[t].stage = "library" /\ calls'[t].call = calls[t].call
        /\ \A u \in Caller \ {t} : calls'[u] = calls[u]
    BY <1>i, <2>2, CallsAreServed
  <2>5. ConsoleInv' /\ reads' = reads
    BY <1>i, <2>3, ConsoleRests
  <2>6. ~(calls[t].call.service = "Read_File" /\ calls[t].call.handle = In)
    BY <1>i, <2>3, AskedOfConsole DEF Reads_Console
  <2>7. reads[t].state = "none"
    BY <1>n, <2>6
  <2>8. Reader(reads'[t], calls'[t])
    BY <2>5, <2>7 DEF Reader
  <2>9. \A u \in Caller : Reader(reads'[u], calls'[u])
    BY <1>i, <2>4, <2>5, <2>8, ReadersStay
  <2>10. ShellInv'
    <3>1. CASE t = Shell
      <4>1. at # "read"
        BY <1>i, <2>3, <3>1, ReadingALine
      <4> QED BY <1>i, <2>3, <2>4, <3>1, <4>1, ShellWaits
    <3>2. CASE t # Shell
      BY <1>i, <1>s, <2>3, <2>4, <2>5, <3>2, ShellStays
    <3> QED BY <3>1, <3>2
  <2>11. ProgramInv'
    <3>1. CASE UNCHANGED program_vars
      BY <1>i, <3>1, ProgramsStay
    <3>2. CASE Start_Thread(t)
      BY <1>i, <3>2 DEF Start_Thread, ProgramInv
    <3> QED BY <2>1, <3>1, <3>2
  <2> QED BY <2>4, <2>5, <2>9, <2>10, <2>11 DEF IInv, SessionInv
<1> QED BY <1>1, <1>2, <1>3, <1>4, <1>5

(* The shell's own steps, and those of the programs.                       *)
LEMMA ThreadsKeep ==
  ASSUME IInv, NEW t \in Caller,
         \/ t = Shell /\ \/ Ask \/ Shell_Starts \/ Shell_Goes_On \/ Read_Line
                         \/ Skip_Empty \/ Echo_Switch \/ Leave \/ Execute
                         \/ Line_Asks \/ Line_Is_Told \/ Line_Ends
         \/ t \in Program /\ (Program_Asks(t) \/ Program_Is_Told(t) \/ Program_Ends(t))
  PROVE  IInv'
<1>i. /\ CallInv /\ ConsoleInv /\ SessionInv /\ ShellInv /\ ProgramInv
      /\ \A u \in Caller : Reader(reads[u], calls[u])
  BY DEF IInv, SessionInv
<1>s. Shell \in Caller
  BY ShellAssumption
<1>h. /\ size \in Register
      /\ at \notin {"boot", "ended"} => std_in = In /\ std_out = Out
      /\ calls[Shell].stage # "program" =>
           /\ at = "boot" => calls[Shell].call = Boot_Call
           /\ at = "read" => calls[Shell].call = Read_Call
           /\ at # "read" => calls[Shell].call.service # "Read_File"
      /\ at = "read" /\ calls[Shell].stage = "library" /\ calls[Shell].answer.error = Success =>
           calls[Shell].answer.value = Len(reads[Shell].buffer)
      /\ at = "line" => calls[Shell].stage = "program" /\ LineIsKept(line, commands)
  BY <1>i DEF ShellInv
<1>n. ASSUME NEW u \in Caller, reads'[u].state = "none"
      PROVE  Reader(reads'[u], calls'[u])
  BY <1>n DEF Reader
(* A thread that asks for something: it did not read before.               *)
<1>a. ASSUME NEW u \in Caller, NEW c, IsCall(c), Sys_Call(u, c), UNCHANGED console_vars
      PROVE  /\ CallInv' /\ ConsoleInv' /\ reads' = reads /\ calls[u].stage = "program"
             /\ calls'[u].stage = "kernel" /\ calls'[u].call = c
             /\ \A v \in Caller \ {u} : calls'[v] = calls[v]
             /\ \A v \in Caller : Reader(reads'[v], calls'[v])
  <2>1. /\ CallInv' /\ calls[u].stage = "program"
        /\ calls'[u].stage = "kernel" /\ calls'[u].call = c
        /\ \A v \in Caller \ {u} : calls'[v] = calls[v]
    BY <1>a, <1>i, CallsAreMade
  <2>2. ConsoleInv' /\ reads' = reads
    BY <1>a, <1>i, ConsoleRests
  <2>3. reads[u].state = "none"
    BY <1>i, <2>1, NoReader
  <2>4. Reader(reads'[u], calls'[u])
    BY <1>n, <2>2, <2>3
  <2>5. \A v \in Caller : Reader(reads'[v], calls'[v])
    BY <1>i, <2>1, <2>2, <2>4, ReadersStay
  <2> QED BY <2>1, <2>2, <2>5
(* The shell has the answer of a call that is no Read.                     *)
<1>b. ASSUME Return(Shell), at # "read", UNCHANGED console_vars
      PROVE  /\ CallInv' /\ ConsoleInv' /\ calls'[Shell].stage = "program"
             /\ calls[Shell].stage = "library" /\ calls'[Shell].result.value \in Register
             /\ \A v \in Caller : Reader(reads'[v], calls'[v])
  <2>1. /\ CallInv' /\ calls[Shell].stage = "library" /\ calls'[Shell].stage = "program"
        /\ calls'[Shell].result.value \in Register
        /\ \A v \in Caller \ {Shell} : calls'[v] = calls[v]
    BY <1>b, <1>i, <1>s, CallsReturn
  <2>2. ConsoleInv' /\ reads' = reads
    BY <1>b, <1>i, ConsoleRests
  <2>3. reads[Shell].state = "none"
    BY <1>b, <1>h, <1>i, <1>s, <2>1, NoReader
  <2>4. Reader(reads'[Shell], calls'[Shell])
    BY <1>n, <1>s, <2>2, <2>3
  <2>5. \A v \in Caller : Reader(reads'[v], calls'[v])
    BY <1>i, <1>s, <2>1, <2>2, <2>4, ReadersStay
  <2> QED BY <2>1, <2>2, <2>5
(* A thread has the answer of a call that may be a Read.                   *)
<1>c. ASSUME NEW u \in Caller, Return(u), Read_Is_Over(u)
      PROVE  /\ CallInv' /\ ConsoleInv' /\ calls'[u].stage = "program"
             /\ \A v \in Caller \ {u} : calls'[v] = calls[v] /\ reads'[v] = reads[v]
             /\ \A v \in Caller : Reader(reads'[v], calls'[v])
  <2>1. /\ CallInv' /\ calls'[u].stage = "program"
        /\ \A v \in Caller \ {u} : calls'[v] = calls[v]
    BY <1>c, <1>i, CallsReturn
  <2>2. /\ ConsoleInv' /\ reads'[u].state = "none"
        /\ \A v \in Caller \ {u} : reads'[v] = reads[v]
    BY <1>c, <1>i, ReadsEnd
  <2>3. Reader(reads'[u], calls'[u])
    BY <1>n, <2>2
  <2>4. \A v \in Caller : Reader(reads'[v], calls'[v])
    BY <1>i, <2>1, <2>2, <2>3, ReadersStay
  <2> QED BY <2>1, <2>2, <2>4
(* The shell runs without a call.                                          *)
<1>d. ASSUME calls' = calls, UNCHANGED console_vars
      PROVE  /\ CallInv' /\ ConsoleInv' /\ reads' = reads
             /\ \A v \in Caller : Reader(reads'[v], calls'[v])
  <2>1. CallInv' /\ ConsoleInv' /\ reads' = reads
    BY <1>d, <1>i, CallsRest, ConsoleRests
  <2> QED BY <1>d, <1>i, <2>1
<1>k. ASSUME CallInv', ConsoleInv', ShellInv', ProgramInv',
             \A v \in Caller : Reader(reads'[v], calls'[v])
      PROVE  IInv'
  BY <1>k DEF IInv, SessionInv
<1>1. CASE Ask
  <2>1. /\ at \in {"boot", "welcome", "cwd", "prompt", "path", "beak", "read"}
        /\ Sys_Call(Shell, Shell_Call)
        /\ UNCHANGED console_vars /\ UNCHANGED shell_vars /\ UNCHANGED program_vars
    BY <1>1 DEF Ask
  <2>c. PICK c : c = Shell_Call
    OBVIOUS
  <2>2. /\ IsCall(c) /\ (at = "boot" => c = Boot_Call)
        /\ (at = "read" => c = Read_Call) /\ (at # "read" => c.service # "Read_File")
    BY <1>i, <2>1, <2>c, ShellsCalls
  <2>3. Sys_Call(Shell, c)
    BY <2>1, <2>c
  <2>4. /\ CallInv' /\ ConsoleInv' /\ calls'[Shell].stage = "kernel" /\ calls'[Shell].call = c
        /\ \A v \in Caller : Reader(reads'[v], calls'[v])
    BY <1>a, <1>s, <2>1, <2>2, <2>3
  <2>5. /\ at' = at /\ size' = size /\ std_in' = std_in /\ std_out' = std_out
        /\ Boot_Call' = Boot_Call /\ Read_Call' = Read_Call /\ at # "line"
    BY <2>1 DEF shell_vars, Boot_Call, Read_Call
  <2>6. ShellInv'
    BY <1>h, <2>2, <2>4, <2>5 DEF ShellInv
  <2> QED BY <1>i, <1>k, <2>1, <2>4, <2>6, ProgramsStay
<1>2. CASE Shell_Starts
  <2>1. /\ at = "boot" /\ Return(Shell)
        /\ \/ /\ at' = "welcome"
              /\ std_in' = calls[Shell].request.stdin /\ std_out' = calls[Shell].request.stdout
           \/ at' = "ended"
        /\ UNCHANGED console_vars /\ size' = size /\ UNCHANGED program_vars
    BY <1>2 DEF Shell_Starts
  <2>2. /\ CallInv' /\ ConsoleInv' /\ calls'[Shell].stage = "program"
        /\ calls[Shell].stage = "library"
        /\ \A v \in Caller : Reader(reads'[v], calls'[v])
    BY <1>b, <2>1
  <2>3. calls[Shell].request.stdin = In /\ calls[Shell].request.stdout = Out
    <3>1. calls[Shell].call = Boot_Call
      BY <1>h, <2>1, <2>2
    <3>2. calls[Shell].request = Meant(Boot_Call)
      BY <1>i, <1>s, <2>2, <3>1 DEF CallInv, CallOk, Arrived
    <3> QED BY <3>2, SMT DEF Meant, Boot_Call
  <2>4. ShellInv'
    BY <1>h, <2>1, <2>2, <2>3 DEF ShellInv
  <2> QED BY <1>i, <1>k, <2>1, <2>2, <2>4, ProgramsStay
<1>3. CASE Shell_Goes_On
  <2>1. /\ at \in DOMAIN Next_Of /\ Return(Shell) /\ at' = Next_Of[at]
        /\ size' = (IF at = "cwd" THEN calls'[Shell].result.value ELSE size)
        /\ UNCHANGED console_vars /\ std_in' = std_in /\ std_out' = std_out
        /\ UNCHANGED program_vars
    BY <1>3 DEF Shell_Goes_On
  <2>2. at \notin {"boot", "ended", "read"} /\ at' \notin {"boot", "ended", "line"}
    BY <2>1, SMT DEF Next_Of, Prompt
  <2>3. /\ CallInv' /\ ConsoleInv' /\ calls'[Shell].stage = "program"
        /\ calls'[Shell].result.value \in Register
        /\ \A v \in Caller : Reader(reads'[v], calls'[v])
    BY <1>b, <2>1, <2>2
  <2>4. ShellInv'
    BY <1>h, <2>1, <2>2, <2>3 DEF ShellInv
  <2> QED BY <1>i, <1>k, <2>1, <2>3, <2>4, ProgramsStay
<1>4. CASE Read_Line
  <2>1. /\ at = "read" /\ Return(Shell) /\ Read_Is_Over(Shell)
        /\ std_in' = std_in /\ std_out' = std_out /\ size' = size /\ UNCHANGED program_vars
        /\ at' \in {"line", "cwd", "read"}
    BY <1>4, SMT DEF Read_Line, Prompt
  <2>2. /\ CallInv' /\ ConsoleInv' /\ calls'[Shell].stage = "program"
        /\ \A v \in Caller : Reader(reads'[v], calls'[v])
    BY <1>c, <1>s, <2>1
  <2>3. /\ calls[Shell].stage = "library" /\ calls'[Shell].call = calls[Shell].call
        /\ IsCall(calls[Shell].call) /\ calls'[Shell].answer = calls[Shell].answer
        /\ calls'[Shell].result.error = calls[Shell].answer.error
    BY <1>i, <1>s, <2>1, CallsReturn
  <2>4. ASSUME at' = "line"  PROVE LineIsKept(line', commands')
    <3>1. /\ calls'[Shell].result.error = Success
          /\ line' = Words(SubSeq(reads[Shell].buffer, 1, calls'[Shell].result.value))
          /\ commands' = Parse_Input(line')
      BY <1>4, <2>4, SMT DEF Read_Line, Prompt
    <3>2. calls[Shell].call = Read_Call
      BY <1>h, <2>1, <2>3
    <3>3. calls'[Shell].result.value = calls[Shell].answer.value
      <4>1. Read_Call.service = "Read_File" /\ Nothing.service = NoCall
        BY DEF Read_Call, Nothing
      <4>2. "Read_File" \in DOMAIN Numbers
        BY SMT DEF Numbers
      <4>3. calls'[Shell].call # Nothing
        BY <2>3, <3>2, <4>1, <4>2, NoCallAssumption
      <4>4. PICK k : k = calls'[Shell]
        OBVIOUS
      <4>5. CallOk(k)
        <5>1. \A u \in Caller : CallOk(calls'[u])
          BY <2>2 DEF CallInv, CallOk, Fields_Are, Arrived, Handed, Has_Result
        <5> QED BY <1>s, <4>4, <5>1
      <4>6. Has_Result(k)
        BY <2>2, <4>3, <4>4 DEF Has_Result
      <4>7. k.result.error = Success => k.result.value = Told(k.call, k.answer.value)
        BY <4>5, <4>6 DEF CallOk, Handed
      <4>8. k.call.service = "Read_File"
        BY <2>3, <3>2, <4>1, <4>4
      <4>9. Told(k.call, k.answer.value) = k.answer.value
        BY <4>8 DEF Told
      <4> QED BY <2>3, <3>1, <4>4, <4>7, <4>9
    <3>4. calls[Shell].answer.value = Len(reads[Shell].buffer)
      BY <1>h, <2>1, <2>3, <3>1
    <3>5. PICK chars : chars = reads[Shell].buffer
      OBVIOUS
    <3>6. chars \in Seq(Cell)
      BY <1>i, <1>s, <3>5 DEF ConsoleInv, ReadOk
    <3>7. SubSeq(chars, 1, Len(chars)) = chars
      BY <3>6, SMT
    <3>8. line' = Words(chars)
      BY <3>1, <3>3, <3>4, <3>5, <3>7
    <3>9. LineIsKept(Words(chars), Parse_Input(Words(chars)))
      BY <3>6, LinesAreKept
    <3> QED BY <3>1, <3>8, <3>9
  <2>5. ShellInv'
    BY <1>h, <2>1, <2>2, <2>4 DEF ShellInv
  <2> QED BY <1>i, <1>k, <2>1, <2>2, <2>5, ProgramsStay
<1>o. ASSUME NEW next, NEW echo, Obey(next, echo), next \notin {"boot", "line"}
      PROVE  IInv'
  <2>1. /\ at = "line" /\ at' = next /\ size' = 0 /\ calls' = calls
        /\ UNCHANGED console_vars /\ std_in' = std_in /\ std_out' = std_out
        /\ UNCHANGED program_vars
    BY <1>o DEF Obey
  <2>2. /\ CallInv' /\ ConsoleInv' /\ \A v \in Caller : Reader(reads'[v], calls'[v])
    BY <1>d, <2>1
  <2>3. 0 \in Register
    BY Sizes, SMT DEF Register
  <2>4. ShellInv'
    BY <1>h, <1>o, <2>1, <2>3 DEF ShellInv
  <2> QED BY <1>i, <1>k, <2>1, <2>2, <2>4, ProgramsStay
<1>5. CASE Skip_Empty \/ Echo_Switch \/ Leave \/ Execute
  <2>1. \A echo : Prompt(echo) \notin {"boot", "line"}
    BY SMT DEF Prompt
  <2> QED BY <1>5, <1>o, <2>1, Zenon DEF Skip_Empty, Echo_Switch, Leave, Execute
<1>6. CASE Line_Asks
  <2>1. PICK c \in Program_Calls : c.service \in Line_Services /\ Sys_Call(Shell, c)
    BY <1>6 DEF Line_Asks
  <2>2. /\ at = "running" /\ made < MaxCalls /\ made' = made + 1 /\ running' = running
        /\ awaited' = awaited /\ UNCHANGED console_vars /\ UNCHANGED shell_vars
    BY <1>6 DEF Line_Asks
  <2>3. IsCall(c) /\ c.service # "Read_File"
    BY <2>1, CallAssumption, SMT DEF Line_Services
  <2>4. /\ CallInv' /\ ConsoleInv' /\ calls'[Shell].stage = "kernel" /\ calls'[Shell].call = c
        /\ \A v \in Caller : Reader(reads'[v], calls'[v])
    BY <1>a, <1>s, <2>1, <2>2, <2>3
  <2>5. ShellInv'
    <3>1. at' = at /\ size' = size /\ std_in' = std_in /\ std_out' = std_out
      BY <2>2 DEF shell_vars
    <3> QED BY <1>h, <2>2, <2>3, <2>4, <3>1 DEF ShellInv
  <2>6. ProgramInv'
    BY <1>i, <2>2, SessionAssumption, SMT DEF ProgramInv
  <2> QED BY <1>k, <2>4, <2>5, <2>6
<1>7. CASE Line_Is_Told
  <2>1. /\ at = "running" /\ Return(Shell) /\ awaited' \in {{}, awaited}
        /\ UNCHANGED console_vars /\ UNCHANGED shell_vars
        /\ running' = running /\ made' = made
    BY <1>7 DEF Line_Is_Told
  <2>2. /\ CallInv' /\ ConsoleInv' /\ calls'[Shell].stage = "program"
        /\ \A v \in Caller : Reader(reads'[v], calls'[v])
    BY <1>b, <2>1
  <2>3. ShellInv'
    <3>1. at' = at /\ size' = size /\ std_in' = std_in /\ std_out' = std_out
      BY <2>1 DEF shell_vars
    <3> QED BY <1>h, <2>1, <2>2, <3>1 DEF ShellInv
  <2>4. ProgramInv'
    BY <1>i, <2>1 DEF ProgramInv
  <2> QED BY <1>k, <2>2, <2>3, <2>4
<1>8. CASE Line_Ends
  <2>1. /\ at = "running" /\ calls[Shell].stage = "program" /\ at' \in {"cwd", "read"}
        /\ calls' = calls /\ UNCHANGED console_vars /\ std_in' = std_in /\ std_out' = std_out
        /\ size' = size /\ UNCHANGED program_vars
    BY <1>8, SMT DEF Line_Ends, Prompt
  <2>2. /\ CallInv' /\ ConsoleInv' /\ \A v \in Caller : Reader(reads'[v], calls'[v])
    BY <1>d, <2>1
  <2>3. ShellInv'
    BY <1>h, <2>1 DEF ShellInv
  <2> QED BY <1>i, <1>k, <2>1, <2>2, <2>3, ProgramsStay
<1>p. ASSUME t \in Program
      PROVE  t # Shell /\ Shell \in Caller \ {t}
  BY <1>p, <1>s DEF Program
<1>9. CASE t \in Program /\ Program_Asks(t)
  <2>1. PICK c \in Program_Calls : Sys_Call(t, c)
    BY <1>9 DEF Program_Asks
  <2>2. /\ made < MaxCalls /\ made' = made + 1 /\ running' = running /\ awaited' = awaited
        /\ UNCHANGED console_vars /\ UNCHANGED shell_vars
    BY <1>9 DEF Program_Asks
  <2>3. /\ CallInv' /\ ConsoleInv' /\ reads' = reads
        /\ \A v \in Caller \ {t} : calls'[v] = calls[v]
        /\ \A v \in Caller : Reader(reads'[v], calls'[v])
    BY <1>a, <2>1, <2>2, CallAssumption
  <2>4. ShellInv'
    BY <1>i, <1>p, <1>9, <2>2, <2>3, ShellStays
  <2>5. ProgramInv'
    BY <1>i, <2>2, SessionAssumption, SMT DEF ProgramInv
  <2> QED BY <1>k, <2>3, <2>4, <2>5
<1>10. CASE t \in Program /\ Program_Is_Told(t)
  <2>1. Return(t) /\ Read_Is_Over(t) /\ UNCHANGED shell_vars /\ UNCHANGED program_vars
    BY <1>10 DEF Program_Is_Told
  <2>2. /\ CallInv' /\ ConsoleInv'
        /\ \A v \in Caller \ {t} : calls'[v] = calls[v] /\ reads'[v] = reads[v]
        /\ \A v \in Caller : Reader(reads'[v], calls'[v])
    BY <1>c, <2>1
  <2>3. ShellInv'
    BY <1>i, <1>p, <1>10, <2>1, <2>2, ShellStays
  <2> QED BY <1>i, <1>k, <2>1, <2>2, <2>3, ProgramsStay
<1>11. CASE t \in Program /\ Program_Ends(t)
  <2>1. /\ calls[t].stage = "program" /\ calls' = [calls EXCEPT ![t] = Unused]
        /\ running' = running \ {t} /\ awaited' = awaited \ {t} /\ made' = made
        /\ UNCHANGED console_vars /\ UNCHANGED shell_vars
    BY <1>11 DEF Program_Ends
  <2>2. CallInv' /\ \A v \in Caller \ {t} : calls'[v] = calls[v]
    BY <1>i, <2>1, CallsEnd
  <2>3. ConsoleInv' /\ reads' = reads
    BY <1>i, <2>1, ConsoleRests
  <2>4. reads[t].state = "none"
    BY <1>i, <2>1, NoReader
  <2>5. Reader(reads'[t], calls'[t])
    BY <1>n, <2>3, <2>4
  <2>6. \A v \in Caller : Reader(reads'[v], calls'[v])
    BY <1>i, <2>2, <2>3, <2>5, ReadersStay
  <2>7. ShellInv'
    BY <1>i, <1>p, <1>11, <2>1, <2>2, <2>3, ShellStays
  <2>8. ProgramInv'
    BY <1>i, <2>1 DEF ProgramInv
  <2> QED BY <1>k, <2>2, <2>3, <2>6, <2>7, <2>8
<1> QED
  BY <1>1, <1>2, <1>3, <1>4, <1>5, <1>6, <1>7, <1>8, <1>9, <1>10, <1>11

(* Every step keeps the invariant.                                         *)
LEMMA Steps == IInv /\ [Next]_vars => IInv'
<1> SUFFICES ASSUME IInv, [Next]_vars  PROVE IInv'
  OBVIOUS
<1>1. ASSUME NEW t \in Caller,
             Start_Read(t) \/ Press(t) \/ Finish_Read(t) \/ Serve_Write(t) \/ Serve_Other(t)
      PROVE  IInv'
  BY <1>1, ServicesKeep
<1>2. CASE \/ Ask \/ Shell_Starts \/ Shell_Goes_On \/ Read_Line
           \/ Skip_Empty \/ Echo_Switch \/ Leave \/ Execute
           \/ Line_Asks \/ Line_Is_Told \/ Line_Ends
  BY <1>2, ShellAssumption, ThreadsKeep
<1>3. ASSUME NEW p \in Program, Program_Asks(p) \/ Program_Is_Told(p) \/ Program_Ends(p)
      PROVE  IInv'
  <2>1. p \in Caller
    BY DEF Program
  <2> QED BY <1>3, <2>1, ThreadsKeep
<1>4. CASE UNCHANGED vars
  <2>1. calls' = calls /\ UNCHANGED console_vars /\ UNCHANGED shell_vars /\ UNCHANGED program_vars
    BY <1>4 DEF vars
  <2>2. CallInv /\ ConsoleInv /\ ShellInv /\ ProgramInv
        /\ \A v \in Caller : Reader(reads[v], calls[v])
    BY DEF IInv, SessionInv
  <2>3. CallInv' /\ ConsoleInv' /\ reads' = reads
    BY <2>1, <2>2, CallsRest, ConsoleRests
  <2>4. \A v \in Caller : Reader(reads'[v], calls'[v])
    BY <2>1, <2>2, <2>3
  <2> QED BY <2>1, <2>2, <2>3, <2>4, ShellStays, ProgramsStay DEF IInv, SessionInv
<1> QED BY <1>1, <1>2, <1>3, <1>4 DEF Next

(* ... and so does every behaviour.                                        *)
LEMMA InvariantHolds == Spec => []IInv
BY Begins, Steps, PTL DEF Spec

-----------------------------------------------------------------------------
(* Of every thread the registers, the call and the read have their types,  *)
(* no read stores more than its caller has room for (stream.cpp), and the  *)
(* shell has the handles of the console.                                   *)
THEOREM TypeCorrect == Spec => []TypeOK
<1>1. IInv => TypeOK
  <2> SUFFICES ASSUME IInv  PROVE TypeOK
    OBVIOUS
  <2>1. CallInv /\ ConsoleInv /\ ShellInv /\ ProgramInv
    BY DEF IInv, SessionInv
  <2>2. ASSUME NEW t \in Caller
        PROVE  LET k == calls[t] IN
               /\ k.stage \in {"program", "kernel", "library"}
               /\ \A part \in {"rax", "rbx", "rcx", "rdx", "rdi"} : k.regs[part] \in Register
               /\ k.regs.carry \in BOOLEAN /\ k.answer.error \in 0 .. Word - 1
               /\ k.call = Nothing \/ IsCall(k.call)
    <3> DEFINE k == calls[t]
    <3>1. /\ k.stage \in {"program", "kernel", "library"} /\ k.regs \in Registers
          /\ k.answer.error \in Handle /\ (k.call = Nothing \/ IsCall(k.call))
      BY <2>1 DEF CallInv, CallOk
    <3> HIDE DEF k
    <3>2. /\ \A part \in {"rax", "rbx", "rcx", "rdx", "rdi"} : k.regs[part] \in Register
          /\ k.regs.carry \in BOOLEAN
      BY <3>1 DEF Registers
    <3> QED BY <3>1, <3>2 DEF k, Handle
  <2>3. ASSUME NEW t \in Caller
        PROVE  /\ reads[t].state \in {"none", "reading", "done"} /\ reads[t].alone \in BOOLEAN
               /\ Len(reads[t].buffer) <= reads[t].room
    BY <2>1 DEF ConsoleInv, ReadOk
  <2> QED BY <2>1, <2>2, <2>3 DEF TypeOK, ConsoleInv, ShellInv, ProgramInv
<1> QED BY <1>1, InvariantHolds, PTL

(* Whatever is called with whatever arguments, by however many threads at  *)
(* once, and whatever the registers held before, the handler asks for what *)
(* the caller meant (rtl.cpp, file_system.cpp, Task_Manager.cpp).          *)
THEOREM ArgumentsReachHandlers == Spec => []ArgumentsArrive
<1>1. IInv => ArgumentsArrive
  BY DEF IInv, CallInv, CallOk, Arrived, ArgumentsArrive
<1> QED BY <1>1, InvariantHolds, PTL

(* Whatever the handler answers, and however many threads call at once:    *)
(* the caller gets it from its own registers, but for a position in a file *)
(* and the failure of a wait, which the library cuts (rtl.cpp).            *)
THEOREM AnswersReachCallers == Spec => []AnswersReturn
<1>1. IInv => AnswersReturn
  <2> SUFFICES ASSUME IInv, NEW t \in Caller, Has_Result(calls[t])
               PROVE  LET k == calls[t] IN
                 /\ k.result.error = k.answer.error
                 /\ k.result.error = Success =>
                      CASE k.call.service = "Wait_For" ->
                             k.result.value = IF k.answer.value = Wait_Failed THEN Word - 1
                                              ELSE k.answer.value
                        [] k.call.service = "Seek" ->
                             k.result.value = IF Asks_Position(k) THEN k.answer.value % Word
                                              ELSE k.call.offset
                        [] OTHER -> k.result.value = k.answer.value
    BY DEF AnswersReturn
  <2>1. PICK k : k = calls[t]
    OBVIOUS
  <2>2. Handed(k) /\ Has_Result(k)
    BY <2>1 DEF IInv, CallInv, CallOk
  <2>3. /\ k.result.error = k.answer.error
        /\ k.result.error = Success => k.result.value = Told(k.call, k.answer.value)
    BY <2>2 DEF Handed
  <2>4. CASE k.call.service = "Wait_For"
    BY <2>1, <2>3, <2>4 DEF Told
  <2>5. CASE k.call.service = "Seek"
    BY <2>1, <2>3, <2>5 DEF Told, Asks_Position
  <2>6. CASE k.call.service \notin {"Wait_For", "Seek"}
    BY <2>1, <2>3, <2>6 DEF Told
  <2> QED BY <2>4, <2>5, <2>6
<1> QED BY <1>1, InvariantHolds, PTL

(* Whatever line is typed: the shell runs its programs in their order, and *)
(* an orderly one with the files and no others that the line redirects it  *)
(* to, and with all its words (command.cpp, shell.cpp).                    *)
THEOREM OrderlyLinesAreKept == Spec => []RedirectionsAreKept
<1>1. IInv => RedirectionsAreKept
  BY DEF IInv, SessionInv, ShellInv, LineIsKept, Places, RedirectionsAreKept
<1> QED BY <1>1, InvariantHolds, PTL

(* However many threads read and write: as long as nobody else has shown   *)
(* anything since a thread began to read, the row on the screen ends with  *)
(* what that thread will get, whatever keys are pressed (stream.cpp).      *)
THEOREM ScreenIsTrue == Spec => []ScreenShowsLine
<1>1. IInv => ScreenShowsLine
  BY DEF IInv, ConsoleInv, ReadOk, Alone, ScreenShowsLine
<1> QED BY <1>1, InvariantHolds, PTL
=============================================================================
