------------------------------ MODULE JobLayout ------------------------------
(***************************************************************************)
(* How a job is written for its miner (prom/hasher.go): the hash of the    *)
(* header and the timestamp of a block, either as four numbers and a       *)
(* timestamp, or as one string of hexadecimal digits for who wants it big. *)
(*                                                                         *)
(* Bytes and digits are numbers.  A word has WordBytes bytes, 8 in the     *)
(* code, and a byte two digits to the base DigitBase, 16 in the code.      *)
(***************************************************************************)
EXTENDS Integers, Sequences, SequencesExt

CONSTANTS WordBytes, DigitBase

ASSUME LayoutAssumption == WordBytes \in Nat \ {0} /\ DigitBase \in Nat \ {0, 1}

ByteBase == DigitBase * DigitBase
WordDigits == 2 * WordBytes
NumWords == 4
HeaderBytes == NumWords * WordBytes

(* The numbers of the first digits of s, and the number of all of them. *)
NumbersUpTo(base, s) ==
    LET upto[n \in 0 .. Len(s)] == IF n = 0 THEN 0 ELSE upto[n - 1] * base + s[n]
    IN  upto
Number(base, s) == NumbersUpTo(base, s)[Len(s)]

(* What is left of v when it is divided by the base again and again, and   *)
(* the last n digits of v, which are the remainders.                       *)
Quotients(base, n, v) ==
    LET left[i \in 0 .. n] == IF i = 0 THEN v ELSE left[i - 1] \div base
    IN  left
InDigits(base, n, v) == [i \in 1 .. n |-> Quotients(base, n, v)[n - i] % base]

(* binary.BigEndian and binary.LittleEndian. *)
Bytes == 0 .. ByteBase - 1
BigEndianUint64(bytes) == Number(ByteBase, bytes)
LittleEndianUint64(bytes) == Number(ByteBase, Reverse(bytes))

(* "%x": as few digits as possible, and "%016x": all of them. *)
Hex(v) == LET left == Quotients(DigitBase, WordDigits, v)
              n == CHOOSE n \in 1 .. WordDigits : left[n] = 0 /\ (n = 1 \/ left[n - 1] # 0)
          IN  InDigits(DigitBase, n, v)

(* Mutated form: leading zeros are left out. *)
HexUnpadded(v) == Hex(v)

HexPadded(v) == InDigits(DigitBase, WordDigits, v)

(* headerData[8*(i-1):], of which eight bytes are read. *)
Word(header, i) == [k \in 1 .. WordBytes |-> header[(i - 1) * WordBytes + k]]

(* Four numbers; each goes through its digits and back. *)
GenerateJobHeader(header) ==
    [i \in 1 .. NumWords |-> Number(DigitBase, Hex(LittleEndianUint64(Word(header, i))))]

(* The timestamp is written big endian and read little endian. *)
GenerateLargeJobParams(header, timestamp) ==
    LET swapped == LittleEndianUint64(InDigits(ByteBase, WordBytes, timestamp))
        hex(i) == HexPadded(BigEndianUint64(Word(header, i)))
    IN  hex(1) \o hex(2) \o hex(3) \o hex(4) \o HexPadded(swapped)

(* jobParams without the job id. *)
JobParams(large, header, timestamp) ==
    IF large THEN <<GenerateLargeJobParams(header, timestamp)>>
    ELSE <<GenerateJobHeader(header), timestamp>>

-----------------------------------------------------------------------------
(* The miner (external).  It writes the numbers of a job to memory, low    *)
(* byte first, or the digits of a big one as they come.                    *)

NoWork == <<>>

(* Digits are read in pairs. *)
ReadBytes(digits) ==
    [i \in 1 .. Len(digits) \div 2 |-> digits[2 * i - 1] * DigitBase + digits[2 * i]]

ReadLarge(digits) ==
    LET bytes == ReadBytes(digits)
    IN  IF Len(digits) # (NumWords + 1) * WordDigits THEN NoWork
        ELSE <<[k \in 1 .. HeaderBytes |-> bytes[k]],
               LittleEndianUint64(Word(bytes, NumWords + 1))>>

ReadNumbers(numbers, timestamp) ==
    LET memory(i) == Reverse(InDigits(ByteBase, WordBytes, numbers[i]))
    IN  <<memory(1) \o memory(2) \o memory(3) \o memory(4), timestamp>>

ReadJob(large, params) ==
    IF large THEN ReadLarge(params[1]) ELSE ReadNumbers(params[1], params[2])

=============================================================================
