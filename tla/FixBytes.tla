------------------------------ MODULE FixBytes ------------------------------
(***************************************************************************)
(* The bytes of a FIX message: separators, numbers as text, the checksum.  *)
(* A byte is a number.  Numbers are written and read without a sign: no    *)
(* text here has one.                                                      *)
(***************************************************************************)
EXTENDS Integers, Sequences

SOH == 1
Zero == 48
Equals == 61

Byte == 0 .. 255

IsDigit(b) == b \in Zero .. Zero + 9

\* strconv.Itoa
Itoa(n) ==
    LET text[k \in 0 .. n] ==
            IF k < 10 THEN <<Zero + k>>
            ELSE Append(text[k \div 10], Zero + (k % 10))
    IN  text[n]

NotANumber == -1

\* strconv.Atoi, with NotANumber for its error.
Atoi(text) ==
    LET value[i \in 0 .. Len(text)] ==
            IF i = 0 THEN 0 ELSE 10 * value[i - 1] + text[i] - Zero
    IN  IF text # <<>> /\ \A i \in DOMAIN text : IsDigit(text[i])
        THEN value[Len(text)] ELSE NotANumber

\* fmt.Sprintf("%03d", n) for n below 1000
ThreeDigits(n) ==
    <<Zero + ((n \div 100) % 10), Zero + ((n \div 10) % 10), Zero + (n % 10)>>

\* The bytes with which a field begins.
Field(tag) == Append(Itoa(tag), Equals)

\* The sum of all bytes, as tag 10 has it.
Checksum(bytes) ==
    LET sum[i \in 0 .. Len(bytes)] == IF i = 0 THEN 0 ELSE sum[i - 1] + bytes[i]
    IN  sum[Len(bytes)] % 256
=============================================================================
