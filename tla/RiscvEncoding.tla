---------------------------- MODULE RiscvEncoding ----------------------------
(***************************************************************************)
(* The R-type instruction generators of the riscv32im tests               *)
(* (src/o1vm/src/interpreters/riscv32im/tests.rs) and the decoding tests  *)
(* that write their bytes into page 0 of a dummy environment and decode   *)
(* them.  The generators are translated from the source; decode_instruction*)
(* and bitmask live outside src/ and are modelled from the RV32IM base    *)
(* encoding they implement (the R-type field layout and funct table).     *)
(***************************************************************************)
EXTENDS Naturals, Bitwise, Functions

CONSTANTS
  Instructions,  \* the RInstruction / MInstruction variants under test
  Regs           \* register numbers the generators may draw (of 0..31)

ASSUME Regs \subseteq 0 .. 31

\* The generators compute in i32; every field is below 2^(32-k) for its
\* shift k (funct5 <= 0b01000 at 27), so no bit is shifted out or into the
\* sign and x << k is x * 2^k.
ShiftL(x, k) == x * 2 ^ k

\* The constants of each generate_random_*_instruction.
RType == 51   \* 0b0110011

\* Mutant: sra with funct5 0b00100 (the 1 one place off).
EncodersSraTypo ==
  [add  |-> [funct3 |-> 0, funct2 |-> 0, funct5 |-> 0],
   sub  |-> [funct3 |-> 0, funct2 |-> 0, funct5 |-> 8],
   sll  |-> [funct3 |-> 1, funct2 |-> 0, funct5 |-> 0],
   slt  |-> [funct3 |-> 2, funct2 |-> 0, funct5 |-> 0],
   sltu |-> [funct3 |-> 3, funct2 |-> 0, funct5 |-> 0],
   xor  |-> [funct3 |-> 4, funct2 |-> 0, funct5 |-> 0],
   srl  |-> [funct3 |-> 5, funct2 |-> 0, funct5 |-> 0],
   sra  |-> [funct3 |-> 5, funct2 |-> 0, funct5 |-> 4],
   or   |-> [funct3 |-> 6, funct2 |-> 0, funct5 |-> 0],
   and  |-> [funct3 |-> 7, funct2 |-> 0, funct5 |-> 0],
   mul  |-> [funct3 |-> 0, funct2 |-> 1, funct5 |-> 0]]

Encoders ==
  [add  |-> [funct3 |-> 0, funct2 |-> 0, funct5 |-> 0],
   sub  |-> [funct3 |-> 0, funct2 |-> 0, funct5 |-> 8],
   sll  |-> [funct3 |-> 1, funct2 |-> 0, funct5 |-> 0],
   slt  |-> [funct3 |-> 2, funct2 |-> 0, funct5 |-> 0],
   sltu |-> [funct3 |-> 3, funct2 |-> 0, funct5 |-> 0],
   xor  |-> [funct3 |-> 4, funct2 |-> 0, funct5 |-> 0],
   srl  |-> [funct3 |-> 5, funct2 |-> 0, funct5 |-> 0],
   sra  |-> [funct3 |-> 5, funct2 |-> 0, funct5 |-> 8],
   or   |-> [funct3 |-> 6, funct2 |-> 0, funct5 |-> 0],
   and  |-> [funct3 |-> 7, funct2 |-> 0, funct5 |-> 0],
   mul  |-> [funct3 |-> 0, funct2 |-> 1, funct5 |-> 0]]

ASSUME Instructions \subseteq DOMAIN Encoders

\* Mutant: rs2 packed one bit too high, into funct7.
EncodeRRs2High(opcode, rd, funct3, rs1, rs2, funct2, funct5) ==
  opcode | ShiftL(rd, 7) | ShiftL(funct3, 12) | ShiftL(rs1, 15)
         | ShiftL(rs2, 21) | ShiftL(funct2, 25) | ShiftL(funct5, 27)

\* let instruction = opcode | (rd << 7) | ... | (funct5 << 27).
EncodeR(opcode, rd, funct3, rs1, rs2, funct2, funct5) ==
  opcode | ShiftL(rd, 7) | ShiftL(funct3, 12) | ShiftL(rs1, 15)
         | ShiftL(rs2, 20) | ShiftL(funct2, 25) | ShiftL(funct5, 27)

\* [instruction as u8, (instruction >> 8) as u8, ...]: little endian.
ToLEBytes(w) == [i \in 0 .. 3 |-> shiftR(w, 8 * i) % 256]

\* generate_random_<instr>_instruction with the drawn registers.
GenerateRandom(instr, rd, rs1, rs2) ==
  LET e == Encoders[instr] IN
  ToLEBytes(EncodeR(RType, rd, e.funct3, rs1, rs2, e.funct2, e.funct5))

\* decode_instruction fetches the little-endian word at the instruction
\* pointer; bit k of it is bit k % 8 of byte k \div 8.
BitOf(mem, k) == (mem[k \div 8] \div 2 ^ (k % 8)) % 2

\* env.bitmask(word, hi, lo): bits lo .. hi-1 of the fetched word, the
\* bound hi excluded (test_witness_bitmask_bounds).
Bitmask(mem, hi, lo) == SumFunction([k \in lo .. hi - 1 |-> BitOf(mem, k) * 2 ^ (k - lo)])

\* The R-type fields cut out of the fetched word.
Fields(mem) ==
  [opcode |-> Bitmask(mem, 7, 0),   rd  |-> Bitmask(mem, 12, 7),
   funct3 |-> Bitmask(mem, 15, 12), rs1 |-> Bitmask(mem, 20, 15),
   rs2    |-> Bitmask(mem, 25, 20), funct7 |-> Bitmask(mem, 32, 25)]

\* The RV32IM opcode table for opcode 0b0110011.
RTable ==
  { [funct7 |-> 0, funct3 |-> 0, name |-> "add"], [funct7 |-> 0, funct3 |-> 1, name |-> "sll"],
    [funct7 |-> 0, funct3 |-> 2, name |-> "slt"], [funct7 |-> 0, funct3 |-> 3, name |-> "sltu"],
    [funct7 |-> 0, funct3 |-> 4, name |-> "xor"], [funct7 |-> 0, funct3 |-> 5, name |-> "srl"],
    [funct7 |-> 0, funct3 |-> 6, name |-> "or"],  [funct7 |-> 0, funct3 |-> 7, name |-> "and"],
    [funct7 |-> 32, funct3 |-> 0, name |-> "sub"], [funct7 |-> 32, funct3 |-> 5, name |-> "sra"],
    [funct7 |-> 1, funct3 |-> 0, name |-> "mul"] }

DecodeInstruction(mem) ==
  LET f == Fields(mem)
      hits == {r \in RTable : r.funct7 = f.funct7 /\ r.funct3 = f.funct3}
  IN IF f.opcode = RType /\ hits # {} THEN (CHOOSE r \in hits : TRUE).name ELSE "invalid"

----------------------------------------------------------------------------
VARIABLES
  memory,    \* env.memory[0].1[0..4], where the instruction is written
  decoded,   \* the opcode decode_instruction returned
  generated  \* history: the instruction and registers the test drew

vars == <<memory, decoded, generated>>

\* dummy_env: page 0 zero-filled, nothing decoded yet.
Init ==
  /\ memory = [i \in 0 .. 3 |-> 0]
  /\ decoded = "none"
  /\ generated = [instr |-> "none", rd |-> 0, rs1 |-> 0, rs2 |-> 0]

\* test_instruction_decoding_<instr>: on a fresh dummy_env, generate, write
\* the four bytes into page 0, decode.  Each test then ends.
TestDecoding(instr, rd, rs1, rs2) ==
  /\ decoded = "none"
  /\ memory' = GenerateRandom(instr, rd, rs1, rs2)
  /\ decoded' = DecodeInstruction(memory')
  /\ generated' = [instr |-> instr, rd |-> rd, rs1 |-> rs1, rs2 |-> rs2]

Next == \E instr \in Instructions, rd, rs1, rs2 \in Regs : TestDecoding(instr, rd, rs1, rs2)

Spec == Init /\ [][Next]_vars

----------------------------------------------------------------------------
(* Properties.                                                             *)

\* The assertion of every decoding test: the bytes a generator produces
\* decode to the instruction it was named for, whatever registers it drew.
DecodesAsGenerated == generated.instr # "none" => decoded = generated.instr

\* The registers a generator drew are the ones the decoder reads back (the
\* tests assert only the opcode, so a misplaced register field passes them).
RegistersRoundTrip ==
  LET f == Fields(memory) IN
  /\ f.rd = generated.rd /\ f.rs1 = generated.rs1 /\ f.rs2 = generated.rs2
=============================================================================
