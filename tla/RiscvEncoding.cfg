\* Every R-type generator, registers 0, 31 and each single bit.
CONSTANTS
  Instructions = {"add", "sub", "sll", "slt", "sltu", "xor", "srl", "sra", "or", "and", "mul"}
  Regs = {0, 1, 2, 4, 8, 16, 31}
SPECIFICATION Spec
INVARIANT DecodesAsGenerated
INVARIANT RegistersRoundTrip
CHECK_DEADLOCK FALSE
