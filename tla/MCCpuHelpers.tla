---------------------------- MODULE MCCpuHelpers ----------------------------
(* Words of four bits with two digits to the base three.                     *)
EXTENDS CpuHelpers

Insns(ops, srcs) == [op : ops, src : srcs]
Samples == {0, 1, 4, 7, 8, 15}

First ==
  Insns({"ADD", "SUB", "AND", "MUL", "IMUL", "DIV", "IDIV", "DIVQ", "IDIVQ", "PDEP", "PEXT"}, Word)
    \cup Insns({"ADC", "SBB", "ADCX", "ADOX"}, Samples)
    \cup Insns({"INC", "DEC", "XOR_SELF", "SHL", "SAR", "BLSR", "POPCNT", "AAM", "AAD",
                "DAA", "DAS", "AAA", "AAS", "RDRAND",
                "CLI", "STI", "CLAC", "STAC", "RESUMED", "PUSHF", "POPF_USER", "POPF_KERNEL"}, {0})
\* Instructions that read the flags of the first.
Second ==
  Insns({"ADC", "SBB"}, {0, 5, 15}) \cup Insns({"ADCX", "ADOX"}, {1, 8, 15})
    \cup Insns({"INC", "DEC", "DAA", "DAS", "AAA", "AAS", "PUSHF"}, {0})
Third == Insns({"ADCX"}, {15}) \cup Insns({"POPF_USER", "POPF_KERNEL"}, {0})
MCHi == {0, 1, 8, 15}
MCFlags == {{"AC"}, {"C", "A", "O", "Z", "D", "I", "RF"}}
MCImages == {{"C", "S", "D", "I"}, {"O", "AC"}}
MCProgram == <<First, Second, Third>>
=============================================================================
