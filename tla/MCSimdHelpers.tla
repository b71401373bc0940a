---------------------------- MODULE MCSimdHelpers ----------------------------
(* Three registers of 16 bytes of three bits.                                *)
EXTENDS SimdHelpers

CONSTANTS xmm0, xmm1, xmm2

MCXmm == {xmm0, xmm1, xmm2}
Operands == {<<xmm1, xmm2>>, <<xmm1, xmm1>>, <<xmm0, xmm1>>, <<xmm1, xmm0>>}
Distinct == {<<xmm1, xmm2>>, <<xmm0, xmm1>>}

Insns(ops, ks, pairs, imms) ==
  {[op |-> o, k |-> k, d |-> p[1], s |-> p[2], imm |-> m, lend |-> 0, lens |-> 0] :
     o \in ops, k \in ks, p \in pairs, m \in imms}

Vectorial ==
  Insns({"padd", "psub", "pcmpgt", "pcmpeq"}, {1, 2, 4, 8}, Operands, {0})
    \cup Insns({"paddus", "padds", "psubus", "psubs", "pavg"}, {1, 2}, Operands, {0})
    \cup Insns({"pminu", "pmins", "pmaxu", "pmaxs", "pabs", "psign"}, {1, 2, 4}, Operands, {0})
    \cup Insns({"pand", "pandn", "por", "pxor", "pmulu", "pmuls"}, {8}, Operands, {0})
    \cup Insns({"pmull"}, {2, 4}, Operands, {0})
    \cup Insns({"pmulhu", "pmulh", "pmulhrs", "pmaddubs", "phminposu"}, {2}, Operands, {0})
    \cup Insns({"pmadd"}, {4}, Operands, {0})
    \cup Insns({"psad"}, {8}, Operands, {0})
    \cup Insns({"packss", "packus"}, {1, 2}, Operands, {0})
    \cup Insns({"punpckl", "punpckh"}, {1, 2, 4, 8}, Operands, {0})
    \cup Insns({"blendv"}, {1, 4, 8}, Operands, {0})
    \cup Insns({"pmovsx", "pmovzx"}, {2, 4, 8}, Operands, {1})
    \cup Insns({"pmovsx", "pmovzx"}, {4, 8}, Operands, {2})
    \cup Insns({"pmovsx", "pmovzx"}, {8}, Operands, {4})
    \cup Insns({"pmovmsk"}, {1, 4, 8}, Operands, {0})
    \cup Insns({"ptest"}, {8}, Operands, {0})
    \cup Insns({"pshufb"}, {1}, Operands, {0})
    \cup Insns({"mov"}, {4, 8}, Operands, {0, 9, 4095})
    \cup Insns({"pshufd", "shufps"}, {4}, Operands, {27, 99, 228})
    \cup Insns({"pshuflw", "pshufhw"}, {2}, Operands, {27, 99, 228})
    \cup Insns({"shufpd"}, {8}, Operands, 0..3)
    \cup Insns({"mpsad"}, {2}, Operands, 0..7)
    \cup Insns({"palignr"}, {1}, Operands, {0, 1, 5, 8, 13, 16, 19, 24, 31, 32, 40})
    \cup Insns({"pclmul"}, {8}, Operands, {0, 1, 16, 17})
\* Two registers: with one, the helper reads what it has overwritten.
Neighbours ==
  Insns({"phadd", "phsub"}, {2, 4}, Distinct, {0}) \cup Insns({"phadds", "phsubs"}, {2}, Distinct, {0})
Shifts ==
  Insns({"psrl", "psll"}, {2, 4, 8}, Operands, {0}) \cup Insns({"psra"}, {2, 4}, Operands, {0})
    \cup Insns({"psrldq", "pslldq"}, {1}, Operands, {0})
\* All controls; a substring is not searched in a string that fills the register.
Substring == {m \in 0..127 : (m \div 4) % 4 = 3}
Strings(pairs, lengths, imms) ==
  Insns({"pcmpistri", "pcmpistrm"}, {1}, pairs, imms)
    \cup {[x EXCEPT !.lend = l[1], !.lens = l[2]] :
            x \in Insns({"pcmpestri", "pcmpestrm"}, {1}, pairs, imms), l \in lengths}

\* Contents.
All(c) == [b \in Bytes |-> c]
Mixed(m, c) == [b \in Bytes |-> (m * b * b + 3 * b + c) % 8]
Count(c) == [b \in Bytes |-> IF b = 0 THEN c % 8 ELSE IF b = 1 THEN c \div 8 ELSE IF b < 8 THEN 0 ELSE 5]
Text(n, c) == [b \in Bytes |-> IF b < n THEN 1 + ((b \div c) % 2) ELSE 0]

File(x, y, z) == xmm0 :> x @@ xmm1 :> y @@ xmm2 :> z
MCPrograms ==
  {[regs |-> f, insns |-> Vectorial \cup Neighbours] :
     f \in {File(Mixed(0, 1), Mixed(1, 2), Mixed(2, 5)), File(Mixed(1, 6), Mixed(4, 0), All(4)),
            File(All(4), All(4), All(3)), File(All(7), Mixed(3, 3), All(7)),
            File(All(0), All(3), Mixed(0, 4))}}
    \cup {[regs |-> File(Count(c), Mixed(1, 4), Count(c)), insns |-> Shifts] :
            c \in {0, 1, 5, 6, 11, 12, 16, 17, 23, 24, 50}}
    \cup {[regs |-> File(All(2), t[1], t[2]),
           insns |-> Strings({<<xmm1, xmm2>>}, {<<2, 5>>, <<-3, 7>>}, 0..127)] :
            t \in {<<Text(2, 1), Text(13, 2)>>, <<Text(4, 2), Text(7, 1)>>}}
    \cup {[regs |-> File(Text(3, 1), Mixed(2, 1), Mixed(0, 2)),
           insns |-> Strings({<<xmm0, xmm1>>, <<xmm1, xmm1>>}, {<<-20, 3>>}, (0..127) \ Substring)]}
=============================================================================
