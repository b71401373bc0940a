---------------------------- MODULE MCSymbolizer ----------------------------
(* Small programs that read one byte of two bits; pointers have three bits.  *)
EXTENDS Symbolizer

CONSTANTS r1, r2, r3, r4

MCAssign == 0..3
MCRegs == {r1, r2, r3, r4}
MCAddrs == 0..7

Num(c) == Const(Bits(2), c)
Wide(c) == Const(Bits(3), c)
Ptr(c) == Const(Address, c)
True == Const(Truth, 1)

Bin(dst, o, a, b) == [op |-> "binary", opcode |-> o, dst |-> dst, a |-> a, b |-> b]
Cmp(dst, p, a, b) == [op |-> "cmp", opcode |-> p, dst |-> dst, a |-> a, b |-> b]
Select(dst, c, a, b) == [op |-> "select", dst |-> dst, cond |-> c, a |-> a, b |-> b]
Cast(dst, k, n, a) == [op |-> "cast", kind |-> k, bits |-> n, dst |-> dst, a |-> a]
GiveUp(dst, k, n, a) == [op |-> "concretize", kind |-> k, bits |-> n, dst |-> dst, a |-> a]
Gep(dst, a, index, size) == [op |-> "gep", dst |-> dst, a |-> a, index |-> index, size |-> size]
LoadMany(dst, a, n, little) ==
  [op |-> "load", dst |-> dst, a |-> a, float |-> FALSE, size |-> n, little |-> little]
StoreMany(a, b, n, little) == [op |-> "store", a |-> a, b |-> b, size |-> n, little |-> little]
Load(dst, a, float) == [LoadMany(dst, a, 1, TRUE) EXCEPT !.float = float]
Store(a, b) == StoreMany(a, b, 1, TRUE)
Extract(dst, a, offset, n, of) ==
  [op |-> "extractvalue", dst |-> dst, a |-> a, offset |-> offset, size |-> n, of |-> of,
   little |-> TRUE]
Insert(dst, a, b, offset, n, of) ==
  [op |-> "insertvalue", dst |-> dst, a |-> a, b |-> b, offset |-> offset, size |-> n, of |-> of,
   little |-> TRUE]
Br(c, t, e) == [op |-> "br", cond |-> c, then |-> t, else |-> e]
Goto(b) == Br(True, b, b)
Switch(c, targets, default) == [op |-> "switch", cond |-> c, targets |-> targets, default |-> default]
CallTo(dst, callee, args) == [op |-> "call", dst |-> dst, callee |-> callee, args |-> args]
Invoke(dst, callee, args, normal, unwind, caught) ==
  [op |-> "invoke", dst |-> dst, callee |-> callee, args |-> args, normal |-> normal,
   unwind |-> unwind, caught |-> caught]
ResumeWith(a) == [op |-> "resume", a |-> a]
IndirectBr(a) == [op |-> "indirectbr", a |-> a]
Ret(a) == [op |-> "ret", void |-> FALSE, a |-> a]
RetVoid == [op |-> "ret", void |-> TRUE, a |-> Num(0)]

NoPhi == [r \in {} |-> <<>>]
Straight(instructions) == [phis |-> NoPhi, instructions |-> instructions]

\* Functions by number: read, an uninstrumented one, two of the program, and one that throws.
Fn(c) == Const(Bits(3), c)
Names == [c \in 0..4 |-> <<"read", "log", "f", "g", "throw">>[c + 1]]
ReadByte == <<CallTo(Null, Fn(0), <<Ptr(0)>>), Load(r1, Ptr(0), FALSE)>>

Program(main, f, g, external) ==
  [code |-> [main |-> main, f |-> f, g |-> g],
   parameters |-> [main |-> <<>>, f |-> <<r1, r2>>, g |-> <<r1>>],
   functions |-> Names, external |-> [log |-> external], intercepted |-> {"read"},
   throwing |-> {"throw"},
   byteBits |-> 2]
Unused == <<Straight(<<RetVoid>>)>>
Main(main) == Program(main, Unused, Unused, "ZExt")
\* Read a byte, compute, and branch on r3, which is true or false.
Branching(code) ==
  Main(<<Straight(ReadByte \o code \o <<Br(Reg(r3), 2, 3)>>),
         Straight(<<Ret(Reg(r2))>>), Straight(<<Ret(Reg(r1))>>)>>)

Integer == {"Add", "Sub", "Mul", "UDiv", "SDiv", "URem", "SRem", "Shl", "LShr", "AShr",
            "And", "Or", "Xor"}
Relations == {"EQ", "NE", "UGT", "UGE", "ULT", "ULE", "SGT", "SGE", "SLT", "SLE"}

\* Every operator and every comparison, on the byte and a constant.
Arithmetic ==
  {Branching(<<Bin(r2, o, Reg(r1), Num(1)), Cmp(r3, p, Reg(r2), Num(2))>>) :
     o \in Integer, p \in Relations}
    \cup {Branching(<<Bin(r2, o, Num(3), Reg(r1)), Cmp(r3, "SLT", Num(1), Reg(r2))>>) :
            o \in {"Sub", "Shl", "AShr", "Xor"}}
\* Truth values are combined, widened and compared.
Logic ==
  {Branching(<<Cmp(r2, "ULT", Reg(r1), Num(2)), Cmp(r3, "SGT", Reg(r1), Num(3)),
               Bin(r3, o, Reg(r2), Reg(r3)), Cast(r2, "ZExt", 3, Reg(r3)),
               Cmp(r3, "EQ", Reg(r2), Wide(1))>>) : o \in {"And", "Or", "Xor"}}
\* Conversions to more bits or to a float, and back.
Conversions ==
  {Branching(<<Cast(r2, k, 3, Reg(r1)), Cast(r4, "Trunc", 2, Reg(r2)), Cast(r4, "bswap", 2, Reg(r4)),
               Cast(r2, "expect", 3, Reg(r2)),
               Cmp(r3, p, Reg(r2), Wide(6))>>) : k \in {"ZExt", "SExt"}, p \in {"SLT", "UGE"}}
    \cup {Branching(<<Cast(r2, k, 3, Reg(r1)), Cast(r4, "FPExt", 4, Reg(r2)),
                      Cmp(r3, p, Reg(r4), Const(Float(4), 2)), Bin(r2, "FAdd", Reg(r2), Reg(r2)),
                      Store(Ptr(3), Reg(r2)), Load(r4, Ptr(3), TRUE), Cast(r4, "fabs", 3, Reg(r4)),
                      Cast(r2, j, 3, Reg(r4))>>) :
            k \in {"SIToFP", "UIToFP", "BitsToFloat"}, j \in {"FPToSI", "FPToUI"},
            p \in {"OLT", "OEQ"}}
\* Expressions that are dropped: what is computed from them is concrete.
Dropping ==
  {Branching(<<GiveUp(r2, "ctpop", 2, Reg(r1)), Bin(r4, "Add", Reg(r2), Reg(r1)),
               Cmp(r3, p, Reg(r4), Num(1))>>) : p \in {"UGE", "EQ"}}
    \cup {Branching(<<Cmp(r3, "ULT", Reg(r1), Num(c)), Select(r2, Reg(r3), Reg(r1), Num(1)),
                      Cmp(r3, "EQ", Reg(r2), Num(1)), Bin(r2, "Add", Reg(r2), Reg(r1))>>) : c \in 0..3}
    \cup {Branching(<<Cast(r2, "BitsToFloat", 2, Reg(r1)), GiveUp(r4, "FloatToBits", 2, Reg(r2)),
                      Bin(r4, "Sub", Reg(r4), Reg(r1)), Cmp(r3, "EQ", Reg(r4), Num(0))>>)}

\* A table indexed by the byte, read and written; elements of one or two cells.
Tables ==
  {Main(<<Straight(ReadByte \o
            <<Store(Ptr(2), Reg(r1)), Store(Ptr(4), Num(3)), Cast(r2, "ZExt", 3, Reg(r1)),
              Gep(r4, Ptr(1), i, s), Store(Reg(r4), v), Gep(r4, Reg(r4), Ptr(1), 1),
              Load(r3, Reg(r4), FALSE), Store(Ptr(5), Reg(r3)), Load(r2, Ptr(2), FALSE),
              Cmp(r3, "NE", Reg(r2), Num(2)), Br(Reg(r3), 2, 3)>>),
          Straight(<<Ret(Reg(r2))>>), Straight(<<Ret(Reg(r1))>>)>>) :
     i \in {Reg(r2), Ptr(0), Ptr(1)}, s \in {1, 2}, v \in {Reg(r1), Num(2)}}

\* Loops: a countdown whose two accumulators change places, and a switch with a loop around it.
Loops ==
  {Main(<<Straight(ReadByte \o <<Goto(2)>>),
          [phis |-> (r1 :> (1 :> Reg(r1) @@ 3 :> Reg(r4)) @@ r2 :> (1 :> Num(1) @@ 3 :> Reg(r3))
                       @@ r3 :> (1 :> Num(0) @@ 3 :> Reg(r2))),
           instructions |-> <<Cmp(r4, "NE", Reg(r1), Num(0)), Br(Reg(r4), 3, 4)>>],
          Straight(<<Bin(r4, "Sub", Reg(r1), Num(1)), Bin(r3, o, Reg(r3), Reg(r1)), Goto(2)>>),
          Straight(<<Cmp(r3, "EQ", Reg(r2), Reg(r3)), Br(Reg(r3), 5, 5)>>),
          Straight(<<Ret(Reg(r2))>>)>>) : o \in {"Add", "Xor"}}
    \cup {Main(<<Straight(ReadByte \o <<Goto(2)>>),
                 [phis |-> r2 :> (1 :> Reg(r1) @@ 3 :> Num(3) @@ 4 :> Reg(r3)),
                  instructions |-> <<Switch(Reg(r2), 1 :> 3 @@ 2 :> 4, 5)>>],
                 Straight(<<Goto(2)>>),
                 Straight(<<Bin(r3, "Sub", Reg(r1), Num(1)), Goto(2)>>),
                 Straight(<<Ret(Reg(r2))>>)>>)}

\* Calls: f(r1, r2) calls what it is told, or the uninstrumented log, and g; results that are
\* used or not, with and without an expression; a function called through a pointer.
CallPrograms ==
  LET f(callee, dst) == <<Straight(<<CallTo(r4, Fn(3), <<Reg(r1)>>), CallTo(dst, callee, <<Reg(r2)>>),
                                     Bin(r3, "Sub", Reg(r4), Reg(r1)), Ret(Reg(r3))>>)>>
      g(result) == <<Straight(<<Bin(r2, "Add", Reg(r1), Num(1)), Ret(result)>>)>>
  IN {Program(<<Straight(ReadByte \o
                  <<CallTo(r2, fn, <<Num(2), Reg(r1)>>), CallTo(r4, Fn(1), <<arg>>),
                    CallTo(r3, Fn(3), <<Reg(r4)>>), Cmp(r3, "EQ", Reg(r2), Reg(r3)),
                    Br(Reg(r3), 2, 2)>>), Straight(<<RetVoid>>)>>,
              f(callee, dst), g(result), "Trunc") :
        fn \in {Fn(2)}, arg \in {Reg(r1), Reg(r2), Num(1)}, callee \in {Fn(1), Fn(3)},
        dst \in {Null, r3}, result \in {Reg(r2), Num(1)}}
     \cup {Program(<<Straight(ReadByte \o
                  <<Bin(r3, "Or", Reg(r1), Num(2)), CallTo(r2, Reg(r3), <<Num(2), Reg(r1)>>),
                    Cmp(r3, "EQ", Reg(r2), Num(1)), Br(Reg(r3), 2, 2)>>), Straight(<<Ret(Reg(r2))>>)>>,
              f(Fn(1), r3), g(Reg(r2)), "Trunc")}

\* A structure of a byte and a number of two: loaded as a whole, taken apart, changed, and stored
\* with and without an expression.
Aggregates ==
  {Main(<<Straight(ReadByte \o
            <<Cast(r2, "ZExt", 4, Reg(r1)), Bin(r2, "Mul", Reg(r2), Const(Bits(4), 3)),
              Store(Ptr(2), first), StoreMany(Ptr(3), second, 2, TRUE),
              LoadMany(r3, Ptr(2), 3, FALSE), Extract(r4, Reg(r3), 1, 2, 3),
              Cmp(r4, "EQ", Reg(r4), Const(Bits(4), 6)), Br(Reg(r4), 2, 2)>>),
          Straight(<<Extract(r4, Reg(r3), 0, 1, 3), Bin(r4, "Xor", Reg(r4), Reg(r1)),
                     Insert(r1, Reg(r3), member, 0, 1, 3)>> \o copy \o
                   <<LoadMany(r4, Ptr(4), 2, TRUE), Cmp(r4, "ULT", Reg(r4), Const(Bits(4), 9)),
                     Br(Reg(r4), 3, 3)>>),
          Straight(<<RetVoid>>)>>) :
     first \in {Reg(r1), Num(2)}, second \in {Reg(r2), Const(Bits(4), 6)}, member \in {Reg(r4), Num(1)},
     copy \in {<<StoreMany(Ptr(4), Reg(r1), 3, FALSE)>>, <<StoreMany(Ptr(4), Reg(r3), 3, FALSE)>>,
               <<StoreMany(Ptr(4), Reg(r2), 2, TRUE)>>}}

\* A jump to a block whose number is computed.
Computed ==
  {Main(<<Straight(ReadByte \o <<Bin(r3, "And", Reg(r1), Num(1)), Bin(r3, "Add", Reg(r3), Num(2)),
                                  IndirectBr(target)>>),
          Straight(<<Cmp(r3, "EQ", Reg(r1), Num(2)), Br(Reg(r3), 3, 3)>>),
          Straight(<<Ret(Reg(r1))>>)>>) : target \in {Reg(r3), Num(2)}}

\* f, or g for f, throws if the byte is small; what is caught is an address, where the byte is;
\* f may clean up and pass the exception on.  The normal destination is reached from the
\* landing pad, too.
Exceptions ==
  LET main(enter) ==
        <<Straight(ReadByte \o enter),
          [phis |-> r4 :> (1 :> Reg(r2) @@ 3 :> Reg(r1)),
           instructions |-> <<Cmp(r3, "EQ", Reg(r4), Num(2)), Br(Reg(r3), 4, 4)>>],
          Straight(<<Load(r1, Reg(r3), FALSE), Goto(2)>>),
          Straight(<<RetVoid>>)>>
      caught == <<Invoke(r2, Fn(2), <<Reg(r1), Reg(r1)>>, 2, 3, r3)>>
      passed == <<CallTo(r2, Fn(2), <<Reg(r1), Reg(r1)>>), Goto(2)>>
      thrower(thrown) ==
        <<Straight(<<Cmp(r3, "ULT", Reg(r1), Num(2)), Store(Ptr(6), Reg(r1)), Br(Reg(r3), 2, 3)>>),
          Straight(<<CallTo(Null, Fn(4), <<thrown>>)>>),
          Straight(<<Bin(r2, "Add", Reg(r1), Num(1)), Ret(Reg(r2))>>)>>
      cleaning(dst) ==
        <<Straight(<<Invoke(dst, Fn(3), <<Reg(r1)>>, 2, 3, r3)>>),
          Straight(<<Ret(Reg(r2))>>),
          Straight(<<Store(Ptr(5), Reg(r2)), ResumeWith(Reg(r3))>>)>>
      itself ==
        <<Straight(<<Invoke(Null, Fn(4), <<Ptr(6)>>, 2, 2, r3)>>), Straight(<<Ret(Reg(r1))>>)>>
      library ==
        <<Straight(<<Invoke(r4, Fn(1), <<Reg(r2)>>, 2, 2, r3)>>), Straight(<<Ret(Reg(r4))>>)>>
  IN {Program(main(enter), f, thrower(thrown), "ZExt") :
        enter \in {caught, passed}, thrown \in {Ptr(6), Reg(r1)},
        f \in {thrower(Ptr(6)), thrower(Reg(r2)), cleaning(Null), cleaning(r2), itself, library}}

\* A byte becomes a truth value by truncation, after it was stored, and decides a branch.
TruncatedCondition ==
  {Main(<<Straight(ReadByte \o <<Cmp(r3, p, Reg(r1), Num(c)), Cast(r2, "ZExt", 2, Reg(r3)),
                                 Store(Ptr(2), Reg(r2)), Load(r4, Ptr(2), FALSE),
                                 Cast(r3, "Trunc", 1, Reg(r4)), Br(Reg(r3), 2, 2)>>),
          Straight(<<RetVoid>>)>>) : p \in {"EQ", "ULT"}, c \in 1..2}
\* What the pass extends in its own way, or not at all: a truth value by its sign, a narrow
\* index, a number that becomes a pointer, a truth value that is stored.
Extended ==
  {Branching(<<Cmp(r3, "ULT", Reg(r1), Num(2)), Cast(r2, "SExt", 2, Reg(r3)),
               Cmp(r3, "EQ", Reg(r2), Num(1))>>),
   Branching(<<Gep(r4, Ptr(4), Reg(r1), 1), Load(r2, Reg(r4), FALSE), Cmp(r3, "EQ", Reg(r2), Num(0))>>),
   Branching(<<Cast(r4, "IntToPtr", 3, Reg(r1)), Load(r2, Reg(r4), FALSE), Cmp(r3, "EQ", Reg(r2), Num(0))>>),
   Branching(<<Cmp(r3, "ULT", Reg(r1), Num(2)), Store(Ptr(2), Reg(r3)), Load(r2, Ptr(2), FALSE),
               Cmp(r3, "EQ", Reg(r2), Num(1))>>)}

MCPrograms ==
  Arithmetic \cup Logic \cup Conversions \cup Dropping \cup Tables \cup Loops \cup CallPrograms
    \cup Aggregates \cup Computed \cup Exceptions \cup TruncatedCondition \cup Extended
=============================================================================
