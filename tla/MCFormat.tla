------------------------------- MODULE MCFormat -------------------------------
(* Words of 8 bits, and buffers in proportion. *)
EXTENDS Format

MCBufferSize == [hex |-> 2, bin |-> 8, dec |-> 3]

CallOf(parts, a) == [parts |-> parts, fmt |-> FormatOf(parts), args |-> a]
Int1(v) == [type |-> "int", v |-> v]
Plain == Placeholder(FALSE, FALSE, 0, "")

(* Every number, in every base, with every flag; and negative ones. *)
NumberCalls ==
  {CallOf(<<Placeholder(a, z, w, t)>>, <<Int1(v)>>) :
     a \in BOOLEAN, z \in BOOLEAN, w \in {0, 3, 10}, t \in {"", "x", "X", "b"}, v \in -2 .. 255}

(* Formats of up to three parts, and arguments of every type; as many as    *)
(* there are placeholders, or not.                                          *)
Parts == {Text("a"), Text("}"), Text("\n"), Brace, Plain, Placeholder(TRUE, TRUE, 4, "x")}
Arguments ==
  {Int1(0), Int1(90), [type |-> "ptr", v |-> 171],
   [type |-> "str", s |-> <<"b", "\n">>], [type |-> "view", s |-> <<"\n">>], [type |-> "slice", s |-> <<7, 10>>],
   [type |-> "slice", s |-> <<>>], [type |-> "pair", s |-> <<1, 20>>],
   [type |-> "atomic", v |-> -3], [type |-> "other"]}
TextCalls ==
  {CallOf(p, a) : p \in UNION {[1 .. n -> Parts] : n \in 0 .. 3},
                  a \in UNION {[1 .. n -> Arguments] : n \in 0 .. 2}}
(* A placeholder that is not closed, or that has an unknown type. *)
BrokenCalls ==
  {[parts |-> <<Plain>>, fmt |-> f, args |-> a] :
     f \in {<<"{">>, <<"a", "{", ":", "x">>, <<"{", ":", "0", "}">>, <<"{", "x", "}">>},
     a \in {<<>>, <<Int1(165)>>, <<Int1(3), Int1(4)>>}}

(* A call with numbers in two bases, and those that interrupt it: with a    *)
(* number in either base, or in another one.                                *)
MCInterrupted ==
  {CallOf(<<Text("a"), Placeholder(TRUE, TRUE, 3, "x"), Text("\n"), Plain>>, <<Int1(94), Int1(123)>>)}
MCNested ==
  {CallOf(<<Placeholder(FALSE, FALSE, 0, "X")>>, <<Int1(202)>>),
   CallOf(<<Plain>>, <<Int1(47)>>),
   CallOf(<<Text("a"), Placeholder(FALSE, FALSE, 0, "b")>>, <<Int1(5)>>)}

MCCalls == NumberCalls \cup TextCalls \cup BrokenCalls \cup MCInterrupted
=============================================================================
