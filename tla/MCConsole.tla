----------------------------- MODULE MCConsole -----------------------------
(***************************************************************************)
(* An instance of Console for TLC.                                         *)
(***************************************************************************)
EXTENDS Console

SomeChars ==
    {NUL, "-", "b", "x", "boot", "beyond", "a", "c", "y", "z", "u", "v"}
      \cup Escapes \cup {Digits[d] : d \in 1..16}

\* Every escape, texts and numbers of several widths, and 63 in binary, which
\* is as wide as the buffer.
Items == {Literal("nl"), Literal("cr"), Literal("tab"), Literal("bs"),
          Literal("a"), CharArg("c"), TextArg(<<>>), TextArg(<<"x", "y", "z", "u", "v">>),
          UnsignedArg(63, 2), UnsignedArg(5, 2), UnsignedArg(0, 10),
          IntArg(-32, 10), IntArg(-26, 16)}

\* Two items, or a text followed by too much, or a buffer filled to its last
\* byte and then anything, or a format longer than the buffer, of characters or
\* of conversions.
SomeFormats ==
    BoundedSeq(Items, 2)
      \cup {<<TextArg(<<"x", "y", "z", "u", "v">>), f, g>> : f, g \in Items}
      \cup {<<TextArg(<<"x", "y", "z", "u", "v">>), TextArg(<<"x", "y", "z", "u", "v">>),
              Literal("nl"), f>> : f \in Items}
      \cup {[k \in 1..4 |-> CharArg("c")]}
      \cup {[k \in 1..n |-> Literal("a")] : n \in (BufSize - 2)..(BufSize + 1)}
=============================================================================
