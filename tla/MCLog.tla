------------------------------- MODULE MCLog -------------------------------
(***************************************************************************)
(* A buffer of four characters: messages shorter than it, just filling it  *)
(* and of several buffers, next to the numbers at the ends of their range. *)
(***************************************************************************)
EXTENDS Log, TLC

Plain(c) == [tag |-> "", arg |-> c]
Tag(tag, arg) == [tag |-> tag, arg |-> arg]

Numbers ==
    {Zero, Word(0, 10), Word(0, 65535), Word(1, 0), Word(32767, 65535),
     Word(32768, 0), Word(65535, 65535)}

MCMessages ==
    {<<Tag(tag, n)>> : tag \in {"d", "u", "x"}, n \in Numbers}
    \cup {<<>>, <<Tag("i", Word(65535, 65526))>>, <<Tag("X", Word(48879, 2748))>>,
          <<Tag("p", Zero)>>, <<Tag("p", Word(8192, 0))>>, <<Tag("p", Word(65535, 65535))>>,
          <<Plain("a"), Plain("b"), Plain("c")>>,
          <<Plain("a"), Tag("s", <<"b", "c">>), Tag("c", "d")>>,
          <<Tag("s", <<>>), Tag("%", ""), Tag("q", ""), Plain("z")>>,
          <<Plain("a"), Tag("end", "")>>,
          <<Tag("s", <<"a", "b", "c", "d", "e", "f">>), Tag("d", Word(65535, 65535)), Plain("g")>>}

MCChar == {"a", "b", "c", "d", "e", "f"}
MCItem == UNION {{m[i] : i \in DOMAIN m} : m \in MCMessages}

Symmetric == Permutations(Thread)
=============================================================================
