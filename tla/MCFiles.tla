------------------------------ MODULE MCFiles ------------------------------
(* Two volumes of two-byte clusters: a plain one, and one with deleted items, *)
(* a directory that is not in one run and a file through cluster 0xFF7.       *)
EXTENDS Files, TLC

File(name, first, size) == [name |-> name, dir |-> FALSE, first |-> first, size |-> size]
Dir(name, first) == [name |-> name, dir |-> TRUE, first |-> first, size |-> 0]
Gone == [name |-> DELETED, dir |-> FALSE, first |-> 7, size |-> 1]
End == MISSING
Data == File("data", 0, 0)

Plain ==
    [fat  |-> (0 :> 65528) @@ (2 :> 6) @@ (3 :> 4) @@ (4 :> 65535) @@ (5 :> 65535)
              @@ (6 :> 5) @@ (7 :> 65535),
     root |-> <<File("a", 2, 5), Dir("d", 3), End, End>>,
     entries |-> (0 :> <<End, End>>) @@ (2 :> <<Data, Data>>)
              @@ (3 :> <<File("x", 7, 1), File("a", 7, 2)>>)
              @@ (4 :> <<File("y", 7, 2), End>>) @@ (5 :> <<Data, End>>)
              @@ (6 :> <<Data, Data>>) @@ (7 :> <<Data, End>>)]

Worn ==
    [fat  |-> (0 :> 65528) @@ (2 :> 4087) @@ (3 :> 5) @@ (4 :> 65535) @@ (5 :> 65535)
              @@ (4087 :> 65535),
     root |-> <<Gone, File("b", 2, 4), Dir("d", 3), File("late", 4, 2), End, End>>,
     entries |-> (0 :> <<End, End>>) @@ (2 :> <<Data, Data>>)
              @@ (3 :> <<File("x", 4, 1), File("y", 4, 2)>>)
              @@ (4 :> <<End, End>>) @@ (5 :> <<File("z", 4, 2), End>>)
              @@ (4087 :> <<Data, End>>)]

MCVolumes == (0 :> NoFilesystem) @@ (1 :> Plain) @@ (2 :> Worn)

Ask(drive, parts, mode) == [drive |-> drive, parts |-> parts, mode |-> mode]

MCRequests ==
    { Ask(1, <<"a">>, "r"), Ask(AT_SIGN, <<"d", "y">>, "r"), Ask(1, <<"d">>, "r"),
      Ask(2, <<"b">>, "r"), Ask(2, <<"d", "z">>, "r"), Ask(2, <<"late">>, "r"),
      Ask(1, <<"a", "x">>, "r"), Ask(1, <<"e">>, "r"), Ask(1, <<"a">>, "w"),
      Ask(1, <<"a">>, "?"), Ask(AT_SIGN, <<>>, "r"), Ask(0, <<"a">>, "r"),
      Ask(3, <<"a">>, "r") }

Alike == Permutations(Processes)
=============================================================================
