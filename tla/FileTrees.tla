----------------------------- MODULE FileTrees -----------------------------
(***************************************************************************)
(* The files of a store path: the listing a binary cache has of them, the  *)
(* tree that is made of it, the entries of the tree, and the line of       *)
(* `files` an entry becomes.                                               *)
(*                                                                         *)
(* A listing and a tree are functions: of the names on the way to a node   *)
(* to the node.  A name, a path and a target are sequences of characters,  *)
(* a character is its code.  The size of a file has one digit.             *)
(***************************************************************************)
EXTENDS Naturals, SequencesExt, FiniteSetsExt

CONSTANT MaxDepth  \* MAX_LS_DEPTH

Slash     == 47
Dot       == 46
Backslash == 92
Digit(n)  == 48 + n
Tag == [executable |-> 120, regular |-> 114, symlink |-> 115, directory |-> 100]

Starts(p, prefix) == IsPrefix(prefix, p)

(* The elements of a sequence that pass a test.                            *)
Only(s, Test(_)) == FlattenSeq([i \in DOMAIN s |-> IF Test(s[i]) THEN <<s[i]>> ELSE <<>>])

----------------------------------------------------------------------------
(***************************************************************************)
(* ls_node_to_tree.  A listing that is not a tree of known nodes, or names *)
(* something other than a child, is refused as a whole.                    *)
(***************************************************************************)
Children(tree, at) == {p \in DOMAIN tree : Len(p) = Len(at) + 1 /\ Front(p) = at}

BadName(name) == name \in {<<Dot>>, <<Dot, Dot>>} \/ \E i \in DOMAIN name : name[i] \in {Slash, Backslash}

Listed(ls) ==
  /\ \A p \in DOMAIN ls :
       /\ Len(p) <= MaxDepth
       /\ p # <<>> => ~BadName(Last(p))
       /\ ls[p].type \in {"regular", "symlink", "directory"}
       /\ ls[p].type = "symlink" => "target" \in DOMAIN ls[p]

Tree(ls) ==
  [p \in DOMAIN ls |->
     CASE ls[p].type = "regular" ->
            [kind |-> IF "executable" \in DOMAIN ls[p] THEN "executable" ELSE "regular",
             size |-> IF "size" \in DOMAIN ls[p] THEN ls[p].size ELSE 0]
       [] ls[p].type = "symlink"   -> [kind |-> "symlink", target |-> ls[p].target]
       [] ls[p].type = "directory" -> [kind |-> "directory", size |-> Cardinality(Children(ls, p))]]

----------------------------------------------------------------------------
(***************************************************************************)
(* to_list.  A node comes before what is below it, and of two children the *)
(* one with the greater name first: they were sorted, and are taken from a *)
(* stack.                                                                  *)
(***************************************************************************)
Before(a, b) ==
  \E n \in 0 .. Len(a) :
    /\ n < Len(b) /\ SubSeq(a, 1, n) = SubSeq(b, 1, n)
    /\ n = Len(a) \/ a[n + 1] < b[n + 1]

BeforeInTree(a, b) ==
  \E n \in 0 .. Len(a) :
    /\ n < Len(b) /\ SubSeq(a, 1, n) = SubSeq(b, 1, n)
    /\ n = Len(a) \/ Before(b[n + 1], a[n + 1])

Sorted(S, Less(_, _)) ==
  [i \in 1 .. Cardinality(S) |->
     CHOOSE x \in S : Cardinality({y \in S : Less(y, x)}) = i - 1]

PathOf(names) == FlattenSeq([i \in DOMAIN names |-> <<Slash>> \o names[i]])

ToList(tree, prefix) ==
  LET order == Sorted({p \in DOMAIN tree : Starts(PathOf(p), prefix)}, BeforeInTree)
  IN [i \in DOMAIN order |-> [path |-> PathOf(order[i]), node |-> tree[order[i]]]]

(***************************************************************************)
(* is_encodable: neither of the characters that separate lines and fields  *)
(* in a path or a target.                                                  *)
(***************************************************************************)
Encodable(entry, separators) ==
  /\ \A i \in DOMAIN entry.path : entry.path[i] \notin separators
  /\ entry.node.kind = "symlink" =>
       \A i \in DOMAIN entry.node.target : entry.node.target[i] \notin separators

(***************************************************************************)
(* encode_meta and decode_meta: the target or the size, and a tag.         *)
(***************************************************************************)
EncodeMeta(node) ==
  IF node.kind = "symlink" THEN Append(node.target, Tag.symlink)
  ELSE <<Digit(node.size), Tag[node.kind]>>

DecodesMeta(meta) ==
  /\ meta # <<>> /\ Last(meta) \in {Tag[k] : k \in DOMAIN Tag}
  /\ Last(meta) # Tag.symlink => Len(meta) = 2 /\ meta[1] \in {Digit(n) : n \in 0 .. 9}

DecodeMeta(meta) ==
  LET kind == CHOOSE k \in DOMAIN Tag : Tag[k] = Last(meta)
  IN IF kind = "symlink" THEN [kind |-> kind, target |-> Front(meta)]
     ELSE [kind |-> kind, size |-> meta[1] - Digit(0)]
=============================================================================
