-------------------------------- MODULE MatFile --------------------------------
(***************************************************************************)
(* What a file says, without the program: the groups of Selection's files  *)
(* and their contents as MATLAB means them.  A value is the set of its     *)
(* slots with what is in them, as Session fills them.                      *)
(***************************************************************************)
EXTENDS Integers, SequencesExt

RECURSIVE GroupOf(_, _)
GroupOf(f, n) ==
    IF f.nodes[n].sig = "SNOD" THEN ToSet(f.nodes[n].syms)
    ELSE UNION {GroupOf(f, k) : k \in ToSet(f.nodes[n].kids)}

AllSymbols(f) == UNION {ToSet(f.nodes[n].syms) : n \in {m \in DOMAIN f.nodes : f.nodes[m].sig = "SNOD"}}

(* the symbols of the group whose header is at addr *)
Members(f, addr) == UNION {GroupOf(f, sym.tree) : sym \in {s \in AllSymbols(f) : s.addr = addr /\ s.cache = 1}}

(* the parts of a sparse array have no class of their own *)
SparseParts(f) ==
    UNION {{m.addr : m \in Members(f, a)} : a \in {b \in DOMAIN f.content : f.content[b].class = "sparse"}}
Class(f, addr) ==
    IF f.content[addr].class = "none" /\ addr \in SparseParts(f) THEN "data" ELSE f.content[addr].class
Refs(f, addr)  == f.content[addr].refs
IsArrayField(f, addr) == Class(f, addr) = "none" /\ Refs(f, addr) # <<>>

RECURSIVE Value(_, _, _)
Value(f, slot, addr) ==
    LET elements(prefix, name, a) ==
            UNION {Value(f, Append(prefix, <<name, k - 1>>), Refs(f, a)[k]) : k \in DOMAIN Refs(f, a)}
        field(sym) ==
            IF IsArrayField(f, sym.addr) THEN elements(slot, sym.name, sym.addr)
            ELSE Value(f, Append(slot, <<sym.name, 0>>), sym.addr)
    IN  CASE Class(f, addr) \in {"data", "sparse"} -> {<<slot, addr>>}
          [] Class(f, addr) = "cell" /\ Refs(f, addr) # <<>> -> {<<slot, "cell">>} \cup elements(slot, "{", addr)
          [] Class(f, addr) = "struct" /\ Members(f, addr) # {} ->
                {<<slot, "struct">>} \cup UNION {field(sym) : sym \in Members(f, addr)}
          [] OTHER -> {}

(* the address a name leads to, Nowhere if there is none *)
Nowhere == -2
Member(group, name) ==
    IF \E s \in group : s.name = name THEN (CHOOSE s \in group : s.name = name).addr ELSE Nowhere
Element(f, addr, k) == IF k + 1 \in DOMAIN Refs(f, addr) THEN Refs(f, addr)[k + 1] ELSE Nowhere

(* column by column *)
Place(coords, dims) ==
    FoldLeftDomain(LAMBDA acc, i : acc + (coords[i] - 1) * FoldLeft(LAMBDA x, y : x * y, 1, SubSeq(dims, 1, i - 1)), 0, coords)
IndexIn(token, dims) == IF token.type = "index" THEN token.index ELSE Place(token.coords, dims)

RECURSIVE Follow(_, _, _)
Follow(f, addr, tokens) ==
    IF tokens = <<>> \/ addr = Nowhere THEN addr
    ELSE LET t == Head(tokens)
             m == IF Len(tokens) > 1 /\ tokens[2].type = "name"
                  THEN Member(Members(f, addr), tokens[2].name) ELSE Nowhere
         IN  IF t.type = "name"
             THEN LET next == Member(Members(f, addr), t.name)
                  IN  IF next # Nowhere /\ IsArrayField(f, next) THEN Nowhere
                      ELSE Follow(f, next, Tail(tokens))
             ELSE IF Class(f, addr) = "cell"
             THEN Follow(f, Element(f, addr, IndexIn(t, f.content[addr].dims)), Tail(tokens))
             ELSE IF Class(f, addr) = "struct" /\ m # Nowhere
             THEN Follow(f, IF IsArrayField(f, m) THEN Element(f, m, IndexIn(t, f.content[m].dims)) ELSE m,
                         Tail(Tail(tokens)))
             ELSE Nowhere

(* what a name of Session means *)
Meaning(f, name) ==
    LET sym == Member(GroupOf(f, f.root), Head(name).name)
    IN  IF sym # Nowhere /\ IsArrayField(f, sym) THEN Nowhere ELSE Follow(f, sym, Tail(name))

(* what is read when addr is: its value's addresses, and the classless *)
RECURSIVE Reaches(_, _)
Reaches(f, addr) ==
    {addr} \cup UNION {Reaches(f, a) : a \in ToSet(Refs(f, addr)) \cup {s.addr : s \in Members(f, addr)}}

===============================================================================
