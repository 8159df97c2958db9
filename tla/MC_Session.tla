------------------------------- MODULE MC_Session -------------------------------
EXTENDS Session

Tree(kids) == [sig |-> "TREE", kids |-> kids]
Snod(syms) == [sig |-> "SNOD", syms |-> syms]
Dat(name, addr)         == [name |-> name, addr |-> addr, cache |-> 0, tree |-> 1]
Group(name, addr, tree) == [name |-> name, addr |-> addr, cache |-> 1, tree |-> tree]
Link(name, addr)        == [name |-> name, addr |-> addr, cache |-> 2, tree |-> 1]

Of(class, refs) == [class |-> class, refs |-> refs, dims |-> <<Len(refs), 1>>, empty |-> FALSE, good |-> TRUE]
Number == Of("data", <<>>)
None   == [Of("data", <<>>) EXCEPT !.empty = TRUE]
Canon  == [Of("canonical", <<>>) EXCEPT !.empty = TRUE]
Broken == [Number EXCEPT !.good = FALSE]

N(name) == NameToken(name)
I(k)    == IndexToken(k - 1)

(* two cells and a struct of a number and a cell; the unset elements of    *)
(* all cells are one object                                                *)
Cells ==
    [root |-> 1, exists |-> TRUE, mat |-> TRUE, units |-> <<TRUE>>,
     nodes |-> << Tree(<<2>>), Snod(<<Group("#refs#", 1, 3), Dat("c", 2), Dat("d", 3), Group("s", 4, 5)>>),
                  Tree(<<4, 7>>), Snod(<<Dat("a", 11), Dat("b", 12)>>), Tree(<<6>>),
                  Snod(<<Dat("e", 6), Dat("n", 5)>>), Snod(<<Dat("c", 13), Dat("d", 14)>>) >>,
     content |-> [a \in 1 .. 14 |->
        CASE a = 1 -> Of("none", <<>>) [] a = 2 -> Of("cell", <<12, 11, 11>>) [] a = 3 -> Of("cell", <<11, 13>>)
          [] a = 4 -> Of("struct", <<>>) [] a = 5 -> Number
          [] a = 6 -> [Of("cell", <<14>>) EXCEPT !.dims = <<1, 1>>] [] a = 11 -> Canon [] OTHER -> Number]]


(* a struct array, sparse arrays, an object, cells that have their elem-  *)
(* ents twice; trees of three levels                                            *)
Arrays ==
    [root |-> 1, exists |-> TRUE, mat |-> TRUE, units |-> <<TRUE>>,
     nodes |-> << Tree(<<2, 6>>), Tree(<<3>>), Snod(<<Group("#refs#", 1, 7), Group("a", 2, 4)>>),
                  Tree(<<5>>), Snod(<<Dat("x", 3), Dat("y", 4)>>),
                  Snod(<<Dat("o", 5), Group("p", 6, 9), Dat("q", 7), Dat("r", 22)>>),
                  Tree(<<8>>), Snod(<<Dat("a", 11), Dat("b", 12), Dat("c", 13), Group("d", 14, 11),
                                       Dat("e", 16), Group("f", 17, 13), Dat("g", 21)>>),
                  Tree(<<10>>), Snod(<<Dat("data", 8), Dat("ir", 9), Dat("jc", 10)>>),
                  Tree(<<12>>), Snod(<<Dat("z", 15)>>),
                  Tree(<<14>>), Snod(<<Dat("data", 18), Dat("ir", 19), Dat("jc", 20)>>) >>,
     content |-> [a \in 1 .. 22 |->
        CASE a = 1 -> Of("none", <<>>) [] a = 2 -> Of("struct", <<>>)
          [] a = 3 -> Of("none", <<11, 12>>) [] a = 4 -> Of("none", <<13, 14>>)
          [] a = 5 -> Of("object", <<>>) [] a \in {6, 17} -> Of("sparse", <<>>)
          [] a = 7 -> [Of("cell", <<16, 21, 16, 21>>) EXCEPT !.dims = <<2, 2>>] [] a = 22 -> Of("cell", <<17, 17>>)
          [] a = 14 -> Of("struct", <<>>) [] a = 13 -> None
          [] a \in {8, 9, 10, 18, 19, 20} -> Of("none", <<>>) [] OTHER -> Number]]

(* a subtree without children behind a handed-on node and, in the other    *)
(* file, a link there; data that cannot be read                            *)
Damaged(last) ==
    [root |-> 1, exists |-> TRUE, mat |-> TRUE, units |-> <<TRUE>>,
     nodes |-> << Tree(<<2, 3>>), Snod(<<Dat("b", 1), Group("g", 2, 5)>>), Tree(<<4>>),
                  Snod(<<Dat("n", 3), last>>), Tree(<<6>>), Snod(<<Dat("x", 4)>>), Tree(<<>>) >>,
     content |-> [a \in 1 .. 5 |->
        CASE a = 1 -> Broken [] a = 2 -> Of("struct", <<>>) [] a = 5 -> Of("none", <<>>) [] OTHER -> Number]]
(* the subtree without children where errors are not dropped *)
Headless == [Damaged(Dat("k", 5)) EXCEPT !.nodes[1] = Tree(<<2>>), !.nodes[2] = Snod(<<Group("g", 2, 7), Dat("b", 1)>>)]

(* files that are not opened, and one with the superblock further back *)
Back       == [Damaged(Dat("k", 5)) EXCEPT !.units = <<FALSE, FALSE, TRUE>>]
Unopened   == {[Back EXCEPT !.exists = FALSE], [Back EXCEPT !.units = <<>>],
               [Back EXCEPT !.mat = FALSE], [Back EXCEPT !.units = <<FALSE, FALSE>>]}

MCFiles == {Cells, Arrays, Damaged(Link("k", 5)), Damaged(Group("k", 5, 7)), Back, Headless} \cup Unopened

Arg(name)   == [kind |-> "name", name |-> name]
Option(o)   == [kind |-> "option", option |-> o]
Digits(k)   == [kind |-> "digits", value |-> k, name |-> <<N(ToString(k))>>]
Num(k)   == [kind |-> "number", value |-> k]
Kind(kind)  == [kind |-> kind]
Path        == Arg(<<N("file.mat")>>)

Lists(asked, n) == {<<Path>> \o [i \in DOMAIN list |-> Arg(list[i])] : list \in BoundedSeq(asked, n)}

(* options between two names, good and bad ones *)
Extras ==
    {Option("-t"), Option("-st"), Option("-sw"), Option("-x"), Digits(2), Num(0), Num(-3), Num(4),
     Kind("empty"), Kind("string"), Kind("other"), Arg(<<N("g")>>)}
Optioned ==
    {<<>>, <<Kind("other")>>} \cup
    {<<Path>> \o list : list \in BoundedSeq(Extras, 3)} \cup
    {<<Path, Option("-t"), Num(4), Option("-t"), e>> : e \in Extras}

MCArgumentsOf(f) ==
    CASE f = Cells -> Lists({<<N("c")>>, <<N("d")>>, <<N("s")>>, <<N("s"), N("n")>>, <<N("s"), N("e")>>, <<N("c"), I(1)>>,
                             <<N("s"), N("e"), I(1)>>, <<N("d"), I(2)>>}, 3)
      [] f = Arrays -> Lists({<<N("a")>>, <<N("a"), I(2), N("x")>>, <<N("a"), N("y")>>, <<N("a"), I(2), N("y"), N("z")>>,
                              <<N("p")>>, <<N("p"), N("ir")>>, <<N("q")>>, <<N("q"), CoordToken(<<2, 2>>)>>,
                              <<N("q"), I(3)>>, <<N("r")>>, <<N("o"), I(1)>>, <<N("a"), I(1)>>}, 2)
      [] f \in Unopened -> Lists({<<N("b")>>}, 1)
      [] OTHER -> Lists({<<N("b")>>, <<N("g")>>, <<N("g"), N("x")>>, <<N("n")>>, <<N("k")>>, <<N("n"), N("n")>>}, 2)
                  \cup IF f = Back THEN Optioned ELSE {}
=============================================================================
