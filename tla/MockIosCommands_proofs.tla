----------------------- MODULE MockIosCommands_proofs ------------------------
(***************************************************************************)
(* Theorems about the command trees of MockIos and the sessions that use   *)
(* them, for every line a user may type.  What a mode can run is decided   *)
(* by the trees, so this module first shows, node by node, which handlers  *)
(* each class of modes can reach in them; then that the parser, however    *)
(* many words it is given, runs one of those.  From this follow            *)
(*   - WhatIsOpen: what a configuration mode edits exists;                 *)
(*   - OnlyEnable and LeavingOnPurpose: which commands leave user EXEC,    *)
(*     and which leave the configuration.                                  *)
(* The last part compares what the show commands make of the same device:  *)
(*   - PortsInOnePlace, VlansAgree, RoutesAgree.                           *)
(***************************************************************************)
EXTENDS DeviceViews, StreamLemmas, SequenceTheorems, FiniteSetTheorems

-----------------------------------------------------------------------------
(* What the nodes of a tree offer. A tree has no bound on its depth: that  *)
(* every node below one is accounted for is said with a set of nodes that  *)
(* is closed under "child".                                                *)

(* The fields of a node. *)
NodeFields ==
    {"kind", "name", "from", "to", "handler", "no_handler", "modes", "children"}

(* A set of nodes that a class of modes c does not leave on its way down,  *)
(* and in which the nodes that it is shown have their handlers in H.       *)
ClosedUnder(C, c, H) ==
    \A n \in C :
        /\ DOMAIN n = NodeFields
        /\ c \in n.modes => n.handler \in H /\ n.no_handler \in H /\ n.children \in Seq(C)

(* Whatever c can run at a node, or anywhere below it, is in H. *)
Offers(n, c, H)    == \E C : n \in C /\ ClosedUnder(C, c, H)
AllOffer(ns, c, H) == \E C : ns \in Seq(C) /\ ClosedUnder(C, c, H)

(* The same of a node that c is shown, and of a list of such nodes. *)
Shown(n, c, H) == Offers(n, c, H) /\ c \in n.modes
AllShown(ns, c, H) == AllOffer(ns, c, H) /\ \A i \in DOMAIN ns : c \in ns[i].modes

(* Closed sets join to a closed set. *)
LEMMA OneClosed ==
    ASSUME NEW c, NEW H, NEW F, \A C \in F : ClosedUnder(C, c, H)
    PROVE  ClosedUnder(UNION F, c, H)
<1> SUFFICES ASSUME NEW n \in UNION F
             PROVE  /\ DOMAIN n = NodeFields
                    /\ c \in n.modes =>
                        n.handler \in H /\ n.no_handler \in H /\ n.children \in Seq(UNION F)
  BY DEF ClosedUnder
<1>1. PICK C \in F : n \in C
  OBVIOUS
<1>2. ClosedUnder(C, c, H)
  OBVIOUS
<1>3. \A s \in Seq(C) : s \in Seq(UNION F)
  OBVIOUS
<1> QED
  BY <1>1, <1>2, <1>3 DEF ClosedUnder

(* A list offers no more than its members do. *)
LEMMA ListOffers ==
    ASSUME NEW c, NEW H, NEW S, NEW ns \in Seq(S), \A i \in DOMAIN ns : Offers(ns[i], c, H)
    PROVE  AllOffer(ns, c, H)
<1> DEFINE K(i) == CHOOSE C : ns[i] \in C /\ ClosedUnder(C, c, H)
           F == { K(i) : i \in DOMAIN ns }
<1>1. \A i \in DOMAIN ns : ns[i] \in K(i) /\ ClosedUnder(K(i), c, H)
  BY DEF Offers
<1>2. ClosedUnder(UNION F, c, H)
  <2>1. \A C \in F : ClosedUnder(C, c, H)
    BY <1>1
  <2> HIDE DEF F
  <2> QED
    BY <2>1, OneClosed
<1>3. \A i \in DOMAIN ns : ns[i] \in UNION F
  BY <1>1
<1> HIDE DEF F
<1>4. ns \in Seq(UNION F)
  BY <1>3
<1> QED
  BY <1>2, <1>4 DEF AllOffer

(* A member of a list offers no more than the list. *)
LEMMA MemberOffers ==
    ASSUME NEW c, NEW H, NEW ns, AllOffer(ns, c, H), NEW i \in DOMAIN ns
    PROVE  Offers(ns[i], c, H)
BY DEF AllOffer, Offers

(* A node offers its handlers and what its children offer; nothing where   *)
(* it is not shown.                                                        *)
LEMMA NodeOffers ==
    ASSUME NEW c, NEW H, NEW n, DOMAIN n = NodeFields,
           c \in n.modes =>
               n.handler \in H /\ n.no_handler \in H /\ AllOffer(n.children, c, H)
    PROVE  Offers(n, c, H)
<1>1. CASE c \notin n.modes
  <2>1. ClosedUnder({n}, c, H)
    BY <1>1 DEF ClosedUnder
  <2> QED
    BY <2>1 DEF Offers
<1>2. CASE c \in n.modes
  <2>1. PICK C : n.children \in Seq(C) /\ ClosedUnder(C, c, H)
    BY <1>2 DEF AllOffer
  <2>2. \A s : s \in Seq(C) => s \in Seq(C \cup {n})
    OBVIOUS
  <2>3. ClosedUnder(C \cup {n}, c, H)
    BY <2>1, <2>2, <1>2 DEF ClosedUnder
  <2> QED
    BY <2>3 DEF Offers
<1> QED
  BY <1>1, <1>2

(* What a node that is shown has itself, and what its children offer. *)
LEMMA OfferOwn ==
    ASSUME NEW c, NEW H, NEW n, Offers(n, c, H)
    PROVE  /\ DOMAIN n = NodeFields
           /\ c \in n.modes =>
               n.handler \in H /\ n.no_handler \in H /\ AllOffer(n.children, c, H)
BY DEF Offers, AllOffer, ClosedUnder

(* A node that is shown offers H. *)
LEMMA ShownOffers ==
    ASSUME NEW c, NEW H, NEW n, Shown(n, c, H)
    PROVE  Offers(n, c, H)
BY DEF Shown

(* A list whose nodes are shown offers H. *)
LEMMA ShownListOffers ==
    ASSUME NEW c, NEW H, NEW ns, AllShown(ns, c, H)
    PROVE  AllOffer(ns, c, H)
BY DEF AllShown

(* No node, no handler. *)
LEMMA EmptyOffers ==
    ASSUME NEW c, NEW H
    PROVE  AllOffer(<<>>, c, H)
<1>1. ClosedUnder({}, c, H)
  BY DEF ClosedUnder
<1>2. <<>> \in Seq({})
  OBVIOUS
<1> QED
  BY <1>1, <1>2 DEF AllOffer

(* Two lists one behind the other. *)
LEMMA JoinedOffer ==
    ASSUME NEW c, NEW H, NEW ns, AllOffer(ns, c, H), NEW ms, AllOffer(ms, c, H)
    PROVE  AllOffer(ns \o ms, c, H)
<1>1. PICK C : ns \in Seq(C) /\ ClosedUnder(C, c, H)
  BY DEF AllOffer
<1>2. PICK D : ms \in Seq(D) /\ ClosedUnder(D, c, H)
  BY DEF AllOffer
<1>3. ns \in Seq(C \cup D) /\ ms \in Seq(C \cup D)
  BY <1>1, <1>2
<1>4. ns \o ms \in Seq(C \cup D)
  BY <1>3
<1>5. ClosedUnder(C \cup D, c, H)
  <2>1. /\ \A s \in Seq(C) : s \in Seq(C \cup D)
        /\ \A s \in Seq(D) : s \in Seq(C \cup D)
    OBVIOUS
  <2> QED
    BY <1>1, <1>2, <2>1 DEF ClosedUnder
<1> QED
  BY <1>4, <1>5 DEF AllOffer

(* A list whose members are shown. *)
LEMMA ListShown ==
    ASSUME NEW c, NEW H, NEW S, NEW ns \in Seq(S), \A i \in DOMAIN ns : Shown(ns[i], c, H)
    PROVE  AllShown(ns, c, H)
<1>1. \A i \in DOMAIN ns : Offers(ns[i], c, H) /\ c \in ns[i].modes
  BY DEF Shown
<1> QED
  BY <1>1, ListOffers DEF AllShown

(* Two lists of nodes that are shown, one behind the other. *)
LEMMA JoinedShown ==
    ASSUME NEW c, NEW H, NEW ns, AllShown(ns, c, H), NEW ms, AllShown(ms, c, H)
    PROVE  AllShown(ns \o ms, c, H)
<1>1. PICK C : ns \in Seq(C)
  BY DEF AllShown, AllOffer
<1>2. PICK D : ms \in Seq(D)
  BY DEF AllShown, AllOffer
<1>3. ns \in Seq(C \cup D) /\ ms \in Seq(C \cup D)
  BY <1>1, <1>2
<1>4. \A i \in DOMAIN (ns \o ms) : c \in (ns \o ms)[i].modes
  BY <1>3 DEF AllShown
<1>5. AllOffer(ns \o ms, c, H)
  BY JoinedOffer DEF AllShown
<1> QED
  BY <1>4, <1>5 DEF AllShown

-----------------------------------------------------------------------------
(* The builders of nodes. *)

(* keyword(): the handler it is given, and its children. *)
LEMMA KeywordShown ==
    ASSUME NEW c \in Classes, NEW H, None \in H,
           NEW kw, NEW h \in H, NEW kids, AllOffer(kids, c, H)
    PROVE  Shown(Keyword(kw, h, kids), c, H)
<1> DEFINE n == Keyword(kw, h, kids)
<1>1. /\ DOMAIN n = NodeFields /\ n.modes = Classes /\ n.handler = h
      /\ n.no_handler = None /\ n.children = kids
  BY DEF Keyword, NodeFields
<1> HIDE DEF n
<1>2. Offers(n, c, H)
  BY <1>1, NodeOffers
<1>3. Shown(n, c, H)
  BY <1>1, <1>2 DEF Shown
<1> QED
  BY <1>3 DEF n

(* param(): the handler it is given, and its children. *)
LEMMA ParamShown ==
    ASSUME NEW c \in Classes, NEW H, None \in H,
           NEW kind, NEW h \in H, NEW kids, AllOffer(kids, c, H)
    PROVE  Shown(Param(kind, h, kids), c, H)
<1> DEFINE n == Param(kind, h, kids)
<1>1. /\ DOMAIN n = NodeFields /\ n.modes = Classes /\ n.handler = h
      /\ n.no_handler = None /\ n.children = kids
  BY DEF Param, Keyword, NodeFields
<1> HIDE DEF n
<1>2. Offers(n, c, H)
  BY <1>1, NodeOffers
<1>3. Shown(n, c, H)
  BY <1>1, <1>2 DEF Shown
<1> QED
  BY <1>3 DEF n

(* A numeric parameter has no handler of its own. *)
LEMMA InRangeShown ==
    ASSUME NEW c \in Classes, NEW H, None \in H, NEW a, NEW b, NEW kids, AllOffer(kids, c, H)
    PROVE  Shown(InRange(a, b, kids), c, H)
<1> DEFINE n == InRange(a, b, kids)
<1>1. /\ DOMAIN n = NodeFields /\ n.modes = Classes /\ n.handler = None
      /\ n.no_handler = None /\ n.children = kids
  BY DEF InRange, Param, Keyword, NodeFields
<1> HIDE DEF n
<1>2. Offers(n, c, H)
  BY <1>1, NodeOffers
<1>3. Shown(n, c, H)
  BY <1>1, <1>2 DEF Shown
<1> QED
  BY <1>3 DEF n

(* A command: its handler. *)
LEMMA CmdShown ==
    ASSUME NEW c \in Classes, NEW H, None \in H, NEW kw, NEW h \in H
    PROVE  Shown(Cmd(kw, h), c, H)
BY EmptyOffers, KeywordShown DEF Cmd

(* A keyword that needs more: what follows it. *)
LEMMA MenuShown ==
    ASSUME NEW c \in Classes, NEW H, None \in H, NEW kw, NEW kids, AllOffer(kids, c, H)
    PROVE  Shown(Menu(kw, kids), c, H)
BY KeywordShown DEF Menu

(* A list of one node. *)
LEMMA OneOffer ==
    ASSUME NEW c, NEW H, NEW n, Offers(n, c, H)
    PROVE  AllOffer(<<n>>, c, H)
<1>1. <<n>> \in Seq({n}) /\ \A i \in DOMAIN <<n>> : <<n>>[i] = n
  OBVIOUS
<1> QED
  BY <1>1, ListOffers

(* A keyword with its parameter: the parameter's handler. *)
LEMMA TakesShown ==
    ASSUME NEW c \in Classes, NEW H, None \in H, NEW kw, NEW kind, NEW h \in H
    PROVE  Shown(Takes(kw, kind, h), c, H)
<1>1. Offers(Param(kind, h, <<>>), c, H)
  BY EmptyOffers, ParamShown, ShownOffers
<1>2. AllOffer(<<Param(kind, h, <<>>)>>, c, H)
  BY <1>1, OneOffer
<1> QED
  BY <1>2, MenuShown DEF Takes

(* no_handler(): one more handler. *)
LEMMA UndoneShown ==
    ASSUME NEW c, NEW H, NEW h \in H, NEW n, Shown(n, c, H)
    PROVE  Shown(Undone(h, n), c, H)
<1> DEFINE m == Undone(h, n)
<1>0. /\ DOMAIN n = NodeFields /\ c \in n.modes
      /\ n.handler \in H /\ n.no_handler \in H /\ AllOffer(n.children, c, H)
  BY OfferOwn DEF Shown
<1>1. /\ DOMAIN m = NodeFields /\ m.handler = n.handler
      /\ m.no_handler = h /\ m.children = n.children /\ m.modes = n.modes
  BY <1>0 DEF Undone, NodeFields
<1> HIDE DEF m
<1>2. Offers(m, c, H)
  BY <1>0, <1>1, NodeOffers
<1>3. Shown(m, c, H)
  BY <1>0, <1>1, <1>2 DEF Shown
<1> QED
  BY <1>3 DEF m

(* mode(): a filter takes nodes away and adds none. *)
LEMMA OnlyOffers ==
    ASSUME NEW c, NEW H, NEW classes, NEW n, Shown(n, c, H)
    PROVE  Offers(Only(classes, n), c, H)
<1> DEFINE m == Only(classes, n)
<1>0. /\ DOMAIN n = NodeFields
      /\ n.handler \in H /\ n.no_handler \in H /\ AllOffer(n.children, c, H)
  BY OfferOwn DEF Shown
<1>1. /\ DOMAIN m = NodeFields /\ m.handler = n.handler
      /\ m.no_handler = n.no_handler /\ m.children = n.children
  BY <1>0 DEF Only, NodeFields
<1> HIDE DEF m
<1>2. Offers(m, c, H)
  BY <1>0, <1>1, NodeOffers
<1> QED
  BY <1>2 DEF m

(* mode(): a node that is hidden from c offers it nothing, whatever it     *)
(* holds.                                                                  *)
LEMMA HiddenOffers ==
    ASSUME NEW c, NEW H, NEW classes, c \notin classes, NEW n, DOMAIN n = NodeFields
    PROVE  Offers(Only(classes, n), c, H)
<1> DEFINE m == Only(classes, n)
<1>1. DOMAIN m = NodeFields /\ m.modes = classes
  BY DEF Only, NodeFields
<1> HIDE DEF m
<1>2. Offers(m, c, H)
  BY <1>1, NodeOffers
<1> QED
  BY <1>2 DEF m

(* A list of words, however many and whatever they are. *)
IsList(kws) == \E k \in Nat : DOMAIN kws = 1 .. k

(* The lists of words the trees are written with. *)
LEMMA WordsAreLists ==
    /\ \A w1 : IsList(<<w1>>)
    /\ \A w1, w2 : IsList(<<w1, w2>>)
    /\ \A w1, w2, w3 : IsList(<<w1, w2, w3>>)
    /\ \A w1, w2, w3, w4 : IsList(<<w1, w2, w3, w4>>)
    /\ \A w1, w2, w3, w4, w5 : IsList(<<w1, w2, w3, w4, w5>>)
    /\ \A w1, w2, w3, w4, w5, w6 : IsList(<<w1, w2, w3, w4, w5, w6>>)
    /\ \A w1, w2, w3, w4, w5, w6, w7 : IsList(<<w1, w2, w3, w4, w5, w6, w7>>)
    /\ \A w1, w2, w3, w4, w5, w6, w7, w8 : IsList(<<w1, w2, w3, w4, w5, w6, w7, w8>>)
    /\ \A w1, w2, w3, w4, w5, w6, w7, w8, w9, w10, w11 :
           IsList(<<w1, w2, w3, w4, w5, w6, w7, w8, w9, w10, w11>>)
    /\ \A w1, w2, w3, w4, w5, w6, w7, w8, w9, w10, w11, w12, w13 :
           IsList(<<w1, w2, w3, w4, w5, w6, w7, w8, w9, w10, w11, w12, w13>>)
    /\ \A w1, w2, w3, w4, w5, w6, w7, w8, w9, w10, w11, w12, w13, w14 :
           IsList(<<w1, w2, w3, w4, w5, w6, w7, w8, w9, w10, w11, w12, w13, w14>>)
    /\ \A w1, w2, w3, w4, w5, w6, w7, w8, w9, w10, w11, w12, w13, w14, w15 :
           IsList(<<w1, w2, w3, w4, w5, w6, w7, w8, w9, w10, w11, w12, w13, w14, w15>>)
    /\ \A w1, w2, w3, w4, w5, w6, w7, w8, w9, w10, w11, w12, w13, w14, w15, w16, w17, w18, w19,
          w20, w21, w22, w23, w24, w25, w26 :
           IsList(<<w1, w2, w3, w4, w5, w6, w7, w8, w9, w10, w11, w12, w13, w14, w15, w16, w17,
                  w18, w19, w20, w21, w22, w23, w24, w25, w26>>)
BY DEF IsList

(* Commands with one handler: that handler. *)
LEMMA CmdsShown ==
    ASSUME NEW c \in Classes, NEW H, None \in H, NEW kws, IsList(kws), NEW h \in H
    PROVE  AllShown(Cmds(kws, h), c, H)
<1> DEFINE ns == Cmds(kws, h)
           S  == { Cmd(kws[i], h) : i \in DOMAIN kws }
<1>1. ns \in Seq(S)
  BY DEF Cmds, IsList
<1>2. \A i \in DOMAIN ns : Shown(ns[i], c, H)
  BY CmdShown DEF Cmds
<1> HIDE DEF ns, S
<1>3. AllShown(ns, c, H)
  BY <1>1, <1>2, ListShown
<1> QED
  BY <1>3 DEF ns

(* Keywords with a parameter and one handler: that handler. *)
LEMMA AllTakeShown ==
    ASSUME NEW c \in Classes, NEW H, None \in H, NEW kws, IsList(kws), NEW kind, NEW h \in H
    PROVE  AllShown(AllTake(kws, kind, h), c, H)
<1> DEFINE ns == AllTake(kws, kind, h)
           S  == { Takes(kws[i], kind, h) : i \in DOMAIN kws }
<1>1. ns \in Seq(S)
  BY DEF AllTake, IsList
<1>2. \A i \in DOMAIN ns : Shown(ns[i], c, H)
  BY TakesShown DEF AllTake
<1> HIDE DEF ns, S
<1>3. AllShown(ns, c, H)
  BY <1>1, <1>2, ListShown
<1> QED
  BY <1>3 DEF ns

(* A filter on every node of a list takes nodes away and adds none. *)
LEMMA AllOnlyOffer ==
    ASSUME NEW c, NEW H, NEW classes, NEW ns, AllShown(ns, c, H)
    PROVE  AllOffer(AllOnly(classes, ns), c, H)
<1>1. PICK C : ns \in Seq(C)
  BY DEF AllShown, AllOffer
<1> DEFINE ms == AllOnly(classes, ns)
           S  == { Only(classes, n) : n \in C }
<1>2. ms \in Seq(S)
  BY <1>1 DEF AllOnly
<1>3. \A i \in DOMAIN ms : Offers(ms[i], c, H)
  <2>1. \A i \in DOMAIN ns : Shown(ns[i], c, H)
    BY MemberOffers DEF AllShown, Shown
  <2> QED
    BY <2>1, OnlyOffers DEF AllOnly
<1> HIDE DEF ms, S
<1>4. AllOffer(ms, c, H)
  BY <1>2, <1>3, ListOffers
<1> QED
  BY <1>4 DEF ms

(* A list that is hidden from c offers it nothing. *)
LEMMA AllHiddenOffer ==
    ASSUME NEW c, NEW H, NEW classes, c \notin classes, NEW C, NEW ns \in Seq(C),
           \A n \in C : DOMAIN n = NodeFields
    PROVE  AllOffer(AllOnly(classes, ns), c, H)
<1> DEFINE ms == AllOnly(classes, ns)
           S  == { Only(classes, n) : n \in C }
<1>2. ms \in Seq(S)
  BY DEF AllOnly
<1>3. \A i \in DOMAIN ms : Offers(ms[i], c, H)
  BY HiddenOffers DEF AllOnly
<1> HIDE DEF ms, S
<1>4. AllOffer(ms, c, H)
  BY <1>2, <1>3, ListOffers
<1> QED
  BY <1>4 DEF ms

-----------------------------------------------------------------------------
(* Lists of a few nodes: what holds of each holds of the list. *)

(* Two nodes. *)
LEMMA TwoOffer ==
    ASSUME NEW c, NEW H, NEW a, NEW b,
           Offers(a, c, H), Offers(b, c, H)
    PROVE  AllOffer(<<a, b>>, c, H)
<1> DEFINE ns == <<a, b>>
<1>1. ns \in Seq({a, b}) /\ \A m \in DOMAIN ns : Offers(ns[m], c, H)
  OBVIOUS
<1> QED
  BY <1>1, ListOffers

(* Four nodes. *)
LEMMA FourOffer ==
    ASSUME NEW c, NEW H, NEW a, NEW b, NEW d, NEW e,
           Offers(a, c, H), Offers(b, c, H), Offers(d, c, H), Offers(e, c, H)
    PROVE  AllOffer(<<a, b, d, e>>, c, H)
<1> DEFINE ns == <<a, b, d, e>>
<1>1. ns \in Seq({a, b, d, e}) /\ \A m \in DOMAIN ns : Offers(ns[m], c, H)
  OBVIOUS
<1> QED
  BY <1>1, ListOffers

(* Five nodes. *)
LEMMA FiveOffer ==
    ASSUME NEW c, NEW H, NEW a, NEW b, NEW d, NEW e, NEW f,
           Offers(a, c, H), Offers(b, c, H), Offers(d, c, H), Offers(e, c, H), Offers(f, c, H)
    PROVE  AllOffer(<<a, b, d, e, f>>, c, H)
<1> DEFINE ns == <<a, b, d, e, f>>
<1>1. ns \in Seq({a, b, d, e, f}) /\ \A m \in DOMAIN ns : Offers(ns[m], c, H)
  OBVIOUS
<1> QED
  BY <1>1, ListOffers

(* Six nodes. *)
LEMMA SixOffer ==
    ASSUME NEW c, NEW H, NEW a, NEW b, NEW d, NEW e, NEW f, NEW g,
           Offers(a, c, H), Offers(b, c, H), Offers(d, c, H), Offers(e, c, H), Offers(f, c, H),
           Offers(g, c, H)
    PROVE  AllOffer(<<a, b, d, e, f, g>>, c, H)
<1> DEFINE ns == <<a, b, d, e, f, g>>
<1>1. ns \in Seq({a, b, d, e, f, g}) /\ \A m \in DOMAIN ns : Offers(ns[m], c, H)
  OBVIOUS
<1> QED
  BY <1>1, ListOffers

(* One node that is shown. *)
LEMMA OneShown ==
    ASSUME NEW c, NEW H, NEW a,
           Shown(a, c, H)
    PROVE  AllShown(<<a>>, c, H)
<1> DEFINE ns == <<a>>
<1>1. ns \in Seq({a}) /\ \A m \in DOMAIN ns : Shown(ns[m], c, H)
  OBVIOUS
<1> QED
  BY <1>1, ListShown

(* Two nodes that are shown. *)
LEMMA TwoShown ==
    ASSUME NEW c, NEW H, NEW a, NEW b,
           Shown(a, c, H), Shown(b, c, H)
    PROVE  AllShown(<<a, b>>, c, H)
<1> DEFINE ns == <<a, b>>
<1>1. ns \in Seq({a, b}) /\ \A m \in DOMAIN ns : Shown(ns[m], c, H)
  OBVIOUS
<1> QED
  BY <1>1, ListShown

(* Three nodes that are shown. *)
LEMMA ThreeShown ==
    ASSUME NEW c, NEW H, NEW a, NEW b, NEW d,
           Shown(a, c, H), Shown(b, c, H), Shown(d, c, H)
    PROVE  AllShown(<<a, b, d>>, c, H)
<1> DEFINE ns == <<a, b, d>>
<1>1. ns \in Seq({a, b, d}) /\ \A m \in DOMAIN ns : Shown(ns[m], c, H)
  OBVIOUS
<1> QED
  BY <1>1, ListShown

(* Four nodes that are shown. *)
LEMMA FourShown ==
    ASSUME NEW c, NEW H, NEW a, NEW b, NEW d, NEW e,
           Shown(a, c, H), Shown(b, c, H), Shown(d, c, H), Shown(e, c, H)
    PROVE  AllShown(<<a, b, d, e>>, c, H)
<1> DEFINE ns == <<a, b, d, e>>
<1>1. ns \in Seq({a, b, d, e}) /\ \A m \in DOMAIN ns : Shown(ns[m], c, H)
  OBVIOUS
<1> QED
  BY <1>1, ListShown

(* Five nodes that are shown. *)
LEMMA FiveShown ==
    ASSUME NEW c, NEW H, NEW a, NEW b, NEW d, NEW e, NEW f,
           Shown(a, c, H), Shown(b, c, H), Shown(d, c, H), Shown(e, c, H), Shown(f, c, H)
    PROVE  AllShown(<<a, b, d, e, f>>, c, H)
<1> DEFINE ns == <<a, b, d, e, f>>
<1>1. ns \in Seq({a, b, d, e, f}) /\ \A m \in DOMAIN ns : Shown(ns[m], c, H)
  OBVIOUS
<1> QED
  BY <1>1, ListShown

(* Six nodes that are shown. *)
LEMMA SixShown ==
    ASSUME NEW c, NEW H, NEW a, NEW b, NEW d, NEW e, NEW f, NEW g,
           Shown(a, c, H), Shown(b, c, H), Shown(d, c, H), Shown(e, c, H), Shown(f, c, H),
           Shown(g, c, H)
    PROVE  AllShown(<<a, b, d, e, f, g>>, c, H)
<1> DEFINE ns == <<a, b, d, e, f, g>>
<1>1. ns \in Seq({a, b, d, e, f, g}) /\ \A m \in DOMAIN ns : Shown(ns[m], c, H)
  OBVIOUS
<1> QED
  BY <1>1, ListShown

(* Seven nodes that are shown. *)
LEMMA SevenShown ==
    ASSUME NEW c, NEW H, NEW a, NEW b, NEW d, NEW e, NEW f, NEW g, NEW i,
           Shown(a, c, H), Shown(b, c, H), Shown(d, c, H), Shown(e, c, H), Shown(f, c, H),
           Shown(g, c, H), Shown(i, c, H)
    PROVE  AllShown(<<a, b, d, e, f, g, i>>, c, H)
<1> DEFINE ns == <<a, b, d, e, f, g, i>>
<1>1. ns \in Seq({a, b, d, e, f, g, i}) /\ \A m \in DOMAIN ns : Shown(ns[m], c, H)
  OBVIOUS
<1> QED
  BY <1>1, ListShown

(* Eight nodes that are shown. *)
LEMMA EightShown ==
    ASSUME NEW c, NEW H, NEW a, NEW b, NEW d, NEW e, NEW f, NEW g, NEW i, NEW j,
           Shown(a, c, H), Shown(b, c, H), Shown(d, c, H), Shown(e, c, H), Shown(f, c, H),
           Shown(g, c, H), Shown(i, c, H), Shown(j, c, H)
    PROVE  AllShown(<<a, b, d, e, f, g, i, j>>, c, H)
<1> DEFINE ns == <<a, b, d, e, f, g, i, j>>
<1>1. ns \in Seq({a, b, d, e, f, g, i, j}) /\ \A m \in DOMAIN ns : Shown(ns[m], c, H)
  OBVIOUS
<1> QED
  BY <1>1, ListShown

(* Nine nodes that are shown. *)
LEMMA NineShown ==
    ASSUME NEW c, NEW H, NEW a, NEW b, NEW d, NEW e, NEW f, NEW g, NEW i, NEW j, NEW k,
           Shown(a, c, H), Shown(b, c, H), Shown(d, c, H), Shown(e, c, H), Shown(f, c, H),
           Shown(g, c, H), Shown(i, c, H), Shown(j, c, H), Shown(k, c, H)
    PROVE  AllShown(<<a, b, d, e, f, g, i, j, k>>, c, H)
<1> DEFINE ns == <<a, b, d, e, f, g, i, j, k>>
<1>1. ns \in Seq({a, b, d, e, f, g, i, j, k}) /\ \A m \in DOMAIN ns : Shown(ns[m], c, H)
  OBVIOUS
<1> QED
  BY <1>1, ListShown

-----------------------------------------------------------------------------
(* The EXEC tree. *)

(* The commands of "show" have its handler. *)
LEMMA ShowsShown ==
    ASSUME NEW c \in Classes, NEW H, None \in H, "show" \in H, NEW kws, IsList(kws)
    PROVE  /\ AllShown(Shows(kws), c, H)
           /\ \A kw : Shown(ShowMenu(kw, kws), c, H)
           /\ \A kw : Shown(ShowWith(kw, kws), c, H)
BY CmdsShown, MenuShown, KeywordShown DEF Shows, ShowMenu, ShowWith, AllShown

(* show: the commands about the configuration. *)
LEMMA ShowConfigShown ==
    ASSUME NEW c \in Classes, NEW H, None \in H, "show" \in H
    PROVE  AllOffer(ShowConfig, c, H)
BY WordsAreLists, ShowsShown, CmdShown, CmdsShown, MenuShown, KeywordShown, ParamShown,
   TakesShown, AllTakeShown,
   JoinedShown, ShownListOffers, EmptyOffers, ShownOffers, OneOffer, TwoOffer, OnlyOffers,
   JoinedOffer
   DEF ShowConfig, Priv

(* show ip. *)
LEMMA ShowIpShown ==
    ASSUME NEW c \in Classes, NEW H, None \in H, "show" \in H, "show_ip_incomplete" \in H
    PROVE  Shown(ShowIp, c, H)
BY WordsAreLists, ShowsShown, CmdShown, CmdsShown, MenuShown, KeywordShown, ParamShown,
   TakesShown, AllTakeShown,
   JoinedShown, ShownListOffers, EmptyOffers, ShownOffers, ThreeShown, FourShown
   DEF ShowIp

(* show ipv6. *)
LEMMA ShowIpv6Shown ==
    ASSUME NEW c \in Classes, NEW H, None \in H, "show" \in H, "show_ipv6_incomplete" \in H
    PROVE  Shown(ShowIpv6, c, H)
BY WordsAreLists, ShowsShown, CmdShown, CmdsShown, MenuShown, KeywordShown, ParamShown,
   TakesShown, AllTakeShown,
   JoinedShown, ShownListOffers, EmptyOffers, ShownOffers, OneShown, TwoShown, ThreeShown
   DEF ShowIpv6

(* show: the commands about interfaces and lines. *)
LEMMA ShowPortsShown ==
    ASSUME NEW c \in Classes, NEW H, None \in H, "show" \in H
    PROVE  AllOffer(ShowPorts, c, H)
BY WordsAreLists, ShowsShown, CmdShown, CmdsShown, MenuShown, KeywordShown, ParamShown,
   TakesShown, AllTakeShown,
   JoinedShown, ShownListOffers, EmptyOffers, ShownOffers, OneShown, TwoShown, FiveOffer,
   OnlyOffers, JoinedOffer
   DEF ShowPorts, Priv

(* show: the other features. *)
LEMMA ShowFeaturesShown ==
    ASSUME NEW c \in Classes, NEW H, None \in H, "show" \in H
    PROVE  AllShown(ShowFeatures, c, H)
BY WordsAreLists, ShowsShown, CmdShown, CmdsShown, MenuShown, KeywordShown, ParamShown,
   TakesShown, AllTakeShown,
   JoinedShown, ShownListOffers, EmptyOffers, ShownOffers, OneShown, TwoShown, NineShown
   DEF ShowFeatures

(* The whole of "show" runs handlers that print. *)
LEMMA ShowShown ==
    ASSUME NEW c \in Classes, NEW H, None \in H, "show" \in H, "show_incomplete" \in H,
           "show_ip_incomplete" \in H, "show_ipv6_incomplete" \in H
    PROVE  Shown(Show, c, H)
BY WordsAreLists, ShowsShown, CmdShown, CmdsShown, MenuShown, KeywordShown, ParamShown,
   TakesShown, AllTakeShown,
   JoinedShown, ShownListOffers, EmptyOffers, ShownOffers, ShowConfigShown, ShowIpShown,
   ShowIpv6Shown, ShowPortsShown, ShowFeaturesShown,
   TwoShown, JoinedOffer
   DEF Show

(* What user EXEC can run. *)
UserHandlers ==
    {None, "show", "show_incomplete", "show_ip_incomplete", "show_ipv6_incomplete",
     "enable", "exit", "terminal_monitor", "terminal_no_monitor"}

(* What privileged EXEC can run. *)
ExecHandlers ==
    UserHandlers \cup
    {"configure_alone", "configure_terminal", "disable", "copy", "delete", "reload_alone",
     "reload_cancel", "reload_in", "install_add", "install_activate", "install_commit",
     "install_remove_inactive"}
HandlersOf(c) == IF c = "priv" THEN ExecHandlers ELSE UserHandlers

(* The handlers that the nodes of the EXEC tree name. *)
LEMMA ExecHandlersAre ==
    ASSUME NEW c \in Classes
    PROVE  /\ None \in HandlersOf(c) /\ "show" \in HandlersOf(c)
           /\ "enable" \in HandlersOf(c) /\ "exit" \in HandlersOf(c)
           /\ "terminal_monitor" \in HandlersOf(c) /\ "terminal_no_monitor" \in HandlersOf(c)
           /\ {None, "show", "configure_alone", "configure_terminal", "disable", "copy", "delete",
               "reload_alone", "reload_cancel", "reload_in", "install_add", "install_activate",
               "install_commit", "install_remove_inactive"} \subseteq ExecHandlers
BY DEF HandlersOf, ExecHandlers, UserHandlers

(* A node marked as privileged offers privileged EXEC its handlers, and    *)
(* no other class anything.                                                *)
LEMMA PrivOffers ==
    ASSUME NEW c \in Classes
    PROVE  /\ \A n : Shown(n, c, ExecHandlers) => Offers(Priv(n), c, HandlersOf(c))
           /\ \A ns : AllShown(ns, c, ExecHandlers) => AllOffer(PrivAll(ns), c, HandlersOf(c))
<1>1. CASE c = "priv"
  BY <1>1, OnlyOffers, AllOnlyOffer DEF HandlersOf, Priv, PrivAll
<1>2. CASE c # "priv"
  <2>1. c \notin {"priv"}
    BY <1>2
  <2>2. ASSUME NEW n, Shown(n, c, ExecHandlers)
        PROVE  Offers(Priv(n), c, HandlersOf(c))
    <3>1. DOMAIN n = NodeFields
      BY <2>2, OfferOwn DEF Shown
    <3> QED
      BY <2>1, <3>1, HiddenOffers DEF Priv
  <2>3. ASSUME NEW ns, AllShown(ns, c, ExecHandlers)
        PROVE  AllOffer(PrivAll(ns), c, HandlersOf(c))
    <3>1. PICK C : ns \in Seq(C) /\ ClosedUnder(C, c, ExecHandlers)
      BY <2>3 DEF AllShown, AllOffer
    <3>2. \A n \in C : DOMAIN n = NodeFields
      BY <3>1 DEF ClosedUnder
    <3> QED
      BY <2>1, <3>1, <3>2, AllHiddenOffer DEF PrivAll
  <2> QED
    BY <2>2, <2>3
<1> QED
  BY <1>1, <1>2

(* What is in H is in every larger set. *)
LEMMA ShownWiden ==
    ASSUME NEW c, NEW H, NEW G, H \subseteq G
    PROVE  /\ \A n : Offers(n, c, H) => Offers(n, c, G)
           /\ \A ns : AllOffer(ns, c, H) => AllOffer(ns, c, G)
BY DEF Offers, AllOffer, ClosedUnder

(* enable, disable, configure, exit. *)
LEMMA ModeCommandsOffer ==
    ASSUME NEW c \in Classes
    PROVE  AllOffer(ModeCommands, c, HandlersOf(c))
BY ExecHandlersAre, PrivOffers, WordsAreLists, ShowsShown, CmdShown, CmdsShown, MenuShown,
   KeywordShown, ParamShown, TakesShown, AllTakeShown, JoinedShown, ShownListOffers,
   EmptyOffers, ShownOffers, OneShown, TwoShown, FourShown, FourOffer, JoinedOffer DEF ModeCommands

(* copy, delete, reload and what goes with them. *)
LEMMA FileCommandsOffer ==
    ASSUME NEW c \in Classes
    PROVE  AllOffer(FileCommands, c, HandlersOf(c))
BY ExecHandlersAre, PrivOffers, WordsAreLists, ShowsShown, CmdShown, CmdsShown, MenuShown,
   KeywordShown, ParamShown, TakesShown, AllTakeShown, JoinedShown, ShownListOffers,
   EmptyOffers, ShownOffers, OneShown, TwoShown, EightShown, JoinedOffer DEF FileCommands

(* install. *)
LEMMA InstallCommandsOffer ==
    ASSUME NEW c \in Classes
    PROVE  AllOffer(InstallCommands, c, HandlersOf(c))
BY ExecHandlersAre, PrivOffers, WordsAreLists, ShowsShown, CmdShown, CmdsShown, MenuShown,
   KeywordShown, ParamShown, TakesShown, AllTakeShown, JoinedShown, ShownListOffers,
   EmptyOffers, ShownOffers, OneShown, FourShown, OneOffer, JoinedOffer DEF InstallCommands

(* terminal. *)
LEMMA TerminalCommandsOffer ==
    ASSUME NEW c \in Classes
    PROVE  AllOffer(TerminalCommands, c, HandlersOf(c))
BY ExecHandlersAre, PrivOffers, WordsAreLists, ShowsShown, CmdShown, CmdsShown, MenuShown,
   KeywordShown, ParamShown, TakesShown, AllTakeShown, JoinedShown, ShownListOffers,
   EmptyOffers, ShownOffers, FourShown, JoinedOffer DEF TerminalCommands

(* debug and the rest. *)
LEMMA DebugCommandsOffer ==
    ASSUME NEW c \in Classes
    PROVE  AllOffer(DebugCommands, c, HandlersOf(c))
BY ExecHandlersAre, PrivOffers, WordsAreLists, ShowsShown, CmdShown, CmdsShown, MenuShown,
   KeywordShown, ParamShown, TakesShown, AllTakeShown, JoinedShown, ShownListOffers,
   EmptyOffers, ShownOffers, OneShown, TwoShown, FourShown, JoinedOffer DEF DebugCommands

(* build_exec_tree(): a user can run UserHandlers and nothing else, for    *)
(* each of the tree's nodes carries its filter or lies below one that      *)
(* does.                                                                   *)
LEMMA ExecTreeOffers ==
    ASSUME NEW c \in Classes
    PROVE  AllOffer(exec_tree, c, HandlersOf(c))
<1>1. AllOffer(PrivAll(Shows(<<"access-enable", "archive">>)), c, HandlersOf(c))
  <2>1. None \in ExecHandlers /\ "show" \in ExecHandlers
    BY DEF ExecHandlers, UserHandlers
  <2> QED
    BY <2>1, WordsAreLists, ShowsShown, PrivOffers
<1>2. AllOffer(<<Show>>, c, HandlersOf(c))
  <2>1. /\ None \in HandlersOf(c) /\ "show" \in HandlersOf(c)
        /\ "show_incomplete" \in HandlersOf(c) /\ "show_ip_incomplete" \in HandlersOf(c)
        /\ "show_ipv6_incomplete" \in HandlersOf(c)
    BY DEF HandlersOf, ExecHandlers, UserHandlers
  <2> QED
    BY <2>1, ShowShown, OneShown, ShownListOffers
<1> QED
  BY <1>1, <1>2, ModeCommandsOffer, FileCommandsOffer, InstallCommandsOffer,
     TerminalCommandsOffer, DebugCommandsOffer, JoinedOffer DEF exec_tree

-----------------------------------------------------------------------------
(* The configuration trees. *)

(* The commands every configuration mode has. *)
LEMMA LeaveShown ==
    ASSUME NEW c \in Classes, NEW H,
           {None, "show", "config_exit", "config_end"} \subseteq H
    PROVE  AllShown(Leave, c, H)
<1>1. None \in H /\ "show" \in H /\ "config_exit" \in H /\ "config_end" \in H
  OBVIOUS
<1> QED
  BY <1>1, WordsAreLists, CmdShown, CmdsShown, MenuShown, KeywordShown, ParamShown,
     TakesShown, AllTakeShown, UndoneShown, OnlyOffers, AllOnlyOffer, JoinedShown,
     JoinedOffer, ShownListOffers, EmptyOffers, ShownOffers, FourShown DEF Leave

(* The commands that name something: the device, an interface, a router,   *)
(* a list.                                                                 *)
LEMMA NamedCommandsOffer ==
    ASSUME NEW c \in Classes, NEW H,
           {None, "hostname", "interface", "router_ospf", "router_bgp", "router_eigrp",
            "access_list"} \subseteq H
    PROVE  AllOffer(NamedCommands, c, H)
<1>1. None \in H /\ "hostname" \in H /\ "interface" \in H /\ "router_ospf" \in
      H /\ "router_bgp" \in H /\ "router_eigrp" \in H /\ "access_list" \in H
  OBVIOUS
<1> QED
  BY <1>1, WordsAreLists, CmdShown, CmdsShown, MenuShown, KeywordShown, ParamShown,
     TakesShown, AllTakeShown, UndoneShown, OnlyOffers, AllOnlyOffer, JoinedShown,
     JoinedOffer, ShownListOffers, EmptyOffers, ShownOffers, InRangeShown, OneShown,
     ThreeShown, FourShown, SevenShown DEF NamedCommands, GlobalAll, AclRanges,
     AclEntry

(* ip and ipv6. *)
LEMMA IpCommandsOffer ==
    ASSUME NEW c \in Classes, NEW H,
           {None, "ip_route", "ip_address", "stub", "no_ip_access_list", "ip_access_list",
            "ipv6_unicast_routing", "ipv6_route", "ipv6_router_ospf",
            "ipv6_address", "ipv6_enable", "ipv6_ospf_interface",
            "ipv6_ospf_network"} \subseteq H
    PROVE  AllOffer(IpCommands, c, H)
<1>1. None \in H /\ "ip_route" \in H /\ "ip_address" \in H /\ "stub" \in
      H /\ "no_ip_access_list" \in H /\ "ip_access_list" \in
      H /\ "ipv6_unicast_routing" \in H /\ "ipv6_route" \in
      H /\ "ipv6_router_ospf" \in H /\ "ipv6_address" \in H /\ "ipv6_enable" \in
      H /\ "ipv6_ospf_interface" \in H /\ "ipv6_ospf_network" \in H
  OBVIOUS
<1> QED
  BY <1>1, WordsAreLists, CmdShown, CmdsShown, MenuShown, KeywordShown, ParamShown,
     TakesShown, AllTakeShown, UndoneShown, OnlyOffers, AllOnlyOffer, JoinedShown,
     JoinedOffer, ShownListOffers, EmptyOffers, ShownOffers, OneShown, TwoShown,
     OneOffer, TwoOffer, FiveOffer, SixOffer DEF IpCommands, Global, IfOnly, Word,
     Number, IpAddress, Ipv6Address, Ipv6Ospf

(* line, enable, logging, username. *)
LEMMA ServiceCommandsOffer ==
    ASSUME NEW c \in Classes, NEW H,
           {None, "line_vty", "line_console", "enable_secret", "enable_password", "stub",
            "logging", "username"} \subseteq H
    PROVE  AllOffer(ServiceCommands, c, H)
<1>1. None \in H /\ "line_vty" \in H /\ "line_console" \in H /\ "enable_secret" \in
      H /\ "enable_password" \in H /\ "stub" \in H /\ "logging" \in
      H /\ "username" \in H
  OBVIOUS
<1> QED
  BY <1>1, WordsAreLists, CmdShown, CmdsShown, MenuShown, KeywordShown, ParamShown,
     TakesShown, AllTakeShown, UndoneShown, OnlyOffers, AllOnlyOffer, JoinedShown,
     JoinedOffer, ShownListOffers, EmptyOffers, ShownOffers, OneShown, TwoShown,
     FourShown, FiveShown, SixShown DEF ServiceCommands, GlobalAll, Number

(* The commands of ports and VLANs. *)
LEMMA SwitchCommandsOffer ==
    ASSUME NEW c \in Classes, NEW H,
           {None, "shutdown", "description", "switchport_mode", "switchport_access_vlan",
            "stub", "no_vlan", "vlan"} \subseteq H
    PROVE  AllOffer(SwitchCommands, c, H)
<1>1. None \in H /\ "shutdown" \in H /\ "description" \in H /\ "switchport_mode" \in
      H /\ "switchport_access_vlan" \in H /\ "stub" \in H /\ "no_vlan" \in
      H /\ "vlan" \in H
  OBVIOUS
<1> QED
  BY <1>1, WordsAreLists, CmdShown, CmdsShown, MenuShown, KeywordShown, ParamShown,
     TakesShown, AllTakeShown, UndoneShown, OnlyOffers, AllOnlyOffer, JoinedShown,
     JoinedOffer, ShownListOffers, EmptyOffers, ShownOffers, OneShown, TwoShown,
     ThreeShown, FiveOffer DEF SwitchCommands, Global, IfOnly, SwitchportMode,
     SwitchportAccess

(* The commands that are only remembered. *)
LEMMA StubCommandsOffer ==
    ASSUME NEW c \in Classes, NEW H,
           {None, "stub", "banner_motd"} \subseteq H
    PROVE  AllOffer(StubCommands, c, H) /\ AllOffer(OtherStubs, c, H)
<1>1. None \in H /\ "stub" \in H /\ "banner_motd" \in H
  OBVIOUS
<1> QED
  BY <1>1, WordsAreLists, CmdShown, CmdsShown, MenuShown, KeywordShown, ParamShown,
     TakesShown, AllTakeShown, UndoneShown, OnlyOffers, AllOnlyOffer, JoinedShown,
     JoinedOffer, ShownListOffers, EmptyOffers, ShownOffers, OneShown, ThreeShown,
     FourShown DEF StubCommands, OtherStubs, GlobalAll

(* What the configuration trees can run. *)
ConfHandlers ==
    {None, "show", "config_exit", "config_end", "hostname", "interface", "router_ospf",
     "router_bgp", "router_eigrp", "access_list", "ip_route", "ip_address", "stub",
     "no_ip_access_list", "ip_access_list", "ipv6_unicast_routing", "ipv6_route",
     "ipv6_router_ospf", "ipv6_address", "ipv6_enable", "ipv6_ospf_interface",
     "ipv6_ospf_network", "line_vty", "line_console", "enable_secret", "enable_password",
     "logging", "username", "shutdown", "description", "switchport_mode",
     "switchport_access_vlan", "no_vlan", "vlan", "banner_motd", "config_sub_rest", "speed",
     "duplex", "nacl_entry", "vlan_name"}

(* build_conf_tree(). *)
LEMMA ConfTreeOffers ==
    ASSUME NEW c \in Classes
    PROVE  AllOffer(conf_tree, c, ConfHandlers)
<1> DEFINE H == ConfHandlers
<1>1. AllOffer(Leave, c, H)
  <2>1. {None, "show", "config_exit", "config_end"} \subseteq H
    BY DEF ConfHandlers
  <2> HIDE DEF H
  <2> QED
    BY <2>1, LeaveShown, ShownListOffers
<1>2. AllOffer(NamedCommands, c, H)
  BY NamedCommandsOffer DEF ConfHandlers
<1>3. AllOffer(IpCommands, c, H)
  BY IpCommandsOffer DEF ConfHandlers
<1>4. AllOffer(ServiceCommands, c, H)
  BY ServiceCommandsOffer DEF ConfHandlers
<1>5. AllOffer(SwitchCommands, c, H)
  BY SwitchCommandsOffer DEF ConfHandlers
<1>6. AllOffer(StubCommands, c, H) /\ AllOffer(OtherStubs, c, H)
  BY StubCommandsOffer DEF ConfHandlers
<1> HIDE DEF H
<1>7. AllOffer(conf_tree, c, H)
  BY <1>1, <1>2, <1>3, <1>4, <1>5, <1>6, JoinedOffer DEF conf_tree
<1> QED
  BY <1>7 DEF H

(* build_config_if_tree(). *)
LEMMA InterfaceTreeOffers ==
    ASSUME NEW c \in Classes
    PROVE  AllOffer(config_if_tree, c, ConfHandlers)
<1> DEFINE H == ConfHandlers
<1>1. /\ None \in H /\ "show" \in H /\ "config_exit" \in H /\ "config_end" \in H
      /\ "ip_address" \in H /\ "ipv6_address" \in H /\ "ipv6_enable" \in H
      /\ "ipv6_ospf_interface" \in H /\ "ipv6_ospf_network" \in H /\ "shutdown" \in H
      /\ "description" \in H /\ "switchport_mode" \in H /\ "switchport_access_vlan" \in H
      /\ "config_sub_rest" \in H /\ "speed" \in H /\ "duplex" \in H
  BY DEF ConfHandlers
<1> HIDE DEF H
<1>2. /\ AllOffer(Leave, c, H)
      /\ \A kws : IsList(kws) => AllShown(Kept(kws), c, H)
      /\ \A kw : Shown(KeptOr(kw), c, H)
      /\ \A kids : AllOffer(kids, c, H) => Shown(Word(kids), c, H) /\ Shown(Number(kids), c, H)
  BY <1>1, LeaveShown, ShownListOffers, AllTakeShown, KeywordShown, ParamShown, OneShown,
     EmptyOffers DEF Kept, KeptOr, Word, Number
<1>3. /\ Shown(IpAddress, c, H) /\ Shown(Ipv6Address, c, H) /\ Shown(Ipv6Ospf, c, H)
      /\ Shown(SwitchportMode, c, H) /\ Shown(SwitchportAccess, c, H)
  BY <1>1, <1>2, WordsAreLists, CmdShown, CmdsShown, MenuShown, KeywordShown, ParamShown,
     TakesShown, JoinedShown, ShownListOffers, EmptyOffers, OneShown, TwoShown, ThreeShown
     DEF IpAddress, Ipv6Address, Ipv6Ospf, SwitchportMode, SwitchportAccess
<1>4. AllShown(InterfaceModelled, c, H)
  BY <1>1, <1>2, <1>3, WordsAreLists, CmdShown, MenuShown, KeywordShown, ParamShown,
     JoinedShown, ShownListOffers, EmptyOffers, OneShown, ThreeShown, FourShown, FiveShown
     DEF InterfaceModelled
<1>5. AllShown(InterfaceKept, c, H)
  BY <1>1, <1>2, WordsAreLists, CmdsShown, MenuShown, KeywordShown, ParamShown, JoinedShown,
     ShownListOffers, EmptyOffers, OneShown, FiveShown
     DEF InterfaceKept
<1>6. AllOffer(config_if_tree, c, H)
  BY <1>2, <1>4, <1>5, ShownListOffers, JoinedOffer DEF config_if_tree
<1> QED
  BY <1>6 DEF H

(* The trees of access lists and of VLANs have one command of their own. *)
LEMMA SubTreesOffer ==
    ASSUME NEW c \in Classes, NEW H, None \in H, "show" \in H, "config_exit" \in H,
           "config_end" \in H
    PROVE  /\ "nacl_entry" \in H => AllOffer(config_nacl_tree, c, H)
           /\ "vlan_name" \in H => AllOffer(config_vlan_tree, c, H)
<1>1. AllOffer(Leave, c, H)
  BY LeaveShown, ShownListOffers
<1> QED
  BY <1>1, WordsAreLists, AllTakeShown, TakesShown, OneShown, ShownListOffers, JoinedOffer
     DEF config_nacl_tree, config_vlan_tree

(* Each of the configuration modes' trees. *)
LEMMA ConfigTreesOffer ==
    ASSUME NEW m, NEW c \in Classes
    PROVE  AllOffer(config_tree_for_mode(m), c, ConfHandlers)
<1> DEFINE H == ConfHandlers
<1>1. /\ None \in H /\ "show" \in H /\ "config_exit" \in H /\ "config_end" \in H
      /\ "nacl_entry" \in H /\ "vlan_name" \in H /\ "config_sub_rest" \in H
  BY DEF ConfHandlers
<1>2. AllOffer(conf_tree, c, H) /\ AllOffer(config_if_tree, c, H)
  BY ConfTreeOffers, InterfaceTreeOffers
<1> HIDE DEF H
<1>3. AllOffer(config_nacl_tree, c, H) /\ AllOffer(config_vlan_tree, c, H)
  BY <1>1, SubTreesOffer
<1>4. AllOffer(config_router_tree, c, H) /\ AllOffer(config_line_tree, c, H)
  BY <1>1, WordsAreLists, LeaveShown, AllTakeShown, TakesShown, CmdShown, TwoShown, JoinedShown,
     ShownListOffers DEF config_router_tree, config_line_tree, Kept
<1>5. AllOffer(config_tree_for_mode(m), c, H)
  BY <1>2, <1>3, <1>4 DEF config_tree_for_mode
<1> QED
  BY <1>5 DEF H

-----------------------------------------------------------------------------
(* The parser. *)

(* find_matches(): a word meets only nodes that are shown. *)
LEMMA MatchesAreVisible ==
    ASSUME NEW w, NEW nodes, NEW c
    PROVE  find_matches(w, nodes, c) \subseteq { i \in DOMAIN nodes : c \in nodes[i].modes }
BY Zenon DEF find_matches, Visible

(* A walk along a line of words that has met only nodes that c is shown. *)
WalkFields == {"at", "node", "taken", "path"}
OnShown(s, c, H) == DOMAIN s = WalkFields /\ (s.at = "path" => Shown(s.node, c, H))

(* One more word keeps to what is shown. *)
LEMMA StepStays ==
    ASSUME NEW s, NEW w, NEW c, NEW H, OnShown(s, c, H)
    PROVE  OnShown(Step(s, w, c), c, H)
<1> DEFINE m    == find_matches(w, s.node.children, c)
           i    == CHOOSE j \in m : TRUE
           n    == s.node.children[i]
           stop == [s EXCEPT !.at = IF m = {} THEN "invalid" ELSE "ambiguous"]
<1>1. Step(s, w, c) = IF s.at # "path" THEN s ELSE IF IsSingle(m) THEN Down(s, n) ELSE stop
  BY Zenon DEF Step
<1>2. m \subseteq { j \in DOMAIN s.node.children : c \in s.node.children[j].modes }
  BY MatchesAreVisible
<1>3. IsSingle(m) => i \in m
  BY DEF IsSingle
<1> HIDE DEF m
<1>4. DOMAIN stop = WalkFields /\ stop.at # "path"
  BY DEF OnShown, WalkFields
<1> HIDE DEF i, stop
<1>5. ASSUME s.at = "path", IsSingle(m)
      PROVE  OnShown(Down(s, n), c, H)
  <2>1. i \in DOMAIN s.node.children /\ c \in n.modes
    BY <1>2, <1>3, <1>5
  <2>2. AllOffer(s.node.children, c, H)
    BY <1>5, OfferOwn DEF OnShown, Shown
  <2>3. Offers(n, c, H)
    BY <2>1, <2>2, MemberOffers
  <2> HIDE DEF n
  <2>4. Shown(n, c, H)
    BY <2>1, <2>3 DEF Shown
  <2>5. DOMAIN Down(s, n) = WalkFields /\ Down(s, n).node = n
    BY DEF Down, WalkFields
  <2> QED
    BY <2>4, <2>5 DEF OnShown
<1> HIDE DEF n
<1> QED
  BY <1>1, <1>4, <1>5 DEF OnShown

(* The walk of the parser, up to a word: Descend() as a function of the    *)
(* number of words.                                                        *)
Onward(s, w, c) == IF s.node.kind = "rest" THEN s ELSE Step(s, w, c)
WalkAt(f, words, tree, c, m) ==
    IF m = 0 THEN Root(tree) ELSE Onward(f[m - 1], words[m], c)
Walks(f, words, tree, c, n) == f = [m \in 0 .. n |-> WalkAt(f, words, tree, c, m)]

(* Such a function, word for word. *)
LEMMA WalksPointwise ==
    ASSUME NEW f, NEW words, NEW tree, NEW c, NEW n \in Nat
    PROVE  Walks(f, words, tree, c, n) <=>
             /\ f = [m \in 0 .. n |-> f[m]]
             /\ \A m \in 0 .. n : f[m] = WalkAt(f, words, tree, c, m)
<1> DEFINE F == [m \in 0 .. n |-> WalkAt(f, words, tree, c, m)]
<1>1. Walks(f, words, tree, c, n) <=> f = F
  BY DEF Walks
<1>2. DOMAIN F = 0 .. n /\ F = [m \in 0 .. n |-> F[m]]
      /\ \A m \in 0 .. n : F[m] = WalkAt(f, words, tree, c, m)
  OBVIOUS
<1>3. ASSUME f = [m \in 0 .. n |-> f[m]], \A m \in 0 .. n : f[m] = WalkAt(f, words, tree, c, m)
      PROVE  f = F
  BY <1>3
<1> HIDE DEF F
<1> QED
  BY <1>1, <1>2, <1>3

(* There is such a function, for any number of words. *)
LEMMA WalkExists ==
    ASSUME NEW words, NEW tree, NEW c, NEW n \in Nat
    PROVE  \E f : Walks(f, words, tree, c, n)
<1> DEFINE T == { k \in Nat : \E f : Walks(f, words, tree, c, k) }
<1>1. 0 \in T
  <2> DEFINE f == [m \in 0 .. 0 |-> Root(tree)]
  <2>1. Walks(f, words, tree, c, 0)
    BY DEF Walks, WalkAt
  <2> QED
    BY <2>1
<1>2. ASSUME NEW k \in Nat, k \in T PROVE k + 1 \in T
  <2>1. PICK f : Walks(f, words, tree, c, k)
    BY <1>2
  <2>2. \A m \in 0 .. k : f[m] = WalkAt(f, words, tree, c, m)
    BY <2>1, WalksPointwise
  <2> DEFINE g == [m \in 0 .. k + 1 |->
                     IF m <= k THEN f[m] ELSE WalkAt(f, words, tree, c, m)]
  <2>3. ASSUME NEW m \in 0 .. k + 1 PROVE g[m] = WalkAt(g, words, tree, c, m)
    <3>1. g[m] = WalkAt(f, words, tree, c, m)
      BY <2>2
    <3>2. m # 0 => g[m - 1] = f[m - 1]
      OBVIOUS
    <3> HIDE DEF g
    <3> QED
      BY <3>1, <3>2 DEF WalkAt
  <2>4. g = [m \in 0 .. k + 1 |-> g[m]]
    OBVIOUS
  <2> HIDE DEF g
  <2>5. Walks(g, words, tree, c, k + 1)
    <3>1. k + 1 \in Nat
      OBVIOUS
    <3> QED
      BY <3>1, <2>3, <2>4, WalksPointwise
  <2> QED
    BY <2>5
<1> HIDE DEF T
<1>3. n \in T
  BY <1>1, <1>2, InductionLemma
<1> QED
  BY <1>3 DEF T

(* The walk starts at the whole tree. *)
LEMMA RootIsShown ==
    ASSUME NEW tree, NEW c \in Classes, NEW H, None \in H, AllOffer(tree, c, H)
    PROVE  OnShown(Root(tree), c, H)
<1>1. Shown(Menu(None, tree), c, H)
  BY MenuShown
<1>2. DOMAIN Root(tree) = WalkFields /\ Root(tree).node = Menu(None, tree)
  BY DEF Root, WalkFields
<1> QED
  BY <1>1, <1>2 DEF OnShown

(* However many words are typed, the walk keeps to what is shown. *)
LEMMA WalkStays ==
    ASSUME NEW words, NEW tree, NEW c \in Classes, NEW H, None \in H, AllOffer(tree, c, H),
           NEW n \in Nat, NEW f, Walks(f, words, tree, c, n)
    PROVE  OnShown(f[n], c, H)
<1> DEFINE T == { k \in Nat : k <= n => OnShown(f[k], c, H) }
<1>1. \A m \in 0 .. n : f[m] = WalkAt(f, words, tree, c, m)
  BY WalksPointwise
<1>2. 0 \in T
  <2>1. f[0] = Root(tree)
    BY <1>1 DEF WalkAt
  <2> QED
    BY <2>1, RootIsShown
<1>3. ASSUME NEW k \in Nat, k \in T PROVE k + 1 \in T
  <2> SUFFICES ASSUME k + 1 <= n PROVE OnShown(f[k + 1], c, H)
    OBVIOUS
  <2>1. OnShown(f[k], c, H)
    BY <1>3
  <2>2. f[k + 1] = Onward(f[k], words[k + 1], c)
    <3>1. k + 1 \in 0 .. n /\ k + 1 # 0 /\ (k + 1) - 1 = k
      OBVIOUS
    <3>2. f[k + 1] = WalkAt(f, words, tree, c, k + 1)
      BY <1>1, <3>1
    <3> QED
      BY <3>1, <3>2 DEF WalkAt
  <2> QED
    BY <2>1, <2>2, StepStays DEF Onward
<1> HIDE DEF T
<1>4. n \in T
  BY <1>2, <1>3, InductionLemma
<1> QED
  BY <1>4 DEF T

(* The parser's walk keeps to what is shown. *)
LEMMA DescentStays ==
    ASSUME NEW S, NEW words \in Seq(S), NEW tree, NEW c \in Classes, NEW H, None \in H,
           AllOffer(tree, c, H)
    PROVE  OnShown(Descend(words, tree, c), c, H)
<1> DEFINE n == Len(words)
           f[m \in 0 .. n] ==
            IF m = 0 THEN Root(tree)
            ELSE IF f[m - 1].node.kind = "rest" THEN f[m - 1]
            ELSE Step(f[m - 1], words[m], c)
<1>0. n \in Nat
  OBVIOUS
<1>1. Walks(f, words, tree, c, n)
  <2> HIDE DEF n
  <2>1. \E g : Walks(g, words, tree, c, n)
    BY <1>0, WalkExists
  <2> QED
    BY <2>1, Zenon DEF Walks, WalkAt, Onward
<1>2. Descend(words, tree, c) = f[n]
  BY Zenon DEF Descend
<1> HIDE DEF f, n
<1> QED
  BY <1>0, <1>1, <1>2, WalkStays

(* parse() and parse_for_no() run a handler that the tree offers, or       *)
(* none.                                                                   *)
LEMMA ParsedIsOffered ==
    ASSUME NEW S, NEW words \in Seq(S), NEW tree, NEW c \in Classes, NEW H, None \in H,
           AllOffer(tree, c, H)
    PROVE  /\ parse(words, tree, c).handler \in H
           /\ parse_for_no(words, tree, c).handler \in H
<1> DEFINE s == Descend(words, tree, c)
<1>1. OnShown(s, c, H)
  BY DescentStays
<1>2. s.at = "path" => s.node.handler \in H /\ s.node.no_handler \in H
  BY <1>1, OfferOwn DEF OnShown, Shown
<1>3. \A kind, h : Parsed(kind, s, h).handler = h
  BY DEF Parsed
<1>4. parse(words, tree, c) =
        IF words = <<>> THEN Parsed("empty", s, None)
        ELSE IF s.at # "path" THEN Parsed(s.at, s, None)
        ELSE IF s.node.handler = None THEN Parsed("incomplete", s, None)
        ELSE Parsed("execute", s, s.node.handler)
  BY Zenon DEF parse
<1>5. parse_for_no(words, tree, c) =
        IF s.at = "path" /\ words # <<>> /\ s.node.kind # "rest" /\ s.node.no_handler # None
        THEN Parsed("execute", s, s.node.no_handler)
        ELSE parse(words, tree, c)
  BY Zenon DEF parse_for_no
<1> HIDE DEF s
<1>6. parse(words, tree, c).handler \in H
  BY <1>2, <1>3, <1>4
<1> QED
  BY <1>2, <1>3, <1>5, <1>6

(* dispatch_config(): a line runs what the mode's own tree offers or,      *)
(* with "do", what privileged EXEC does.                                   *)
LEMMA DispatchIsOffered ==
    ASSUME NEW S, NEW m \in CommandModes, NEW ws \in Seq(S), NEW H, None \in H,
           AllOffer(Tree(m), class(m), H),
           Prefixed(m, ws, "do") => AllOffer(exec_tree, "priv", H)
    PROVE  Dispatch(m, ws).handler \in H
<1> DEFINE in   == Borrowed(m, ws)
           rest == IF in # m THEN Tail(ws) ELSE ws
<1>1. Dispatch(m, ws) =
        IF Prefixed(m, ws, "no") THEN parse_for_no(Tail(ws), Tree(m), class(m))
        ELSE parse(rest, Tree(in), class(in))
  BY Zenon DEF Dispatch
<1>2. class(m) \in Classes /\ class("priv") = "priv" /\ "priv" \in Classes
      /\ Tree("priv") = exec_tree
  BY DEF class, Classes, CommandModes, ConfigModes, SubModes, ExecModes, Tree
<1>3. Len(ws) > 1 => Tail(ws) \in Seq(S)
  OBVIOUS
<1>4. CASE Prefixed(m, ws, "no")
  BY <1>1, <1>2, <1>3, <1>4, ParsedIsOffered DEF Prefixed
<1>5. CASE ~ Prefixed(m, ws, "no")
  <2>1. CASE Prefixed(m, ws, "do")
    <3>1. in = "priv" /\ rest = Tail(ws) /\ m \in ConfigModes
      BY <2>1 DEF Borrowed, Prefixed, ConfigModes, SubModes
    <3> HIDE DEF in, rest
    <3> QED
      BY <1>1, <1>2, <1>3, <1>5, <2>1, <3>1, ParsedIsOffered DEF Prefixed
  <2>2. CASE ~ Prefixed(m, ws, "do")
    <3>1. in = m /\ rest = ws
      BY <2>2 DEF Borrowed
    <3> HIDE DEF in, rest
    <3> QED
      BY <1>1, <1>2, <1>5, <3>1, ParsedIsOffered
  <2> QED
    BY <2>1, <2>2
<1> QED
  BY <1>4, <1>5

(* What a line typed inside an access list, or a VLAN, can run. *)
NaclHandlers == ExecHandlers \cup {"config_exit", "config_end", "nacl_entry"}
VlanHandlers == ExecHandlers \cup {"config_exit", "config_end", "vlan_name"}

(* Inside an access list, or a VLAN, no line runs a handler that removes   *)
(* one.                                                                    *)
LEMMA OpenSubModesOnlyAdd ==
    ASSUME NEW S, NEW ws \in Seq(S)
    PROVE  /\ \A m \in {"config-ext-nacl", "config-std-nacl"} :
                  Dispatch(m, ws).handler \in NaclHandlers
           /\ Dispatch("config-vlan", ws).handler \in VlanHandlers
<1>1. \A H : ExecHandlers \subseteq H => AllOffer(exec_tree, "priv", H)
  BY ExecTreeOffers, ShownWiden DEF HandlersOf, Classes
<1>2. None \in ExecHandlers /\ "show" \in ExecHandlers
  BY DEF ExecHandlers, UserHandlers
<1>3. ASSUME NEW m \in {"config-ext-nacl", "config-std-nacl"}
      PROVE  Dispatch(m, ws).handler \in NaclHandlers
  <2>1. /\ m \in CommandModes /\ m \in ConfigModes /\ class(m) = "sub" /\ "sub" \in Classes
        /\ Tree(m) = config_nacl_tree
    BY DEF CommandModes, ConfigModes, SubModes, class, Classes, Tree, config_tree_for_mode
  <2>2. AllOffer(config_nacl_tree, "sub", NaclHandlers)
    BY <1>2, <2>1, SubTreesOffer DEF NaclHandlers
  <2>3. ExecHandlers \subseteq NaclHandlers
    BY DEF NaclHandlers
  <2> QED
    BY <1>1, <1>2, <2>1, <2>2, <2>3, DispatchIsOffered
<1>4. Dispatch("config-vlan", ws).handler \in VlanHandlers
  <2> DEFINE m == "config-vlan"
  <2>1. /\ m \in CommandModes /\ m \in ConfigModes /\ class(m) = "sub" /\ "sub" \in Classes
        /\ Tree(m) = config_vlan_tree
    BY DEF CommandModes, ConfigModes, SubModes, class, Classes, Tree, config_tree_for_mode
  <2>2. AllOffer(config_vlan_tree, "sub", VlanHandlers)
    BY <1>2, <2>1, SubTreesOffer DEF VlanHandlers
  <2>3. ExecHandlers \subseteq VlanHandlers
    BY DEF VlanHandlers
  <2> QED
    BY <1>1, <1>2, <2>1, <2>2, <2>3, DispatchIsOffered
<1> QED
  BY <1>3, <1>4

-----------------------------------------------------------------------------
(* The sessions of DeviceConfig: what is open exists. *)

(* The fields of a DeviceState, and the modes of a session. *)
StateFields == DOMAIN Factory(None, {}, {}, {})
Modes == {"priv"} \cup ConfigModes

(* The modes of a session, one by one. *)
LEMMA ModesAre ==
    Modes = {"priv", "config", "config-if", "config-router", "config-line", "config-ext-nacl",
             "config-std-nacl", "config-vlan"}
BY DEF Modes, ConfigModes, SubModes

(* A DeviceState has the same fields whatever it is made with. *)
LEMMA FieldsAre ==
    ASSUME NEW h, NEW p, NEW d, NEW l
    PROVE  DOMAIN Factory(h, p, d, l) =
             {"hostname", "interfaces", "static_routes", "ipv6_static_routes",
              "ipv6_unicast_routing", "ospfv3", "vlans", "access_lists", "users",
              "enable_secret", "banner_motd", "buffered", "console", "monitor", "hosts",
              "unmodeled"}
BY DEF Factory

(* The fields of a DeviceState, one by one. *)
LEMMA StateFieldsAre ==
    StateFields =
             {"hostname", "interfaces", "static_routes", "ipv6_static_routes",
              "ipv6_unicast_routing", "ospfv3", "vlans", "access_lists", "users",
              "enable_secret", "banner_motd", "buffered", "console", "monitor", "hosts",
              "unmodeled"}
BY FieldsAre DEF StateFields

(* Each line of a session runs the handler its mode's tree finds for it. *)
Understood ==
    \A m \in Modes : \A ws \in DOMAIN commands[m] :
        /\ ws \in Seq(STRING)
        /\ commands[m][ws] = Dispatch(m, ws).handler

(* What the mode m edits is there. *)
OpenIn(m, where, s) ==
    /\ m = "config-if" => where.interface \in DOMAIN s.interfaces
    /\ m \in {"config-ext-nacl", "config-std-nacl"} => where.acl \in DOMAIN s.access_lists
    /\ m = "config-vlan" => where.vlan \in DOMAIN s.vlans

(* The invariant: WhatIsOpenExists, and that the session's lines were      *)
(* looked up in the trees. Without that part a sub-mode might remove what  *)
(* it edits.                                                               *)
AtFields == {"interface", "acl", "vlan"}
OpenInv ==
    /\ Understood
    /\ mode \in Modes
    /\ DOMAIN state = StateFields /\ DOMAIN at = AtFields
    /\ OpenIn(mode, at, state)

(* A command that leaves the session where what it edits is there. *)
LEMMA DoneOpens ==
    ASSUME OpenInv, NEW ws, NEW m \in Modes, NEW where, NEW s, Done(ws, m, where, s),
           DOMAIN s = StateFields, DOMAIN where = AtFields, OpenIn(m, where, s)
    PROVE  OpenInv'
BY DEF OpenInv, Done, Understood, OpenIn

(* A state that has all the interfaces, lists and VLANs of this one. *)
Grown(s) ==
    /\ DOMAIN s = StateFields
    /\ DOMAIN state.interfaces \subseteq DOMAIN s.interfaces
    /\ DOMAIN state.access_lists \subseteq DOMAIN s.access_lists
    /\ DOMAIN state.vlans \subseteq DOMAIN s.vlans

(* A command that stays in its mode and removes nothing keeps what is      *)
(* open.                                                                   *)
LEMMA GrownStaysOpen ==
    ASSUME OpenInv, NEW ws, NEW s, Changes(ws, s), Grown(s)
    PROVE  OpenInv'
<1>1. OpenIn(mode, at, s)
  BY DEF OpenInv, OpenIn, Grown
<1> QED
  BY <1>1, DoneOpens DEF OpenInv, Changes, Grown

(* A change of any other field removes nothing. *)
LEMMA FieldsChange ==
    ASSUME DOMAIN state = StateFields
    PROVE  /\ Grown(state)
           /\ \A v : Grown([state EXCEPT !.hostname = v])
           /\ \A v : Grown([state EXCEPT !.static_routes = v])
           /\ \A v : Grown([state EXCEPT !.ipv6_static_routes = v])
           /\ \A v : Grown([state EXCEPT !.ipv6_unicast_routing = v])
           /\ \A v : Grown([state EXCEPT !.ospfv3 = v])
           /\ \A v : Grown([state EXCEPT !.users = v])
           /\ \A v : Grown([state EXCEPT !.enable_secret = v])
           /\ \A v : Grown([state EXCEPT !.banner_motd = v])
           /\ \A v : Grown([state EXCEPT !.buffered = v])
           /\ \A v : Grown([state EXCEPT !.console = v])
           /\ \A v : Grown([state EXCEPT !.monitor = v])
           /\ \A v : Grown([state EXCEPT !.hosts = v])
           /\ \A v : Grown([state EXCEPT !.unmodeled = v])
           /\ \A v : DOMAIN state.interfaces \subseteq DOMAIN v
                     => Grown([state EXCEPT !.interfaces = v])
           /\ \A v : DOMAIN state.access_lists \subseteq DOMAIN v
                     => Grown([state EXCEPT !.access_lists = v])
           /\ \A v : DOMAIN state.vlans \subseteq DOMAIN v
                     => Grown([state EXCEPT !.vlans = v])
BY StateFieldsAre DEF Grown

(* The settings of the device, its routes, users and logging. *)
LEMMA SettingsStayOpen ==
    ASSUME OpenInv, NEW ws,
           \/ hostname(ws) \/ ip_route(ws) \/ ipv6_route(ws) \/ ipv6_unicast_routing(ws)
           \/ enable_secret(ws) \/ logging(ws) \/ username(ws) \/ banner_motd(ws)
           \/ config_sub_rest(ws) \/ stub(ws)
    PROVE  OpenInv'
<1> SUFFICES \E s : Changes(ws, s) /\ Grown(s)
  BY GrownStaysOpen
<1>0. DOMAIN state = StateFields
  BY DEF OpenInv
<1>1. CASE hostname(ws)
  BY <1>0, <1>1, FieldsChange DEF hostname
<1>2. CASE ip_route(ws)
  BY <1>0, <1>2, FieldsChange DEF ip_route
<1>3. CASE ipv6_route(ws)
  BY <1>0, <1>3, FieldsChange DEF ipv6_route
<1>4. CASE ipv6_unicast_routing(ws)
  BY <1>0, <1>4, FieldsChange DEF ipv6_unicast_routing
<1>5. CASE enable_secret(ws)
  BY <1>0, <1>5, FieldsChange DEF enable_secret
<1>6. CASE logging(ws)
  BY <1>0, <1>6, FieldsChange DEF logging
<1>7. CASE username(ws)
  BY <1>0, <1>7, FieldsChange DEF username
<1>8. CASE banner_motd(ws)
  BY <1>0, <1>8, FieldsChange DEF banner_motd
<1>9. CASE config_sub_rest(ws) \/ stub(ws)
  BY <1>0, <1>9, FieldsChange DEF config_sub_rest, stub
<1> QED
  BY <1>1, <1>2, <1>3, <1>4, <1>5, <1>6, <1>7, <1>8, <1>9

(* The commands of an interface change one that is there. *)
LEMMA InterfaceStaysOpen ==
    ASSUME OpenInv, NEW ws, InterfaceCommand(ws)
    PROVE  OpenInv'
<1> DEFINE n == at.interface
<1>0. DOMAIN state = StateFields
  BY DEF OpenInv
<1>1. PICK h : Changes(ws, IF n \in DOMAIN state.interfaces
                    THEN WithArea([state EXCEPT !.interfaces[n] = Handled(h, ws, @)], h, ws)
                    ELSE state)
  BY Zenon DEF InterfaceCommand
<1>2. \A v : Grown([state EXCEPT !.interfaces[n] = v])
  BY <1>0, StateFieldsAre DEF Grown
<1>3. \A s : Grown(s) => Grown(WithArea(s, h, ws))
  BY StateFieldsAre DEF Grown, WithArea
<1>4. Grown(state)
  BY <1>0, FieldsChange
<1>5. CASE n \in DOMAIN state.interfaces
  <2>1. Grown([state EXCEPT !.interfaces[n] = Handled(h, ws, @)])
    BY <1>2
  <2> QED
    BY <1>1, <1>3, <1>5, <2>1, GrownStaysOpen
<1>6. CASE n \notin DOMAIN state.interfaces
  BY <1>1, <1>4, <1>6, GrownStaysOpen
<1> QED
  BY <1>5, <1>6

(* A command that enters a sub-mode creates what it is about to edit. *)
LEMMA EnteringStaysOpen ==
    ASSUME OpenInv, NEW ws,
           \/ interface(ws) \/ router(ws) \/ line_vty(ws) \/ ipv6_router_ospf(ws)
           \/ ip_access_list(ws) \/ vlan(ws)
    PROVE  OpenInv'
<1>0. DOMAIN state = StateFields /\ DOMAIN at = AtFields
  BY DEF OpenInv
<1>7. \A f, key, value : key \in DOMAIN OrNew(f, key, value)
  BY DEF OrNew, With
<1>1. CASE interface(ws)
  <2> DEFINE name == normalize_interface_name(Tail(ws))
             where == [at EXCEPT !.interface = name]
             s     == EnsureInterface(state, name)
  <2>1. Done(ws, "config-if", where, s)
    BY <1>1 DEF interface
  <2>2. DOMAIN where = AtFields /\ where.interface = name
    BY <1>0 DEF AtFields
  <2>3. DOMAIN s = StateFields /\ name \in DOMAIN s.interfaces
    <3> DEFINE g == OrNew(state.interfaces, name, InterfaceState(name))
    <3>1. name \in DOMAIN g
      BY <1>7, Zenon
    <3>2. s = [state EXCEPT !.interfaces = g]
      BY DEF EnsureInterface
    <3> HIDE DEF g, s
    <3> QED
      BY <1>0, <3>1, <3>2, StateFieldsAre
  <2> HIDE DEF name, where, s
  <2> QED
    BY <2>1, <2>2, <2>3, DoneOpens, ModesAre DEF OpenIn
<1>2. CASE router(ws) \/ line_vty(ws)
  <2>1. \E m \in {"config-router", "config-line"} : Done(ws, m, at, state)
    BY <1>2 DEF router, line_vty
  <2> QED
    BY <1>0, <2>1, DoneOpens, ModesAre DEF OpenIn
<1>3. CASE ipv6_router_ospf(ws)
  <2>1. PICK s : Done(ws, "config-router", at, s) /\ DOMAIN s = StateFields
    BY <1>0, <1>3, FieldsChange DEF ipv6_router_ospf, Grown
  <2> QED
    BY <1>0, <2>1, DoneOpens, ModesAre DEF OpenIn
<1>4. CASE ip_access_list(ws)
  <2>1. CASE Nth(ws, 3) \notin {"extended", "standard"} \/ Len(ws) < 4
    <3>1. Changes(ws, state)
      BY <1>4, <2>1 DEF ip_access_list
    <3> QED
      BY <1>0, <3>1, FieldsChange, GrownStaysOpen
  <2>2. CASE ~ (Nth(ws, 3) \notin {"extended", "standard"} \/ Len(ws) < 4)
    <3> DEFINE m     == IF ws[3] = "extended" THEN "config-ext-nacl" ELSE "config-std-nacl"
               where == [at EXCEPT !.acl = ws[4]]
               new   == [type |-> ws[3], entries |-> <<>>]
               s     == [state EXCEPT !.access_lists = OrNew(@, ws[4], new)]
    <3>1. Done(ws, m, where, s)
      BY <1>4, <2>2 DEF ip_access_list
    <3>2. DOMAIN where = AtFields /\ where.acl = ws[4]
      BY <1>0 DEF AtFields
    <3>3. DOMAIN s = StateFields /\ ws[4] \in DOMAIN s.access_lists
      <4> DEFINE g == OrNew(state.access_lists, ws[4], new)
      <4>1. ws[4] \in DOMAIN g
        BY <1>7, Zenon
      <4>2. s = [state EXCEPT !.access_lists = g]
        OBVIOUS
      <4> HIDE DEF g, s
      <4> QED
        BY <1>0, <4>1, <4>2, StateFieldsAre
    <3>4. m \in {"config-ext-nacl", "config-std-nacl"}
      OBVIOUS
    <3> HIDE DEF m, where, s
    <3> QED
      BY <3>1, <3>2, <3>3, <3>4, DoneOpens, ModesAre DEF OpenIn
  <2> QED
    BY <2>1, <2>2
<1>5. CASE vlan(ws)
  <2> DEFINE id    == VlanId(ws)
             where == [at EXCEPT !.vlan = id]
             s     == [state EXCEPT !.vlans = OrNew(@, id, VlanName(id))]
  <2>1. CASE id = 0
    <3>1. Changes(ws, state)
      BY <1>5, <2>1 DEF vlan
    <3> QED
      BY <1>0, <3>1, FieldsChange, GrownStaysOpen
  <2>2. CASE id # 0
    <3>1. Done(ws, "config-vlan", where, s)
      BY <1>5, <2>2 DEF vlan
    <3>2. DOMAIN where = AtFields /\ where.vlan = id
      BY <1>0 DEF AtFields
    <3>3. DOMAIN s = StateFields /\ id \in DOMAIN s.vlans
      <4> DEFINE g == OrNew(state.vlans, id, VlanName(id))
      <4>1. id \in DOMAIN g
        BY <1>7
      <4>2. s = [state EXCEPT !.vlans = g]
        OBVIOUS
      <4> HIDE DEF g, s, id
      <4> QED
        BY <1>0, <4>1, <4>2, StateFieldsAre
    <3> HIDE DEF id, where, s
    <3> QED
      BY <3>1, <3>2, <3>3, DoneOpens, ModesAre DEF OpenIn
  <2> QED
    BY <2>1, <2>2
<1> QED
  BY <1>1, <1>2, <1>3, <1>4, <1>5

(* The commands that remove what a sub-mode edits are not run in that      *)
(* sub-mode: its tree does not offer them, and "do" does not reach them.   *)
LEMMA RemovalsAreGlobal ==
    ASSUME OpenInv, NEW ws \in DOMAIN commands[mode]
    PROVE  /\ Runs("access_list", ws) \/ Runs("no_ip_access_list", ws)
                => mode \notin {"config-ext-nacl", "config-std-nacl"}
           /\ Runs("no_vlan", ws) => mode # "config-vlan"
<1>1. ws \in Seq(STRING) /\ commands[mode][ws] = Dispatch(mode, ws).handler
  BY DEF OpenInv, Understood
<1>2. /\ {"access_list", "no_ip_access_list"} \cap NaclHandlers = {}
      /\ "no_vlan" \notin VlanHandlers
  BY DEF NaclHandlers, VlanHandlers, ExecHandlers, UserHandlers, None
<1>3. /\ \A m \in {"config-ext-nacl", "config-std-nacl"} : Dispatch(m, ws).handler \in NaclHandlers
      /\ Dispatch("config-vlan", ws).handler \in VlanHandlers
  BY <1>1, OpenSubModesOnlyAdd
<1> QED
  BY <1>1, <1>2, <1>3 DEF Runs

(* Access lists and VLANs are removed while no one edits them. *)
LEMMA RemovingStaysOpen ==
    ASSUME OpenInv, NEW ws \in DOMAIN commands[mode],
           access_list(ws) \/ no_ip_access_list(ws) \/ no_vlan(ws)
    PROVE  OpenInv'
<1>0. DOMAIN state = StateFields /\ DOMAIN at = AtFields /\ mode \in Modes
  BY DEF OpenInv
<1>1. ASSUME NEW s, Changes(ws, s), DOMAIN s = StateFields, s.interfaces = state.interfaces,
             s.vlans = state.vlans, mode \notin {"config-ext-nacl", "config-std-nacl"}
      PROVE  OpenInv'
  BY <1>0, <1>1, DoneOpens DEF OpenInv, OpenIn, Changes
<1>2. \A v : LET s == [state EXCEPT !.access_lists = v]
             IN  /\ DOMAIN s = StateFields /\ s.interfaces = state.interfaces
                 /\ s.vlans = state.vlans
  BY <1>0, StateFieldsAre
<1>3. CASE no_ip_access_list(ws)
  <2>1. \E v : Changes(ws, [state EXCEPT !.access_lists = v])
    BY <1>3 DEF no_ip_access_list
  <2> QED
    BY <1>1, <1>2, <1>3, <2>1, RemovalsAreGlobal DEF no_ip_access_list
<1>4. CASE access_list(ws)
  <2>1. \E v : Changes(ws, [state EXCEPT !.access_lists = v])
    BY <1>4 DEF access_list
  <2> QED
    BY <1>1, <1>2, <1>4, <2>1, RemovalsAreGlobal DEF access_list
<1>5. CASE no_vlan(ws)
  <2> DEFINE v == Without(state.vlans, VlanId(ws))
  <2>1. Changes(ws, [state EXCEPT !.vlans = v])
    BY <1>5 DEF no_vlan
  <2> HIDE DEF v
  <2> DEFINE s == [state EXCEPT !.vlans = v]
  <2>2. /\ DOMAIN s = StateFields /\ s.interfaces = state.interfaces
        /\ s.access_lists = state.access_lists
    BY <1>0, StateFieldsAre
  <2>3. mode # "config-vlan"
    BY <1>5, RemovalsAreGlobal DEF no_vlan
  <2> HIDE DEF s
  <2> QED
    BY <1>0, <2>1, <2>2, <2>3, DoneOpens DEF OpenInv, OpenIn, Changes, s
<1> QED
  BY <1>3, <1>4, <1>5

(* Entries and names go into the list, or the VLAN, that is open. *)
LEMMA EntriesStayOpen ==
    ASSUME OpenInv, NEW ws, nacl_entry(ws) \/ vlan_name(ws)
    PROVE  OpenInv'
<1>0. DOMAIN state = StateFields
  BY DEF OpenInv
<1>1. CASE nacl_entry(ws)
  <2>1. /\ \A v : Grown([state EXCEPT !.access_lists[at.acl].entries = v])
        /\ Grown(state)
    BY <1>0, StateFieldsAre DEF Grown
  <2>2. PICK s : Changes(ws, s) /\ Grown(s)
    BY <1>1, <2>1 DEF nacl_entry
  <2> QED
    BY <2>2, GrownStaysOpen
<1>2. CASE vlan_name(ws)
  <2>1. Grown([state EXCEPT !.vlans[at.vlan] = Tail(ws)]) /\ Grown(state)
    BY <1>0, StateFieldsAre DEF Grown
  <2>2. PICK s : Changes(ws, s) /\ Grown(s)
    BY <1>2, <2>1 DEF vlan_name
  <2> QED
    BY <2>2, GrownStaysOpen
<1> QED
  BY <1>1, <1>2

(* Outside of the sub-modes nothing has to be there. *)
LEMMA LeavingStaysOpen ==
    ASSUME OpenInv, NEW ws, config_exit(ws) \/ config_end(ws) \/ configure_terminal(ws)
    PROVE  OpenInv'
<1>1. PICK m \in {"priv", "config"} : Done(ws, m, at, state)
  BY DEF config_exit, config_end, configure_terminal
<1> QED
  BY <1>1, DoneOpens, ModesAre DEF OpenIn, OpenInv

(* A copy to the running configuration that has kept the state's fields. *)
CopyFields == {"interface", "state"}
Copying(c) == DOMAIN c = CopyFields /\ DOMAIN c.state = StateFields

(* apply_config_text_to_state(): one line of the file. *)
LEMMA CopiedLineStays ==
    ASSUME NEW c, NEW ws, Copying(c)
    PROVE  Copying(CopiedLine(c, ws))
<1>1. \A v : /\ Copying([c EXCEPT !.state.hostname = v])
             /\ Copying([c EXCEPT !.state.static_routes = v])
             /\ Copying([c EXCEPT !.state.interfaces[c.interface] = v])
             /\ Copying([c EXCEPT !.interface = v])
             /\ Copying([interface |-> v, state |-> EnsureInterface(c.state, v)])
  BY StateFieldsAre DEF Copying, CopyFields, EnsureInterface
<1> QED
  BY <1>1 DEF CopiedLine

(* The copy of a file up to a line: Copied as a function of the number of  *)
(* lines.                                                                  *)
CopyAt(f, s, lines, m) ==
    IF m = 0 THEN [interface |-> None, state |-> s] ELSE CopiedLine(f[m - 1], lines[m][2])
Copies(f, s, lines, n) == f = [m \in 0 .. n |-> CopyAt(f, s, lines, m)]

(* Such a function, line for line. *)
LEMMA CopiesPointwise ==
    ASSUME NEW f, NEW s, NEW lines, NEW n \in Nat
    PROVE  Copies(f, s, lines, n) <=>
             /\ f = [m \in 0 .. n |-> f[m]]
             /\ \A m \in 0 .. n : f[m] = CopyAt(f, s, lines, m)
<1> DEFINE F == [m \in 0 .. n |-> CopyAt(f, s, lines, m)]
<1>1. Copies(f, s, lines, n) <=> f = F
  BY DEF Copies
<1>2. DOMAIN F = 0 .. n /\ F = [m \in 0 .. n |-> F[m]]
      /\ \A m \in 0 .. n : F[m] = CopyAt(f, s, lines, m)
  OBVIOUS
<1>3. ASSUME f = [m \in 0 .. n |-> f[m]], \A m \in 0 .. n : f[m] = CopyAt(f, s, lines, m)
      PROVE  f = F
  BY <1>3
<1> HIDE DEF F
<1> QED
  BY <1>1, <1>2, <1>3

(* There is such a function, for any number of lines. *)
LEMMA CopyExists ==
    ASSUME NEW s, NEW lines, NEW n \in Nat
    PROVE  \E f : Copies(f, s, lines, n)
<1> DEFINE T == { k \in Nat : \E f : Copies(f, s, lines, k) }
<1>1. 0 \in T
  <2> DEFINE f == [m \in 0 .. 0 |-> [interface |-> None, state |-> s]]
  <2>1. Copies(f, s, lines, 0)
    BY DEF Copies, CopyAt
  <2> QED
    BY <2>1
<1>2. ASSUME NEW k \in Nat, k \in T PROVE k + 1 \in T
  <2>1. PICK f : Copies(f, s, lines, k)
    BY <1>2
  <2>2. \A m \in 0 .. k : f[m] = CopyAt(f, s, lines, m)
    BY <2>1, CopiesPointwise
  <2> DEFINE g == [m \in 0 .. k + 1 |-> IF m <= k THEN f[m] ELSE CopyAt(f, s, lines, m)]
  <2>3. ASSUME NEW m \in 0 .. k + 1 PROVE g[m] = CopyAt(g, s, lines, m)
    <3>1. g[m] = CopyAt(f, s, lines, m)
      BY <2>2
    <3>2. m # 0 => g[m - 1] = f[m - 1]
      OBVIOUS
    <3> HIDE DEF g
    <3> QED
      BY <3>1, <3>2 DEF CopyAt
  <2>4. g = [m \in 0 .. k + 1 |-> g[m]]
    OBVIOUS
  <2> HIDE DEF g
  <2>5. Copies(g, s, lines, k + 1)
    <3>1. k + 1 \in Nat
      OBVIOUS
    <3> QED
      BY <3>1, <2>3, <2>4, CopiesPointwise
  <2> QED
    BY <2>5
<1> HIDE DEF T
<1>3. n \in T
  BY <1>1, <1>2, InductionLemma
<1> QED
  BY <1>3 DEF T

(* However many lines are copied, the state keeps its fields. *)
LEMMA CopyStays ==
    ASSUME NEW s, DOMAIN s = StateFields, NEW lines, NEW n \in Nat, NEW f,
           Copies(f, s, lines, n)
    PROVE  Copying(f[n])
<1> DEFINE T == { k \in Nat : k <= n => Copying(f[k]) }
<1>1. \A m \in 0 .. n : f[m] = CopyAt(f, s, lines, m)
  BY CopiesPointwise
<1>2. 0 \in T
  <2>1. f[0] = [interface |-> None, state |-> s]
    BY <1>1 DEF CopyAt
  <2> QED
    BY <2>1 DEF Copying, CopyFields
<1>3. ASSUME NEW k \in Nat, k \in T PROVE k + 1 \in T
  <2> SUFFICES ASSUME k + 1 <= n PROVE Copying(f[k + 1])
    OBVIOUS
  <2>1. Copying(f[k])
    BY <1>3
  <2>2. f[k + 1] = CopiedLine(f[k], lines[k + 1][2])
    <3>1. k + 1 \in 0 .. n /\ k + 1 # 0 /\ (k + 1) - 1 = k
      OBVIOUS
    <3>2. f[k + 1] = CopyAt(f, s, lines, k + 1)
      BY <1>1, <3>1
    <3> QED
      BY <3>1, <3>2 DEF CopyAt
  <2> QED
    BY <2>1, <2>2, CopiedLineStays
<1> HIDE DEF T
<1>4. n \in T
  BY <1>2, <1>3, InductionLemma
<1> QED
  BY <1>4 DEF T

(* A file that is copied leaves a DeviceState. *)
LEMMA CopiedStays ==
    ASSUME NEW s, DOMAIN s = StateFields, NEW S, NEW lines \in Seq(S)
    PROVE  DOMAIN Copied(s, lines) = StateFields
<1> DEFINE n == Len(lines)
           f[m \in 0 .. n] ==
            IF m = 0 THEN [interface |-> None, state |-> s]
            ELSE CopiedLine(f[m - 1], lines[m][2])
<1>0. n \in Nat
  OBVIOUS
<1>1. Copies(f, s, lines, n)
  <2> HIDE DEF n
  <2>1. \E g : Copies(g, s, lines, n)
    BY <1>0, CopyExists
  <2> QED
    BY <2>1, Zenon DEF Copies, CopyAt
<1>2. Copied(s, lines) = f[n].state
  BY Zenon DEF Copied
<1> HIDE DEF f, n
<1> QED
  BY <1>0, <1>1, <1>2, CopyStays DEF Copying

(* A copied file and another software are taken over from outside of the   *)
(* sub-modes.                                                              *)
LEMMA RestartsStayOpen ==
    ASSUME OpenInv, \/ \E name \in DOMAIN Files : CopyToRunning(name)
                    \/ derive
    PROVE  OpenInv'
<1>0. DOMAIN state = StateFields /\ DOMAIN at = AtFields
  BY DEF OpenInv
<1>1. ASSUME NEW name \in DOMAIN Files, CopyToRunning(name)
      PROVE  OpenInv'
  <2>1. DOMAIN Copied(state, Files[name]) = StateFields
    BY <1>0, SessionAssumption, CopiedStays
  <2>2. mode = "priv" /\ Done(<<"copy", name>>, mode, at, Copied(state, Files[name]))
    BY <1>1 DEF CopyToRunning
  <2> QED
    BY <1>0, <2>1, <2>2, DoneOpens, ModesAre DEF OpenIn
<1>2. ASSUME derive
      PROVE  OpenInv'
  <2>1. DOMAIN Derived(state) = StateFields
    BY FieldsAre, StateFieldsAre DEF Derived
  <2>2. Done(<<"derive">>, "priv", Nothing, Derived(state))
    BY <1>2 DEF derive
  <2>3. DOMAIN Nothing = AtFields
    BY DEF Nothing, AtFields
  <2> QED
    BY <2>1, <2>2, <2>3, DoneOpens, ModesAre DEF OpenIn
<1> QED
  BY <1>1, <1>2

(* For every vocabulary, every set of files and every factory state: the   *)
(* interface, access list or VLAN that the mode edits exists, whatever     *)
(* was removed, copied over or derived before (build_config_body(), and    *)
(* each handler that looks up current_interface, current_acl_name or       *)
(* current_vlan_id).                                                       *)
THEOREM WhatIsOpen == Spec => []WhatIsOpenExists
<1>1. Init => OpenInv
  <2> SUFFICES ASSUME Init PROVE OpenInv
    OBVIOUS
  <2>1. PICK lines \in Vocabularies :
            commands = [m \in Modes |-> [ws \in lines |-> Dispatch(m, ws).handler]]
    BY Zenon DEF Init, Modes
  <2>2. lines \subseteq Seq(STRING)
    BY SessionAssumption
  <2>3. Understood
    BY <2>1, <2>2 DEF Understood
  <2>4. DOMAIN state = StateFields
    BY SessionAssumption, Zenon DEF Init, StateFields
  <2>5. mode = "config" /\ DOMAIN at = AtFields
    BY DEF Init, Nothing, AtFields
  <2> QED
    BY <2>3, <2>4, <2>5, ModesAre DEF OpenInv, OpenIn
<1>2. OpenInv /\ [Next]_vars => OpenInv'
  <2> SUFFICES ASSUME OpenInv, [Next]_vars PROVE OpenInv'
    OBVIOUS
  <2>1. CASE UNCHANGED vars
    BY <2>1 DEF vars, OpenInv, Understood
  <2>2. ASSUME NEW ws \in DOMAIN commands[mode], Command(ws)
        PROVE  OpenInv'
    <3>1. CASE \/ hostname(ws) \/ ip_route(ws) \/ ipv6_route(ws) \/ ipv6_unicast_routing(ws)
               \/ enable_secret(ws) \/ logging(ws) \/ username(ws) \/ banner_motd(ws)
               \/ config_sub_rest(ws) \/ stub(ws)
      BY <3>1, SettingsStayOpen
    <3>2. CASE InterfaceCommand(ws)
      BY <3>2, InterfaceStaysOpen
    <3>3. CASE \/ interface(ws) \/ router(ws) \/ line_vty(ws) \/ ipv6_router_ospf(ws)
               \/ ip_access_list(ws) \/ vlan(ws)
      BY <3>3, EnteringStaysOpen
    <3>4. CASE access_list(ws) \/ no_ip_access_list(ws) \/ no_vlan(ws)
      BY <3>4, RemovingStaysOpen
    <3>5. CASE nacl_entry(ws) \/ vlan_name(ws)
      BY <3>5, EntriesStayOpen
    <3>6. CASE config_exit(ws) \/ config_end(ws) \/ configure_terminal(ws)
      BY <3>6, LeavingStaysOpen
    <3> QED
      BY <2>2, <3>1, <3>2, <3>3, <3>4, <3>5, <3>6, Zenon DEF Command
  <2>3. CASE (\E name \in DOMAIN Files : CopyToRunning(name)) \/ derive
    BY <2>3, RestartsStayOpen
  <2> QED
    BY <2>1, <2>2, <2>3 DEF Next
<1>3. OpenInv => WhatIsOpenExists
  BY DEF OpenInv, OpenIn, WhatIsOpenExists
<1> QED
  BY <1>1, <1>2, <1>3, PTL DEF Spec

-----------------------------------------------------------------------------
(* The sessions of CommandLine, key by key. The trees and the parser are   *)
(* those of the sections above: an instance has them under names of its    *)
(* own.                                                                    *)

CONSTANTS Args, Lengths, MaxWords, Starts, EnablePassword

VARIABLES line, space, reply
Line == INSTANCE CommandLine

(* The EXEC tree is the same one in both. *)
LEMMA SameExecTree == Line!exec_tree = exec_tree
BY ZenonT(60) DEF Line!None, Line!Classes, Line!Keyword, Line!Param, Line!Only,
             Line!Cmd, Line!Menu, Line!Takes, Line!Cmds, Line!AllTake, Line!AllOnly,
             Line!Priv, Line!PrivAll, Line!Shows, Line!ShowMenu, Line!ShowWith, Line!ShowIp,
             Line!ShowIpv6, Line!ShowConfig, Line!ShowPorts, Line!ShowFeatures, Line!Show,
             Line!ModeCommands, Line!FileCommands, Line!InstallCommands,
             Line!TerminalCommands, Line!DebugCommands, Line!exec_tree,
             None, Classes, Keyword, Param, Only, Cmd, Menu, Takes, Cmds, AllTake, AllOnly,
             Priv, PrivAll, Shows, ShowMenu, ShowWith, ShowIp, ShowIpv6, ShowConfig, ShowPorts,
             ShowFeatures, Show, ModeCommands, FileCommands, InstallCommands,
             TerminalCommands, DebugCommands, exec_tree

(* The configuration tree is. *)
LEMMA SameConfTree == Line!conf_tree = conf_tree
<1>1. Line!Leave = Leave /\ Line!NamedCommands = NamedCommands
  BY ZenonT(90) DEF Line!None, Line!Classes, Line!Keyword, Line!Param, Line!InRange, Line!Only,
             Line!Undone, Line!Cmd, Line!Menu, Line!Takes, Line!Cmds, Line!AllTake,
             Line!AllOnly, Line!Global, Line!GlobalAll, Line!IfOnly, Line!Word,
             Line!Number, Line!Leave, Line!AclEntry, Line!AclRanges,
             Line!NamedCommands, None, Classes, Keyword, Param, InRange, Only,
             Undone, Cmd, Menu, Takes, Cmds, AllTake, AllOnly, Global, GlobalAll,
             IfOnly, Word, Number, Leave, AclEntry, AclRanges, NamedCommands
<1>2. Line!IpCommands = IpCommands
  BY ZenonT(90) DEF Line!None, Line!Classes, Line!Keyword, Line!Param, Line!InRange, Line!Only,
             Line!Undone, Line!Cmd, Line!Menu, Line!Takes, Line!Cmds, Line!AllTake,
             Line!AllOnly, Line!Global, Line!GlobalAll, Line!IfOnly, Line!Word,
             Line!Number, Line!IpAddress, Line!Ipv6Address, Line!Ipv6Ospf,
             Line!IpCommands, None, Classes, Keyword, Param, InRange, Only, Undone,
             Cmd, Menu, Takes, Cmds, AllTake, AllOnly, Global, GlobalAll, IfOnly,
             Word, Number, IpAddress, Ipv6Address, Ipv6Ospf, IpCommands
<1>3. Line!ServiceCommands = ServiceCommands
  BY ZenonT(90) DEF Line!None, Line!Classes, Line!Keyword, Line!Param, Line!InRange, Line!Only,
             Line!Undone, Line!Cmd, Line!Menu, Line!Takes, Line!Cmds, Line!AllTake,
             Line!AllOnly, Line!Global, Line!GlobalAll, Line!IfOnly, Line!Word,
             Line!Number, Line!ServiceCommands, None, Classes, Keyword, Param,
             InRange, Only, Undone, Cmd, Menu, Takes, Cmds, AllTake, AllOnly,
             Global, GlobalAll, IfOnly, Word, Number, ServiceCommands
<1>4. Line!SwitchCommands = SwitchCommands
  BY ZenonT(90) DEF Line!None, Line!Classes, Line!Keyword, Line!Param, Line!InRange, Line!Only,
             Line!Undone, Line!Cmd, Line!Menu, Line!Takes, Line!Cmds, Line!AllTake,
             Line!AllOnly, Line!Global, Line!GlobalAll, Line!IfOnly, Line!Word,
             Line!Number, Line!SwitchportMode, Line!SwitchportAccess,
             Line!SwitchCommands, None, Classes, Keyword, Param, InRange, Only,
             Undone, Cmd, Menu, Takes, Cmds, AllTake, AllOnly, Global, GlobalAll,
             IfOnly, Word, Number, SwitchportMode, SwitchportAccess, SwitchCommands
<1>5. Line!StubCommands = StubCommands /\ Line!OtherStubs = OtherStubs
  BY ZenonT(90) DEF Line!None, Line!Classes, Line!Keyword, Line!Param, Line!InRange, Line!Only,
             Line!Undone, Line!Cmd, Line!Menu, Line!Takes, Line!Cmds, Line!AllTake,
             Line!AllOnly, Line!Global, Line!GlobalAll, Line!IfOnly, Line!Word,
             Line!Number, Line!StubCommands, Line!OtherStubs, None, Classes,
             Keyword, Param, InRange, Only, Undone, Cmd, Menu, Takes, Cmds, AllTake,
             AllOnly, Global, GlobalAll, IfOnly, Word, Number, StubCommands,
             OtherStubs
<1> QED
  BY <1>1, <1>2, <1>3, <1>4, <1>5, Zenon DEF Line!conf_tree, conf_tree

(* And those of the sub-modes are. *)
LEMMA SameSubTrees ==
    \A m : Line!config_tree_for_mode(m) = config_tree_for_mode(m)
<1>1. /\ Line!config_if_tree = config_if_tree
      /\ Line!config_router_tree = config_router_tree
      /\ Line!config_line_tree = config_line_tree
      /\ Line!config_nacl_tree = config_nacl_tree
      /\ Line!config_vlan_tree = config_vlan_tree
  BY ZenonT(60) DEF
             Line!None, Line!Classes, Line!Keyword, Line!Param, Line!Cmd, Line!Menu,
             Line!Takes, Line!Cmds, Line!AllTake,
             Line!Word, Line!Number, Line!Leave, Line!IpAddress,
             Line!Ipv6Address, Line!Ipv6Ospf, Line!SwitchportMode, Line!SwitchportAccess,
             Line!Kept, Line!KeptOr, Line!InterfaceModelled, Line!InterfaceKept,
             Line!config_if_tree, Line!config_router_tree, Line!config_line_tree,
             Line!config_nacl_tree, Line!config_vlan_tree,
             None, Classes, Keyword, Param, Cmd, Menu,
             Takes, Cmds, AllTake, Word, Number,
             Leave, IpAddress,
             Ipv6Address, Ipv6Ospf, SwitchportMode, SwitchportAccess,
             Kept, KeptOr, InterfaceModelled, InterfaceKept,
             config_if_tree, config_router_tree, config_line_tree,
             config_nacl_tree, config_vlan_tree
<1> QED
  BY <1>1, SameConfTree, Zenon DEF Line!config_tree_for_mode, config_tree_for_mode

(* A word meets the same nodes. *)
LEMMA SameMatches ==
    \A w, nodes, c : Line!find_matches(w, nodes, c) = find_matches(w, nodes, c)
<1>1. /\ \A nodes, c : Line!Visible(nodes, c) = Visible(nodes, c)
      /\ \A n, w : Line!MatchesWord(n, w) = MatchesWord(n, w)
      /\ \A is : Line!IsSingle(is) = IsSingle(is)
  BY Zenon DEF Line!StartsWith, Line!MatchesWord, Line!Visible, Line!IsSingle,
               StartsWith, MatchesWord, Visible, IsSingle
<1> TAKE w, nodes, c
<1> DEFINE all    == { i \in Visible(nodes, c) : MatchesWord(nodes[i], w) }
           kws    == { i \in all : nodes[i].kind = "keyword" }
           exact  == { i \in kws : nodes[i].name = w }
           lall   == { i \in Line!Visible(nodes, c) : Line!MatchesWord(nodes[i], w) }
           lkws   == { i \in lall : nodes[i].kind = "keyword" }
           lexact == { i \in lkws : nodes[i].name = w }
<1>2. lall = all
  BY <1>1
<1>3. find_matches(w, nodes, c) =
        IF kws = {} THEN all ELSE IF IsSingle(exact) THEN exact ELSE kws
  BY Zenon DEF find_matches
<1>4. Line!find_matches(w, nodes, c) =
        IF lkws = {} THEN lall ELSE IF Line!IsSingle(lexact) THEN lexact ELSE lkws
  BY Zenon DEF Line!find_matches
<1> HIDE DEF all, lall
<1> QED
  BY <1>1, <1>2, <1>3, <1>4, Zenon

(* The walk takes the same steps. *)
LEMMA SameStep ==
    \A s, w, c : Line!Step(s, w, c) = Step(s, w, c)
<1>1. /\ \A is : Line!IsSingle(is) = IsSingle(is)
      /\ \A s, n : Line!Down(s, n) = Down(s, n)
  BY Zenon DEF Line!IsSingle, IsSingle, Line!Down, Down
<1> TAKE s, w, c
<1> DEFINE m  == find_matches(w, s.node.children, c)
           lm == Line!find_matches(w, s.node.children, c)
<1>2. lm = m
  BY SameMatches
<1>3. Line!Step(s, w, c) = IF s.at # "path" THEN s
        ELSE IF Line!IsSingle(lm) THEN Line!Down(s, s.node.children[CHOOSE i \in lm : TRUE])
        ELSE [s EXCEPT !.at = IF lm = {} THEN "invalid" ELSE "ambiguous"]
  BY Zenon DEF Line!Step
<1>4. Step(s, w, c) = IF s.at # "path" THEN s
        ELSE IF IsSingle(m) THEN Down(s, s.node.children[CHOOSE i \in m : TRUE])
        ELSE [s EXCEPT !.at = IF m = {} THEN "invalid" ELSE "ambiguous"]
  BY Zenon DEF Step
<1> HIDE DEF m, lm
<1> QED
  BY <1>1, <1>2, <1>3, <1>4

(* It ends at the same node. *)
LEMMA SameDescend ==
    ASSUME NEW words, NEW tree, NEW c
    PROVE  Line!Descend(words, tree, c) = Descend(words, tree, c)
<1>1. \A s, w : Line!Step(s, w, c) = Step(s, w, c)
  BY SameStep
<1>2. Line!Root(tree) = Root(tree)
  BY Zenon DEF Line!Root, Root, Line!Menu, Menu, Line!Keyword, Keyword, Line!None, None,
               Line!Classes, Classes
<1> DEFINE f[m \in 0 .. Len(words)] ==
            IF m = 0 THEN Root(tree)
            ELSE IF f[m - 1].node.kind = "rest" THEN f[m - 1]
            ELSE Step(f[m - 1], words[m], c)
           lf[m \in 0 .. Len(words)] ==
            IF m = 0 THEN Line!Root(tree)
            ELSE IF lf[m - 1].node.kind = "rest" THEN lf[m - 1]
            ELSE Line!Step(lf[m - 1], words[m], c)
<1>3. lf = f
  BY <1>1, <1>2
<1>4. Descend(words, tree, c) = f[Len(words)]
  BY Zenon DEF Descend
<1>5. Line!Descend(words, tree, c) = lf[Len(words)]
  BY Zenon DEF Line!Descend
<1> HIDE DEF f, lf
<1> QED
  BY <1>3, <1>4, <1>5, Zenon

(* A line has the same parse. *)
LEMMA SameWalk ==
    ASSUME NEW words, NEW tree, NEW c
    PROVE  /\ Line!parse(words, tree, c) = parse(words, tree, c)
           /\ Line!parse_for_no(words, tree, c) = parse_for_no(words, tree, c)
<1>1. Line!Descend(words, tree, c) = Descend(words, tree, c)
  BY SameDescend
<1>2. /\ Line!None = None
      /\ \A kind, s, h : Line!Parsed(kind, s, h) = Parsed(kind, s, h)
  BY Zenon DEF Line!None, None, Line!Parsed, Parsed
<1>3. Line!parse(words, tree, c) = parse(words, tree, c)
  BY <1>1, <1>2, Zenon DEF Line!parse, parse
<1> QED
  BY <1>1, <1>2, <1>3, Zenon DEF Line!parse_for_no, parse_for_no

(* The modes and their classes are the same. *)
LEMMA SameModes ==
    /\ Line!SubModes = SubModes /\ Line!ConfigModes = ConfigModes
    /\ Line!ExecModes = ExecModes /\ Line!CommandModes = CommandModes
    /\ \A m : Line!class(m) = class(m)
    /\ \A m, ws, w : Line!Prefixed(m, ws, w) = Prefixed(m, ws, w)
    /\ \A m, ws : Line!Borrowed(m, ws) = Borrowed(m, ws)
BY Zenon DEF Line!SubModes, Line!ConfigModes, Line!ExecModes, Line!CommandModes, Line!class,
             Line!Prefixed, Line!Borrowed, SubModes, ConfigModes, ExecModes, CommandModes, class,
             Prefixed, Borrowed

(* A line runs the same handler. *)
LEMMA SameDispatch ==
    ASSUME NEW m, NEW ws
    PROVE  Line!Dispatch(m, ws) = Dispatch(m, ws)
<1>1. \A n : Line!Tree(n) = Tree(n)
  BY SameExecTree, SameSubTrees, SameModes, Zenon DEF Line!Tree, Tree
<1> QED
  BY <1>1, SameWalk, SameModes, Zenon DEF Line!Dispatch, Dispatch

-----------------------------------------------------------------------------
(* Which commands change the mode. *)

(* The line is a sequence of words. *)
SeqInv == \E S : line \in Seq(S)

(* Each key leaves the line a sequence. *)
LEMMA TypedIsASequence ==
    SeqInv /\ [Line!Next]_Line!vars => SeqInv'
<1> SUFFICES ASSUME SeqInv, [Line!Next]_Line!vars PROVE SeqInv'
  OBVIOUS
<1>0. PICK S : line \in Seq(S)
  BY DEF SeqInv
<1>1. ASSUME NEW w, line' = Append(line, w) PROVE SeqInv'
  <2>1. line \in Seq(S \cup {w})
    BY <1>0
  <2>2. line' \in Seq(S \cup {w})
    BY <1>1, <2>1
  <2> QED
    BY <2>2 DEF SeqInv
<1>2. ASSUME line' = <<>> PROVE SeqInv'
  <2>1. <<>> \in Seq({})
    OBVIOUS
  <2> QED
    BY <1>2, <2>1 DEF SeqInv
<1>3. ASSUME line' = line PROVE SeqInv'
  BY <1>3 DEF SeqInv
<1>4. ASSUME NEW n, NEW v, line' = [line EXCEPT ![n] = v] PROVE SeqInv'
  <2>1. line \in Seq(S \cup {v})
    BY <1>0
  <2>2. [line EXCEPT ![n] = v] \in Seq(S \cup {v})
    <3>1. Len(line) \in Nat /\ line \in [1 .. Len(line) -> S \cup {v}]
      BY <2>1
    <3>2. [line EXCEPT ![n] = v] \in [1 .. Len(line) -> S \cup {v}]
      BY <3>1
    <3> QED
      BY <3>1, <3>2, ElementsLemma
  <2> QED
    BY <1>4, <2>2 DEF SeqInv
<1>5. CASE UNCHANGED Line!vars
  BY <1>3, <1>5 DEF Line!vars
<1>6. CASE \E w \in Line!Typeable : Line!Type(w)
  BY <1>1, <1>6 DEF Line!Type
<1>7. CASE Line!Space \/ Line!Question
  BY <1>3, <1>7 DEF Line!Space, Line!Question
<1>8. CASE Line!Enter \/ Line!EnterLogin \/ Line!CtrlZ
  BY <1>2, <1>8, Zenon DEF Line!Enter, Line!EnterLogin, Line!CtrlZ
<1>9. CASE Line!Tab
  <2>1. \E c : line' \in {line, Line!Completed(line, space, c)}
    BY <1>9, Zenon DEF Line!Tab
  <2> QED
    BY <1>3, <1>4, <2>1 DEF Line!Completed
<1> QED
  BY <1>5, <1>6, <1>7, <1>8, <1>9, Zenon DEF Line!Next

(* Enter: the handler is one that the mode offers, and the mode changes    *)
(* only as that handler changes it.                                        *)
LEMMA Entered ==
    ASSUME SeqInv, Line!Enter
    PROVE  \E p : /\ reply' = p /\ p = Dispatch(mode, line)
                  /\ mode' \in IF p.kind = "execute"
                               THEN Line!ModesAfter(p.handler, mode, line) ELSE {mode}
                  /\ mode = "user" => p.handler \in UserHandlers
                  /\ mode \in ConfigModes /\ ~ Prefixed(mode, line, "do")
                        => p.handler \in ConfHandlers
<1> DEFINE p == Dispatch(mode, line)
<1>1. /\ reply' = p
      /\ mode' \in IF p.kind = "execute" THEN Line!ModesAfter(p.handler, mode, line) ELSE {mode}
  BY SameDispatch, Zenon DEF Line!Enter
<1>2. mode \in CommandModes
  BY SameModes, Zenon DEF Line!Enter
<1>3. PICK S : line \in Seq(S)
  BY DEF SeqInv
<1>4. ASSUME mode = "user" PROVE p.handler \in UserHandlers
  <2>1. /\ class(mode) = "user" /\ "user" \in Classes /\ Tree(mode) = exec_tree
        /\ ~ Prefixed(mode, line, "do")
    BY <1>4 DEF class, Classes, Tree, Prefixed, ConfigModes, SubModes
  <2>2. AllOffer(exec_tree, "user", UserHandlers)
    BY <2>1, ExecTreeOffers DEF HandlersOf
  <2>3. None \in UserHandlers
    BY DEF UserHandlers
  <2> QED
    BY <1>2, <1>3, <2>1, <2>2, <2>3, DispatchIsOffered
<1>5. ASSUME mode \in ConfigModes, ~ Prefixed(mode, line, "do") PROVE p.handler \in ConfHandlers
  <2>1. class(mode) \in Classes /\ Tree(mode) = config_tree_for_mode(mode)
    BY <1>5 DEF class, Classes, Tree, ConfigModes
  <2>2. AllOffer(Tree(mode), class(mode), ConfHandlers)
    BY <2>1, ConfigTreesOffer
  <2>3. None \in ConfHandlers
    BY DEF ConfHandlers
  <2> QED
    BY <1>2, <1>3, <1>5, <2>2, <2>3, DispatchIsOffered
<1> HIDE DEF p
<1> QED
  BY <1>1, <1>4, <1>5 DEF p

(* The handlers that change the mode. *)
Moving ==
    {"enable", "disable", "configure_terminal", "configure_alone", "reload_alone",
     "install_activate", "exit", "config_exit", "config_end", "interface", "router_ospf",
     "router_bgp", "router_eigrp", "ipv6_router_ospf", "line_vty", "line_console", "vlan",
     "ip_access_list"}

(* Every other handler leaves it. *)
LEMMA OtherHandlersStay ==
    ASSUME NEW m, NEW ws, NEW h, h \notin Moving
    PROVE  Line!HandlerModes(h, m, ws) = {m}
<1>1. h # "enable" /\ h # "disable" /\ h # "configure_terminal" /\ h # "configure_alone" /\
      h # "reload_alone" /\ h # "install_activate" /\ h # "exit" /\ h # "config_exit" /\
      h # "config_end" /\ h # "interface" /\ h # "router_ospf" /\ h # "router_bgp" /\
      h # "router_eigrp" /\ h # "ipv6_router_ospf" /\ h # "line_vty" /\ h # "line_console" /\
      h # "vlan" /\ h # "ip_access_list"
  BY DEF Moving
<1> QED
  BY <1>1, SMTT(40) DEF Line!HandlerModes

(* vlan enters a VLAN, or stays where it was. *)
LEMMA VlanModes ==
    \A m, ws : Line!VlanMode(m, ws) \in {"config-vlan", m}
BY DEF Line!VlanMode

(* The modes those handlers can lead to. *)
LEMMA MovingHandlers ==
    ASSUME NEW m, NEW ws
    PROVE  /\ \A h \in {"disable", "exit", "reload_alone", "install_activate"} :
                  Line!HandlerModes(h, m, ws) \subseteq {m, "user", "closed"}
           /\ \A h \in {"configure_terminal", "configure_alone", "interface", "router_ospf",
                         "router_bgp", "router_eigrp", "ipv6_router_ospf", "line_vty",
                         "line_console", "vlan", "ip_access_list"} :
                  Line!HandlerModes(h, m, ws) \subseteq Line!ConfigModes \cup {m}
<1>1. /\ {"config", "config-if", "config-router", "config-line", "config-vlan",
       "config-ext-nacl", "config-std-nacl"}
            \subseteq Line!ConfigModes
  BY DEF Line!ConfigModes, Line!SubModes
<1>0. Line!NamedListMode(ws) \in {"config-ext-nacl", "config-std-nacl", "config"}
  BY DEF Line!NamedListMode
<1>2. \A v, vs : Line!HandlerModes("disable", v, vs) \subseteq {"user"}
  BY SMTT(40) DEF Line!HandlerModes
<1>3. \A v, vs : Line!HandlerModes("exit", v, vs) \subseteq {"closed"}
  BY SMTT(40) DEF Line!HandlerModes
<1>4. \A v, vs : Line!HandlerModes("reload_alone", v, vs) \subseteq {v, "closed"}
  BY SMTT(40) DEF Line!HandlerModes
<1>5. \A v, vs : Line!HandlerModes("install_activate", v, vs) \subseteq {v, "closed"}
  BY SMTT(40) DEF Line!HandlerModes
<1>6. \A v, vs : Line!HandlerModes("configure_terminal", v, vs) \subseteq {"config"}
  BY SMTT(40) DEF Line!HandlerModes
<1>7. \A v, vs : Line!HandlerModes("configure_alone", v, vs) \subseteq {v, "config"}
  BY SMTT(40) DEF Line!HandlerModes
<1>8. \A v, vs : Line!HandlerModes("interface", v, vs) \subseteq {"config-if"}
  BY SMTT(40) DEF Line!HandlerModes
<1>9. \A v, vs : Line!HandlerModes("router_ospf", v, vs) \subseteq {"config-router"}
  BY SMTT(40) DEF Line!HandlerModes
<1>10. \A v, vs : Line!HandlerModes("router_bgp", v, vs) \subseteq {"config-router"}
  BY SMTT(40) DEF Line!HandlerModes
<1>11. \A v, vs : Line!HandlerModes("router_eigrp", v, vs) \subseteq {"config-router"}
  BY SMTT(40) DEF Line!HandlerModes
<1>12. \A v, vs : Line!HandlerModes("ipv6_router_ospf", v, vs) \subseteq {"config-router"}
  BY SMTT(40) DEF Line!HandlerModes
<1>13. \A v, vs : Line!HandlerModes("line_vty", v, vs) \subseteq {"config-line"}
  BY SMTT(40) DEF Line!HandlerModes
<1>14. \A v, vs : Line!HandlerModes("line_console", v, vs) \subseteq {"config-line"}
  BY SMTT(40) DEF Line!HandlerModes
<1>15. \A v, vs : Line!HandlerModes("vlan", v, vs) = {Line!VlanMode(v, vs)}
  BY SMTT(40) DEF Line!HandlerModes
<1>16. \A v, vs : Line!HandlerModes("ip_access_list", v, vs) = {Line!NamedListMode(vs)}
  BY SMTT(40) DEF Line!HandlerModes
<1> QED
  BY <1>0, <1>1, VlanModes, <1>2, <1>3, <1>4, <1>5, <1>6, <1>7, <1>8, <1>9, <1>10, <1>11, <1>12,
     <1>13, <1>14, <1>15, <1>16

(* For every line of words, however long and however cut short: out of     *)
(* user EXEC only "enable" leads up. No other command that a user's tree   *)
(* offers does, in any spelling.                                           *)
THEOREM OnlyEnable == Line!Spec => Line!OnlyEnableRaises
<1>1. Line!Init => SeqInv
  <2>1. <<>> \in Seq({})
    OBVIOUS
  <2> QED
    BY <2>1, Zenon DEF Line!Init, SeqInv
<1>2. SeqInv /\ [Line!Next]_Line!vars => SeqInv'
  BY TypedIsASequence
<1>3. SeqInv /\ [Line!Next]_Line!vars
        => [mode = "user" /\ mode' \notin {"user", "closed"} =>
              mode' = "panic" \/ Line!Ran({"enable"})]_Line!vars
  <2> SUFFICES ASSUME SeqInv, Line!Next, mode = "user", mode' \notin {"user", "closed"}
               PROVE  Line!Ran({"enable"})
    BY DEF Line!vars
  <2>1. /\ "user" \in Line!CommandModes /\ "user" \notin Line!ConfigModes
        /\ "user" \notin Line!LoginModes
    BY DEF Line!CommandModes, Line!ExecModes, Line!ConfigModes, Line!SubModes, Line!LoginModes
  <2>2. Line!Enter
    BY <2>1, Zenon DEF Line!Next, Line!Type, Line!Space, Line!Question, Line!Tab, Line!EnterLogin,
                       Line!CtrlZ
  <2>3. PICK p : /\ reply' = p
                 /\ mode' \in IF p.kind = "execute"
                              THEN Line!ModesAfter(p.handler, mode, line) ELSE {mode}
                 /\ p.handler \in UserHandlers
    BY <2>2, Entered
  <2>4. p.kind = "execute" /\ mode' \in Line!HandlerModes(p.handler, "user", line)
    BY <2>1, <2>3 DEF Line!ModesAfter, Line!Prefixed
  <2>5. p.handler = "enable"
    <3> DEFINE h == p.handler
    <3>1. h \in UserHandlers /\ mode' \in Line!HandlerModes(h, "user", line)
      BY <2>3, <2>4
    <3> HIDE DEF h
    <3>2. mode' \in Line!HandlerModes("enable", "user", line) \/ h # "enable"
      BY <3>1
    <3>3. h \notin {"disable", "exit", "reload_alone", "install_activate"}
      BY <3>1, MovingHandlers
    <3>4. h \in UserHandlers \ {"disable", "exit", "reload_alone", "install_activate", "enable"}
             => Line!HandlerModes(h, "user", line) = {"user"}
      BY OtherHandlersStay DEF UserHandlers, None, Moving
    <3>5. h = "enable"
      BY <3>1, <3>3, <3>4
    <3> QED
      BY <3>5 DEF h
  <2> QED
    BY <2>3, <2>4, <2>5 DEF Line!Ran
<1> QED
  BY <1>1, <1>2, <1>3, PTL DEF Line!Spec, Line!OnlyEnableRaises

(* For every line of words: a configuration mode is left for good by       *)
(* Ctrl-Z, by exit or end, or by a restart of the device, and never by an  *)
(* EXEC command run with "do".                                             *)
THEOREM LeavingOnPurpose == Line!Spec => Line!ConfigurationIsLeftOnPurpose
<1>1. Line!Init => SeqInv
  <2>1. <<>> \in Seq({})
    OBVIOUS
  <2> QED
    BY <2>1, Zenon DEF Line!Init, SeqInv
<1>2. SeqInv /\ [Line!Next]_Line!vars => SeqInv'
  BY TypedIsASequence
<1>3. SeqInv /\ [Line!Next]_Line!vars
        => [mode' \notin Line!ConfigModes /\ mode \in Line!ConfigModes =>
              Line!CtrlZ \/ Line!Ran({"config_exit", "config_end", "reload_alone",
                                      "install_activate"})]_Line!vars
  <2> SUFFICES ASSUME SeqInv, Line!Next, mode \in Line!ConfigModes, mode' \notin Line!ConfigModes,
                      ~ Line!CtrlZ
               PROVE  Line!Ran({"config_exit", "config_end", "reload_alone", "install_activate"})
    BY DEF Line!vars
  <2>0. Line!ConfigModes =
          {"config", "config-if", "config-router", "config-line", "config-ext-nacl",
           "config-std-nacl", "config-vlan"}
    BY DEF Line!ConfigModes, Line!SubModes
  <2>1. mode \in Line!CommandModes /\ mode \notin Line!LoginModes
    BY <2>0 DEF Line!CommandModes, Line!LoginModes
  <2>2. Line!Enter
    BY <2>1, Zenon DEF Line!Next, Line!Type, Line!Space, Line!Question, Line!Tab, Line!EnterLogin
  <2>3. PICK p : /\ reply' = p
                 /\ mode' \in IF p.kind = "execute"
                              THEN Line!ModesAfter(p.handler, mode, line) ELSE {mode}
                 /\ ~ Line!Prefixed(mode, line, "do") => p.handler \in ConfHandlers
    BY <2>2, Entered, SameModes
  <2> DEFINE h == p.handler
  <2>4. p.kind = "execute" /\ mode' \in Line!ModesAfter(h, mode, line)
    BY <2>3
  <2>5. CASE ~ Line!Prefixed(mode, line, "do")
    <3>1. h \in ConfHandlers /\ mode' \in Line!HandlerModes(h, mode, line)
      BY <2>3, <2>4, <2>5 DEF Line!ModesAfter
    <3> HIDE DEF h
    <3>2. h \notin {"interface", "router_ospf", "router_bgp", "router_eigrp",
                    "ipv6_router_ospf", "line_vty", "line_console", "vlan", "ip_access_list"}
      BY <3>1, MovingHandlers
    <3>4. h \in ConfHandlers
             \ {"interface", "router_ospf", "router_bgp", "router_eigrp", "ipv6_router_ospf",
                "line_vty", "line_console", "vlan", "ip_access_list", "config_exit",
                "config_end"}
             => h \notin Moving
      BY DEF ConfHandlers, None, Moving
    <3>3. h \in {"config_exit", "config_end"}
      BY <3>1, <3>2, <3>4, OtherHandlersStay
    <3> QED
      BY <2>3, <2>4, <3>3 DEF Line!Ran, h
  <2>6. CASE Line!Prefixed(mode, line, "do")
    <3>1. h \in Line!Asking /\ mode' \in Line!HandlerModes(h, mode, line)
      BY <2>4, <2>6 DEF Line!ModesAfter
    <3> HIDE DEF h
    <3>2. h \in {"reload_alone", "install_activate"}
      BY <3>1, MovingHandlers DEF Line!Asking
    <3> QED
      BY <2>3, <2>4, <3>2 DEF Line!Ran, h
  <2> QED
    BY <2>5, <2>6
<1> QED
  BY <1>1, <1>2, <1>3, PTL DEF Line!Spec, Line!ConfigurationIsLeftOnPurpose
-----------------------------------------------------------------------------
(* What the views make of one device. They print names shortened, and a    *)
(* reader finds an interface again by the name that is printed: names are  *)
(* plain if that works, and if the ports are the interfaces that have      *)
(* "Ethernet" in their name, which is how vlan_access_ports() finds them.  *)
PlainNames ==
    /\ IsFiniteSet(Interfaces)
    /\ \A n, m \in Interfaces :
          \/ short_interface_name(n) = short_interface_name(m)
          \/ abbreviate_interface_name(n) = abbreviate_interface_name(m)
          => n = m
    /\ \A n \in Interfaces : IsPort(n) => HasInside(n, "Ethernet")

(* The status, the VLAN table, the trunk table and the switchport view put *)
(* a port in the same place.                                               *)
LEMMA OnePlace ==
    ASSUME PlainNames
    PROVE  PortsHaveOnePlace
<1> SUFFICES ASSUME NEW s \in generate_show_interfaces_status
             PROVE  /\ { r.id : r \in { v \in generate_show_vlan_brief : s.port \in v.ports } }
                         = ToSet(s.vlan) \cap DOMAIN state.vlans
                    /\ (\E t \in generate_show_interfaces_trunk : t.port = s.port)
                         <=> (s.vlan = <<>> /\ s.status # "disabled")
                    /\ \E w \in generate_show_interfaces_switchport :
                          /\ w.port = s.port /\ (w.admin = "trunk" <=> s.vlan = <<>>)
                          /\ s.vlan # <<>> => w.vlan = s.vlan[1]
  BY Zenon DEF PortsHaveOnePlace
<1> DEFINE P == { m \in Interfaces : IsPort(m) }
<1>1. PICK n \in P :
          /\ s.port = short_interface_name(n)
          /\ s.vlan = IF Trunk(n) THEN <<>> ELSE <<AccessVlan(Of(n))>>
          /\ s.status = IF ~ Of(n).admin_up THEN "disabled"
                        ELSE IF Of(n).link_up THEN "connected" ELSE "notconnect"
  BY DEF generate_show_interfaces_status
<1>2. n \in Interfaces /\ IsPort(n) /\ HasInside(n, "Ethernet")
  BY <1>1 DEF PlainNames
<1>3. \A m \in Interfaces : short_interface_name(m) = s.port <=> m = n
  BY <1>1, <1>2 DEF PlainNames
<1>4. ToSet(s.vlan) = IF Trunk(n) THEN {} ELSE {AccessVlan(Of(n))}
  BY <1>1 DEF ToSet
<1>5. \A id : s.port \in vlan_access_ports(id) <=> (~ Trunk(n) /\ AccessVlan(Of(n)) = id)
  BY <1>2, <1>3 DEF vlan_access_ports
<1>6. { r.id : r \in { v \in generate_show_vlan_brief : s.port \in v.ports } }
         = ToSet(s.vlan) \cap DOMAIN state.vlans
  <2>1. \A id : VlanRow(id).id = id /\ VlanRow(id).ports = vlan_access_ports(id)
    BY DEF VlanRow
  <2>2. generate_show_vlan_brief = { VlanRow(id) : id \in DOMAIN state.vlans }
    BY DEF generate_show_vlan_brief
  <2>3. ASSUME NEW id
        PROVE  id \in { r.id : r \in { v \in generate_show_vlan_brief : s.port \in v.ports } }
                 <=> id \in DOMAIN state.vlans /\ ~ Trunk(n) /\ AccessVlan(Of(n)) = id
    BY <1>5, <2>1, <2>2
  <2> QED
    BY <1>4, <2>3
<1>7. (\E t \in generate_show_interfaces_trunk : t.port = s.port)
         <=> (s.vlan = <<>> /\ s.status # "disabled")
  <2>1. (\E t \in generate_show_interfaces_trunk : t.port = s.port)
          <=> \E m \in Interfaces : /\ Trunk(m) /\ Of(m).admin_up
                                    /\ short_interface_name(m) = s.port
    <3> DEFINE T(m) == [port |-> short_interface_name(m), native |-> AccessVlan(Of(m)),
                        status |-> IF Of(m).link_up THEN "trunking" ELSE "not-trunking",
                        active |-> ActiveVlans,
                        forwarding |-> IF Of(m).link_up THEN ActiveVlans ELSE {}]
    <3>1. \A m : T(m).port = short_interface_name(m)
      OBVIOUS
    <3>2. generate_show_interfaces_trunk
            = { T(m) : m \in { k \in Interfaces : Trunk(k) /\ Of(k).admin_up } }
      BY Zenon DEF generate_show_interfaces_trunk
    <3> HIDE DEF T
    <3> QED
      BY <3>1, <3>2
  <2> QED
    BY <1>1, <1>2, <1>3, <2>1
<1>8. \E w \in generate_show_interfaces_switchport :
         /\ w.port = s.port /\ (w.admin = "trunk" <=> s.vlan = <<>>)
         /\ s.vlan # <<>> => w.vlan = s.vlan[1]
  <2>1. SwitchportRow(n) \in generate_show_interfaces_switchport
    BY <1>2 DEF generate_show_interfaces_switchport
  <2>2. /\ SwitchportRow(n).port = s.port
        /\ SwitchportRow(n).admin = IF Trunk(n) THEN "trunk" ELSE "dynamic auto"
        /\ SwitchportRow(n).vlan = AccessVlan(Of(n))
    BY <1>1 DEF SwitchportRow
  <2>3. /\ SwitchportRow(n).admin = "trunk" <=> s.vlan = <<>>
        /\ s.vlan # <<>> => SwitchportRow(n).vlan = s.vlan[1]
    <3>1. CASE Trunk(n)
      BY <1>1, <2>2, <3>1
    <3>2. CASE ~ Trunk(n)
      <4>1. s.vlan = <<AccessVlan(Of(n))>> /\ SwitchportRow(n).admin # "trunk"
        BY <1>1, <2>2, <3>2
      <4>2. s.vlan # <<>> /\ s.vlan[1] = AccessVlan(Of(n))
        BY <4>1
      <4> QED
        BY <2>2, <4>1, <4>2
    <3> QED
      BY <3>1, <3>2
  <2> QED
    BY <2>1, <2>2, <2>3
<1> QED
  BY <1>6, <1>7, <1>8

(* VLAN table, spanning tree and trunks have the same active VLANs, and a  *)
(* forwarding port is listed under its own.                                *)
LEMMA SameVlans ==
    ASSUME PlainNames
    PROVE  VlanViewsAgree
<1> DEFINE active == { r.id : r \in { v \in generate_show_vlan_brief : v.status = "active" } }
<1>1. \A id : /\ VlanRow(id).id = id /\ VlanRow(id).ports = vlan_access_ports(id)
              /\ VlanRow(id).status = IF Supported(id) THEN "active" ELSE "act/unsup"
  BY DEF VlanRow
<1>2. generate_show_vlan_brief = { VlanRow(id) : id \in DOMAIN state.vlans }
  BY DEF generate_show_vlan_brief
<1>3. active = { id \in DOMAIN state.vlans : Supported(id) }
  BY <1>1, <1>2
<1>4. { b.vlan : b \in generate_show_spanning_tree } = active
  <2> DEFINE B(id) == [vlan |-> id, priority |-> 32768 + id,
                       ports |-> { [port |-> short_interface_name(n), cost |-> IF IsTen(n) THEN 2 ELSE 4]
                         : n \in { m \in Interfaces :
                                     /\ ~ IsVlan(m) /\ ~ IsLoopback(m) /\ IsUp(m)
                                     /\ ~ Trunk(m) /\ AccessVlan(Of(m)) = id } }]
  <2>1. \A id : B(id).vlan = id
    OBVIOUS
  <2>2. generate_show_spanning_tree = { B(id) : id \in { v \in DOMAIN state.vlans : Supported(v) } }
    BY DEF generate_show_spanning_tree
  <2> HIDE DEF B
  <2> QED
    BY <1>3, <2>1, <2>2
<1>5. generate_show_spanning_tree_summary = active
  BY <1>3 DEF generate_show_spanning_tree_summary
<1>6. \A t \in generate_show_interfaces_trunk : t.active = active
  BY <1>3 DEF generate_show_interfaces_trunk, ActiveVlans
<1>7. ASSUME NEW b \in generate_show_spanning_tree, NEW p \in b.ports,
             NEW s \in generate_show_interfaces_status, s.port = p.port
      PROVE  /\ s.status = "connected" /\ s.vlan = <<b.vlan>>
             /\ \E r \in generate_show_vlan_brief : r.id = b.vlan /\ p.port \in r.ports
  <2>1. PICK n \in Interfaces :
            /\ IsPort(n) /\ s.port = short_interface_name(n)
            /\ s.vlan = IF Trunk(n) THEN <<>> ELSE <<AccessVlan(Of(n))>>
            /\ s.status = IF ~ Of(n).admin_up THEN "disabled"
                          ELSE IF Of(n).link_up THEN "connected" ELSE "notconnect"
    BY DEF generate_show_interfaces_status
  <2>2. /\ b.vlan \in DOMAIN state.vlans
        /\ \E m \in Interfaces : /\ IsUp(m) /\ ~ Trunk(m) /\ AccessVlan(Of(m)) = b.vlan
                                 /\ p.port = short_interface_name(m)
    BY DEF generate_show_spanning_tree
  <2>3. /\ IsUp(n) /\ ~ Trunk(n) /\ AccessVlan(Of(n)) = b.vlan
        /\ p.port = short_interface_name(n) /\ HasInside(n, "Ethernet")
    BY <1>7, <2>1, <2>2 DEF PlainNames
  <2>4. p.port \in VlanRow(b.vlan).ports
    BY <1>1, <2>1, <2>3 DEF vlan_access_ports
  <2>5. VlanRow(b.vlan) \in generate_show_vlan_brief
    BY <1>2, <2>2
  <2>6. s.status = "connected" /\ s.vlan = <<b.vlan>>
    BY <2>1, <2>3 DEF IsUp
  <2> QED
    BY <1>1, <2>4, <2>5, <2>6
<1> QED
  BY <1>4, <1>5, <1>6, <1>7 DEF VlanViewsAgree

(* What the two address views and the routes say of an interface. *)
LEMMA ConnectedWhileUp ==
    ASSUME PlainNames, NEW i \in generate_show_ipv6_interface_brief, NEW a \in i.addresses
    PROVE  (i.protocol = "up") <=>
            \E r \in compute_ipv6_routes :
                r.code \in {"C", "LC"} /\ r.prefix = a /\ abbreviate_interface_name(r.by) = i.name
<1> DEFINE B(n) ==
      [name |-> abbreviate_interface_name(n), status |-> Status(n), protocol |-> Protocol(n),
       local |-> ipv6_link_local(n),
       addresses |-> IF ipv6_link_local(n) = <<>> THEN {}
                     ELSE { x.address : x \in ToSet(Globals(n)) }]
<1>1. PICK n \in Interfaces : i = B(n)
  BY Zenon DEF generate_show_ipv6_interface_brief
<1>2. /\ i.name = abbreviate_interface_name(n) /\ i.protocol = Protocol(n)
      /\ a \in { x.address : x \in ToSet(Globals(n)) }
  BY <1>1
<1>3. PICK x \in ToSet(Globals(n)) : x.address = a
  BY <1>2
<1>4. (i.protocol = "up") <=> IsUp(n)
  BY <1>2 DEF Protocol
<1>5. \A m, y : \A r \in Ipv6Connected(m, y) :
         r.by = m /\ r.prefix = y.address /\ r.code \in {"C", "LC", "L"}
  BY DEF Ipv6Connected
<1>6. \A m, y : \E r \in Ipv6Connected(m, y) :
         r.by = m /\ r.prefix = y.address /\ r.code \in {"C", "LC"}
  <2> TAKE m, y
  <2>1. CASE IsLoopback(m) /\ y.address \in HostPrefixes
    <3> DEFINE r == [code |-> "LC", prefix |-> y.address, by |-> m]
    <3>1. r \in Ipv6Connected(m, y)
      BY <2>1 DEF Ipv6Connected
    <3> QED
      BY <3>1
  <2>2. CASE ~ (IsLoopback(m) /\ y.address \in HostPrefixes)
    <3> DEFINE r == [code |-> "C", prefix |-> y.address, by |-> m]
    <3>1. r \in Ipv6Connected(m, y)
      BY <2>2 DEF Ipv6Connected
    <3> QED
      BY <3>1
  <2> QED
    BY <2>1, <2>2
<1>7. \A r : (\E m \in Interfaces :
                  IsUp(m) /\ \E y \in ToSet(Globals(m)) : r \in Ipv6Connected(m, y))
              => r \in compute_ipv6_routes
  <2> DEFINE R(m) == UNION { Ipv6Connected(m, y) : y \in ToSet(Globals(m)) }
  <2>1. \A m : \A r : r \in R(m) <=> \E y \in ToSet(Globals(m)) : r \in Ipv6Connected(m, y)
    OBVIOUS
  <2>2. (UNION { R(k) : k \in { m \in Interfaces : IsUp(m) } }) \subseteq compute_ipv6_routes
    BY DEF compute_ipv6_routes
  <2> HIDE DEF R
  <2> QED
    BY <2>1, <2>2
<1>8. \A r \in compute_ipv6_routes : r.code \in {"C", "LC"} =>
         \E m \in Interfaces : IsUp(m) /\ \E y \in ToSet(Globals(m)) : r \in Ipv6Connected(m, y)
  <2> DEFINE R(m) == UNION { Ipv6Connected(m, y) : y \in ToSet(Globals(m)) }
             S == { [code |-> "S", prefix |-> r[1], by |-> r[2]] : r \in ToSet(state.ipv6_static_routes) }
             L == { [code |-> "L", prefix |-> "ff00::/8", by |-> "Null0"] }
  <2>1. \A m : \A r : r \in R(m) <=> \E y \in ToSet(Globals(m)) : r \in Ipv6Connected(m, y)
    OBVIOUS
  <2>2. compute_ipv6_routes = (UNION { R(k) : k \in { m \in Interfaces : IsUp(m) } }) \cup S \cup L
    BY Zenon DEF compute_ipv6_routes
  <2>3. \A r \in S \cup L : r.code \notin {"C", "LC"}
    OBVIOUS
  <2> HIDE DEF R, S, L
  <2> TAKE r \in compute_ipv6_routes
  <2> HAVE r.code \in {"C", "LC"}
  <2>4. r \in UNION { R(k) : k \in { m \in Interfaces : IsUp(m) } }
    <3>1. r \notin S \cup L
      BY <2>3
    <3> QED
      BY <2>2, <3>1
  <2>5. PICK m \in Interfaces : IsUp(m) /\ r \in R(m)
    BY <2>4
  <2> QED
    BY <2>1, <2>5
<1>9. ASSUME IsUp(n)
      PROVE  \E r \in compute_ipv6_routes :
                r.code \in {"C", "LC"} /\ r.prefix = a /\ abbreviate_interface_name(r.by) = i.name
  <2>1. PICK r \in Ipv6Connected(n, x) :
            r.by = n /\ r.prefix = x.address /\ r.code \in {"C", "LC"}
    BY <1>6
  <2>2. r \in compute_ipv6_routes
    BY <1>3, <1>9, <1>7, <2>1
  <2> QED
    BY <1>2, <1>3, <2>1, <2>2
<1>10. ASSUME NEW r \in compute_ipv6_routes, r.code \in {"C", "LC"},
             abbreviate_interface_name(r.by) = i.name
      PROVE  IsUp(n)
  <2>1. PICK m \in Interfaces :
            IsUp(m) /\ \E y \in ToSet(Globals(m)) : r \in Ipv6Connected(m, y)
    BY <1>10, <1>8
  <2>2. r.by = m
    BY <1>5, <2>1
  <2> QED
    BY <1>2, <1>10, <2>1, <2>2 DEF PlainNames
<1> QED
  BY <1>4, <1>9, <1>10

(* IPv4 routes are those of interfaces that are not shut down. *)
LEMMA ConnectedWhileOpen ==
    ASSUME NEW r \in handle_show_ip_route_filtered("Connected").routes
    PROVE  \E p \in generate_show_protocols :
              p.name = r.by /\ p.status # "administratively down" /\ p.ip # <<>>
<1>1. r \in ConnectedRoutes
  BY DEF handle_show_ip_route_filtered
<1>2. PICK n \in Connected : r.by = n
  BY <1>1 DEF ConnectedRoutes
<1>3. n \in Interfaces /\ Of(n).admin_up /\ Of(n).ip_address # <<>>
  BY <1>2 DEF Connected
<1> DEFINE p == [name |-> n, status |-> Status(n), protocol |-> Protocol(n),
                 ip |-> Of(n).ip_address]
<1>4. p \in generate_show_protocols
  BY <1>3 DEF generate_show_protocols
<1>5. Status(n) \in {"up", "down"}
  BY <1>3 DEF Status
<1>6. p.name = r.by /\ p.status # "administratively down" /\ p.ip # <<>>
  BY <1>2, <1>3, <1>5
<1> QED
  BY <1>4, <1>6

(* OSPF counts the interfaces of an area that its brief view lists, and is *)
(* active in it while one of them is up.                                   *)
LEMMA AreasAreTheirInterfaces ==
    ASSUME PlainNames, NEW o \in generate_show_ipv6_ospf, NEW a \in o.areas
    PROVE  LET rows == { b \in generate_show_ipv6_ospf_interface_brief :
                            b.pid = o.pid /\ b.area = a.area }
           IN  /\ Cardinality(rows) = a.interfaces
               /\ (\E b \in rows : b.state = "DR") => a.active
               /\ a.active => \E b \in rows : b.state # "DOWN"
<1> DEFINE rows == { b \in generate_show_ipv6_ospf_interface_brief :
                            b.pid = o.pid /\ b.area = a.area }
           B(n) == [port |-> short_interface_name(n), pid |-> Of(n).ospf.pid, area |-> Of(n).ospf.area,
                    cost |-> IF Bandwidth(n) >= 100 THEN 1 ELSE 100 \div Bandwidth(n),
                    state |-> IF IsLoopback(n) THEN "LOOP" ELSE IF IsUp(n) THEN "DR" ELSE "DOWN"]
           N == InArea(o.pid, a.area)
<1>1. generate_show_ipv6_ospf_interface_brief = { B(n) : n \in { m \in Interfaces : Of(m).ospf # <<>> } }
  BY Zenon DEF generate_show_ipv6_ospf_interface_brief
<1>2. \A n : /\ B(n).port = short_interface_name(n)
             /\ B(n).pid = Of(n).ospf.pid /\ B(n).area = Of(n).ospf.area
             /\ B(n).state = IF IsLoopback(n) THEN "LOOP" ELSE IF IsUp(n) THEN "DR" ELSE "DOWN"
  OBVIOUS
<1>3. PICK pid \in DOMAIN state.ospfv3 :
          o.pid = pid /\ \E area \in state.ospfv3[pid] : a = AreaRow(pid, area)
  BY DEF generate_show_ipv6_ospf
<1>4. PICK area \in state.ospfv3[pid] : a = AreaRow(pid, area)
  BY <1>3
<1>5. /\ a.area = area /\ a.interfaces = Cardinality(N)
      /\ a.active <=> \E n \in N : IsUp(n)
  BY <1>3, <1>4 DEF AreaRow
<1> HIDE DEF B
<1>6. rows = { B(n) : n \in N }
  BY <1>1, <1>2 DEF InArea
<1>7. Cardinality(rows) = Cardinality(N)
  <2>1. IsFiniteSet(N)
    <3>1. N \in SUBSET Interfaces
      BY DEF InArea
    <3> QED
      BY <3>1, FS_Subset, Zenon DEF PlainNames
  <2> DEFINE f == [n \in N |-> B(n)]
  <2>2. f \in Bijection(N, rows)
    <3>1. f \in [N -> rows]
      BY <1>6
    <3>2. \A n, m \in N : f[n] = f[m] => n = m
      <4>1. N \subseteq Interfaces
        BY DEF InArea
      <4> QED
        BY <1>2, <4>1 DEF PlainNames
    <3>3. \A b \in rows : \E n \in N : f[n] = b
      BY <1>6
    <3> HIDE DEF f, rows, N
    <3> QED
      BY <3>1, <3>2, <3>3 DEF Bijection, Injection, Surjection, IsInjective
  <2>3. ExistsBijection(N, rows)
    BY <2>2, Zenon DEF ExistsBijection
  <2> HIDE DEF N, rows
  <2> QED
    BY <2>1, <2>3, FS_Bijection, Zenon
<1>8. (\E b \in rows : b.state = "DR") => a.active
  BY <1>2, <1>5, <1>6
<1>9. a.active => \E b \in rows : b.state # "DOWN"
  BY <1>2, <1>5, <1>6
<1> QED
  BY <1>5, <1>7, <1>8, <1>9

(* For every device, in every state that configuring it leads to: a port   *)
(* that `show interfaces status' lists is a trunk in all four views, or in *)
(* the same one VLAN in all of them, as long as its name is its own when   *)
(* shortened (generate_show_vlan_brief(), vlan_access_ports(),             *)
(* generate_show_interfaces_status(), _trunk() and _switchport()).         *)
THEOREM PortsInOnePlace == Spec => [](PlainNames => PortsHaveOnePlace)
<1>1. PlainNames => PortsHaveOnePlace
  BY OnePlace
<1> QED
  BY <1>1, PTL

(* The same of VLANs: the ones that are active are those spanning tree     *)
(* runs for and trunks carry, and a port forwards in the VLAN it is listed *)
(* under and nowhere else (generate_show_spanning_tree() and its summary). *)
THEOREM VlansAgree == Spec => [](PlainNames => VlanViewsAgree)
<1>1. PlainNames => VlanViewsAgree
  BY SameVlans
<1> QED
  BY <1>1, PTL

(* The same of routes: connected while the brief views have the interface  *)
(* up (compute_ipv6_routes()) or at least not shut down                    *)
(* (handle_show_ip_route_filtered()), and an OSPF area is active while one *)
(* of the interfaces listed in it is up.                                   *)
THEOREM RoutesAgree == Spec => [](PlainNames => RoutesFollowLinks)
<1>1. PlainNames => RoutesFollowLinks
  BY ConnectedWhileUp, ConnectedWhileOpen, AreasAreTheirInterfaces, Zenon DEF RoutesFollowLinks
<1> QED
  BY <1>1, PTL
=============================================================================
