------------------------------ MODULE MCRioScan ------------------------------
(* Fabrics of two switches for model checking RioScan.                     *)
EXTENDS RioScan

MCHdid == [h \in Host |-> IF h = "a" THEN 0 ELSE 1]

Wired(L) ==
    [x \in Plug |-> IF \E l \in L : x \in l
                    THEN CHOOSE y \in Plug : {x, y} \in L /\ y # x ELSE None]

(* One or two links between the switches.                                  *)
Trunks ==
    {L \in SUBSET {{<<"s1", p>>, <<"s2", q>>} : p, q \in Port} :
        Cardinality(L) \in {1, 2} /\ \A k, l \in L : k # l => k \cap l = {}}

(* The end points of E at different ports, host a at the first switch.     *)
Sites(E) ==
    {f \in [E -> Switch \X Port] :
        f["a"][1] = "s1" /\ \A e, g \in E : e # g => f[e] # f[g]}

FabricsOf(E) ==
    {Wired(x[1] \cup {{<<e, 0>>, x[2][e]} : e \in E}) :
        x \in {y \in Trunks \X Sites(E) : \A e \in E : y[2][e] \notin UNION y[1]}}

(* One host, with a leaf, or with a free plug for a second link between    *)
(* the switches, or with a switch that leads nowhere.                      *)
OneHost == FabricsOf({"a", "e", "p"}) \cup FabricsOf({"a", "p"})

(* Two hosts; host a and the link between the switches take the first port *)
(* of their switch.                                                        *)
TwoHosts ==
    {w \in FabricsOf({"a", "b", "e"}) :
        w[<<"s1", 0>>][1] = "a" /\ w[<<"s2", 0>>][1] = "s1"}

MCFabrics == OneHost \cup TwoHosts

ASSUME OneNetwork
=============================================================================
