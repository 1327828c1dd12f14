------------------------- MODULE MCProductDelivery -------------------------
(* The product studio, the deliveries of a finished product and the events of *)
(* a thread for TLC: parts that share no state, of which each behaviour runs  *)
(* one.                                                                       *)
EXTENDS ProductDelivery, ProductStudio, SuperAgent, TLC

VARIABLE part

vars == <<deliveryVars, studioVars, ingressVars, part>>

Init ==
    /\ DeliveryInit /\ StudioInit /\ IngressInit
    /\ \/ part = "ingress"
       \/ part \in {"delivery", "studio"} /\ mode = "off"
          /\ about = [e \in Event |-> [from |-> "refused", names |-> FALSE]]

Next ==
    /\ UNCHANGED part
    /\ \/ part = "delivery" /\ DeliveryNext /\ UNCHANGED <<studioVars, ingressVars>>
       \/ part = "studio" /\ StudioNext /\ UNCHANGED <<deliveryVars, ingressVars>>
       \/ part = "ingress" /\ IngressNext /\ UNCHANGED <<deliveryVars, studioVars>>

Spec == Init /\ [][Next]_vars

\* No property of the run is a liveness property, and no definition chooses a
\* request of a thread.
HandlerSymmetry == Permutations(Handler)
=============================================================================
