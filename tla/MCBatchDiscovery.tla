-------------------------- MODULE MCBatchDiscovery --------------------------
(* Small instances of BatchDiscovery. *)
EXTENDS BatchDiscovery

\* Three cards of two groups that alternate, and a batch that fits the capacity
\* only while there is one target.
MCItems == (1 :> <<"g", "h", "g">>) @@ (2 :> <<"g", "h", "k", "g">>)

TwoSellers == <<"s1", "s2">>
MCOwnerOf  == ("s1" :> "o1") @@ ("s2" :> "o2")

OnePartnerOneAdmin == ("o1" :> "partner") @@ ("o2" :> "admin")
=============================================================================
