---------------------------- MODULE MCKubeconfig ----------------------------
(***************************************************************************)
(* Instance of Kubeconfig: lists of up to two addresses, in both orders,   *)
(* with nameless and hostless ones and one that is no URL; CA resources of *)
(* both types, with the other type's key, with no valid certificate, and   *)
(* ones that are missing or no JSON.                                       *)
(***************************************************************************)
EXTENDS Kubeconfig

MCShootRefs == {[namespace |-> "garden-p", name |-> n] : n \in {"a", "b"}}

Address(name, host) == [name |-> name, host |-> host]

MCAddressLists ==
    LET external == Address("external", "e.org")
        internal == Address("internal", "i.org")
    IN  {<< >>, <<external>>, <<external, internal>>, <<internal, external>>,
         <<Address("external", "i.org")>>, <<Address("", "e.org")>>,
         <<external, Address("internal", "")>>, <<Address("external", Damaged)>>}

Ca(type, certificate, caCrt) ==
    [type |-> type,
     data |-> [k \in {"certificate", "ca.crt"} |->
                  IF k = "certificate" THEN certificate ELSE caCrt]]

MCCaResources ==
    {None, Damaged,
     Ca("certificate", "ca1", None), Ca("certificate", "ca2", "ca1"),
     Ca("certificate", None, "ca1"), Ca("certificate", "bad", None),
     Ca("secret", None, "ca1"), Ca("secret", "ca1", "ca2"), Ca("secret", "ca1", None)}
=============================================================================
