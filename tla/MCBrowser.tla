-------------------------------- MODULE MCBrowser ------------------------------
(* Two servers, each reported once, and two nodes that either may discover. *)
EXTENDS Browser

CONSTANTS v1, v2, s1, s2

HostOfDef == (v1 :> s1) @@ (v2 :> s2)

\* The two servers change places together with their services.
ServerSymmetry ==
    {(v1 :> v1) @@ (v2 :> v2) @@ (s1 :> s1) @@ (s2 :> s2),
     (v1 :> v2) @@ (v2 :> v1) @@ (s1 :> s2) @@ (s2 :> s1)}

EP(port, micro, assoc, mime) ==
    [Port |-> port, MicroVersion |-> micro, MinorVersion |-> 200, MajorVersion |-> 1,
     AssociateEPIndex |-> assoc, MimeTypeStr |-> mime]

Node(uid, config, eps) ==
    [NodeUID |-> uid, MicroVersion |-> 300, MinorVersion |-> 2, MajorVersion |-> 3,
     MgmtPort |-> 0, ConfigPort |-> config, HostAddr |-> <<>>, EndPointArray |-> eps]

NodeDataDef ==
    <<Node(<<1, 7>>, 0, <<EP(513, 1, 0, <<5>>)>>),
      Node(<<2, 7>>, 700, <<EP(258, 700, 1, <<6, 5>>), EP(3, 0, 0, <<>>)>>)>>

NodeAddrDef == <<Address(11, 1025), Address(12, 80)>>
================================================================================
