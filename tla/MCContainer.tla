---------------------------- MODULE MCContainer -----------------------------
(***************************************************************************)
(* ContainerActor with the port numbers at the edges of 16 bits and image  *)
(* references with a tag, a registry and the port of a registry.           *)
(***************************************************************************)
EXTENDS ContainerActor

MCPorts == {-1, 0, 80, 65535, 65536, 65616}

MCImageRefs == {<<"n">>, <<"n", ":", "n">>, <<"n", ":">>, <<"n", ":", "n", "/", "n">>,
                <<"n", ":", "n", "/", "n", ":", "n">>}
=============================================================================
