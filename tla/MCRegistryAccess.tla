------------------------- MODULE MCRegistryAccess -------------------------
(***************************************************************************)
(* The registry and its access control on a small instance: a built-in     *)
(* agent whose grants two releases of the seed bring, an agent that three  *)
(* requests register with different contents, one of them in a discovery   *)
(* of two packages, and a principal with a key that may and one that may   *)
(* not register.                                                           *)
(***************************************************************************)
EXTENDS RegistryAccess

CONSTANTS lookup1, lookup2, ops, audits, onboarding, opsA, opsB, auditsA, builtIn,
          q1, q2, q3, alice, writer, reader

MCVersionOf == (opsA :> ops) @@ (opsB :> ops) @@ (auditsA :> audits) @@ (builtIn :> onboarding)
MCDeclared  == (opsA :> {lookup1}) @@ (opsB :> {lookup1, lookup2})
               @@ (auditsA :> {lookup2}) @@ (builtIn :> {})
MCBatches   == (q1 :> <<opsA>>) @@ (q2 :> <<auditsA, opsB>>) @@ (q3 :> <<opsA>>)
MCSeeded    == (ops :> None) @@ (audits :> None) @@ (onboarding :> builtIn)
MCSeedGrants == (ops :> {}) @@ (audits :> {}) @@ (onboarding :> {lookup1})

MCOwnerOf  == (writer :> alice) @@ (reader :> alice)
MCScopesOf == (writer :> {"agents:write"}) @@ (reader :> {"agents:read"})
MCTypeOf   == alice :> "USER"
=============================================================================
