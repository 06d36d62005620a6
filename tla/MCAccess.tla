------------------------------ MODULE MCAccess ------------------------------
(***************************************************************************)
(* Who may do what, on small instances: the daemon's policy gate and the   *)
(* control center's fences.  Each behaviour picks one of the two.          *)
(***************************************************************************)
EXTENDS Access, DesktopCore, TLC

CONSTANTS t1, t2, g1, g2, c1, c2, x

VARIABLE side

\* One task submits and spends, the other decides, acts and revokes.
MCAsks == (t1 :> {"flow", "plain", "consume"}) @@ (t2 :> {"decide", "effect", "revoke"})

Terms5(capability, resource, effect, approval, lives) ==
    [capability |-> capability, resource |-> resource, effect |-> effect,
     approval |-> approval, lives |-> lives]
\* An unconditional grant that can be revoked, and one that asks for approval
\* or runs out.
MCTerms ==
    (g1 :> {Terms5("flow.run", "any", "allow", "none", Nil)})
 @@ (g2 :> {Terms5("flow.run", x, "allow", "once", Nil), Terms5("plain", "any", "allow", "once", 1),
            Terms5("plain", x, "allow", "none", Nil)})

MCKinds ==
    (c1 :> {"activate", "refresh", "daemon", "approval"})
 @@ (c2 :> {"infer", "evidence", "progress", "workspace", "read", "model", "download", "connector",
            "skills", "settings"})

MCAccessInit == AccessInit /\ CoreInit /\ side \in {"daemon", "desktop"}

MCAccessNext ==
    /\ UNCHANGED side
    /\ \/ side = "daemon" /\ AccessNext /\ UNCHANGED coreVars
       \/ side = "desktop" /\ CoreNext /\ UNCHANGED accessVars

MCAccessSpec == MCAccessInit /\ [][MCAccessNext]_<<accessVars, coreVars, side>>
=============================================================================
