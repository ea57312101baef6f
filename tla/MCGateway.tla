----------------------------- MODULE MCGateway -----------------------------
(***************************************************************************)
(* Gateway for TLC: what its configurations cannot write.                  *)
(***************************************************************************)
EXTENDS Gateway, TLC

CONSTANTS r1, r2, r3, r4, h1, h2, tenantA, tenantB, k1, k2, k3

\* The first pair of k1 and the one of k3 are invalid.
MCOneTenant == <<<<k1, NoTenant>>, <<k1, tenantA>>, <<k3, NoTenant>>>>

MCTwoTenants == <<<<k1, tenantA>>, <<k2, tenantB>>>>

Deployment(limited, authenticated, mode, closed) ==
    [rate_limit_enabled |-> limited, auth_enabled |-> authenticated,
     policy_mode |-> mode, fail_closed |-> closed]

\* The limiter with the inline policy, and OPA without a limiter: a decision does not
\* depend on how its request passed the limiter.
MCDeployments == {Deployment(TRUE, TRUE, "inline", TRUE),
                  Deployment(FALSE, FALSE, "opa_http", TRUE),
                  Deployment(FALSE, TRUE, "opa_http", FALSE)}

\* One query that is regulated, though it names a cost as well, and one that is not.
MCQueryTopics == {{"security", "cost"}, {}}

\* A whole result and two parts of one.
MCOpaFields == {Fields, {"query_class"}, Fields \ {"phase_b_required"}}

MCSymmetry == Permutations(Requests) \cup Permutations(Hosts)
=============================================================================
