--------------------------- MODULE MCAuthSessions ---------------------------
(* AuthSessions: its properties, and an instance for TLC. *)
EXTENDS AuthSessionsProperties, TLC

CONSTANTS ann, root, eve, s1, s0, right, other, weak, temp

MCHolder == (s1 :> ann) @@ (s0 :> root)

\* ann has one wrong guess behind her, eve has not registered yet
MCRows == (ann :> [NewUser(right) EXCEPT !.attempts = 1]) @@ (root :> NewUser(right))
          @@ (eve :> [NewUser(right) EXCEPT !.state = "absent"])

\* the only pair old enough to expire while the requests run
MCPerishable == {s1} \X {"access", "refresh"}

Ask(kind, e, p, n, t) ==
  [kind |-> kind, email |-> e, password |-> p, new |-> n, token |-> t]
Guess == Ask("login", ann, other, other, s1)

SessionCalls ==
  {Guess, Ask("login", ann, right, right, s1),
   Ask("refresh", ann, right, right, s1), Ask("logout", ann, right, right, s1),
   Ask("use", ann, right, right, s1), Ask("unlock", ann, right, right, s0),
   Ask("delete", ann, right, right, s0)}
MCCalls == SessionCalls \union
  {Ask("register", eve, right, right, s1), Ask("register", eve, weak, right, s1),
   Ask("register", ann, right, right, s1), Ask("delete", root, right, right, s0),
   Ask("unlock", root, right, right, s1), Ask("resetPassword", ann, right, right, s0),
   Ask("changePassword", ann, right, other, s1)}

RequestSymmetry == Permutations(Requests)
=============================================================================
