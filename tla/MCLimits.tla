----------------------------- MODULE MCLimits -----------------------------
(***************************************************************************)
(* What comes to the API from outside, for TLC: the limiter in front of    *)
(* it, and the credentials and budgets behind.  The limiter knows addresses*)
(* and not credentials, so one moves while the other is where it began;    *)
(* and so do the saved views of a user, whose number is limited too.       *)
(***************************************************************************)
EXTENDS PublicAccess, RateLimiter, SavedViews, TLC

\* One credential that may do all, or only look up.
AllOrViews == {Kinds, Views}

LimitsInit == Init /\ LimiterInit /\ ViewsInit

LimitsNext ==
    \/ LimiterInit /\ ViewsInit /\ Next /\ UNCHANGED <<limiterVars, viewVars>>
    \/ Init /\ ViewsInit /\ LimiterNext /\ UNCHANGED <<vars, viewVars>>
    \/ Init /\ LimiterInit /\ ViewsNext /\ UNCHANGED <<vars, limiterVars>>

LimitsSpec == LimitsInit /\ [][LimitsNext]_<<vars, limiterVars, viewVars>>

\* Handlers are interchangeable, and so are keys, which are the ids of views too.
Symmetric == Permutations(Handlers) \cup Permutations(Keys)
============================================================================
