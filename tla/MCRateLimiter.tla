--------------------------- MODULE MCRateLimiter ----------------------------
(* Instances of RateLimiter for TLC. *)
EXTENDS RateLimiter, TLC

CONSTANTS list, create

Text(kept, lost) == [kept |-> kept, lost |-> lost]

(* Two routes on one pattern share a counter. Their windows, of 2 and 2.5  *)
(* milliseconds, are the same to Redis; a second has 2.                    *)
OnePattern == [r \in Rules |-> Text("items", "")]
UserThenToken == list :> "user" @@ create :> "auto"
TenantFirst == list :> <<>> @@ create :> <<"tenant">>
Limits == [r \in Rules |-> 1]
Windows == list :> 4 @@ create :> 5

(* The ids of the two clients differ in what sanitizeIdentifier drops, so  *)
(* as users they share a key; the second has a tenant, of the same name.   *)
Known(user, tenant) ==
  "user" :> user @@ "token" :> Text("", "") @@ "tenant" :> tenant @@ "ip" :> Text("", "")
Creds == <<Known(Text("ann", ""), Text("", "")), Known(Text("ann", "b"), Text("ann", ""))>>
=============================================================================
