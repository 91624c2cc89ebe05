-------------------------- MODULE MCLandedConsumer --------------------------
(* Instances of LandedConsumer for TLC. *)
EXTENDS LandedConsumer, TLC

CONSTANTS m1, m2, m3, s1, s2

\* Two messages about one object, and one about an object that is no media.
TwiceAnnounced == (m1 :> s1) @@ (m2 :> s1) @@ (m3 :> s2)

=============================================================================
