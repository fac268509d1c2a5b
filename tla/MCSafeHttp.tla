------------------------------ MODULE MCSafeHttp ------------------------------
(* A public address, a private one, and two IPv6 addresses that is_global      *)
(* accepts and that carry packets to those; one range that is never public.    *)
EXTENDS SafeHttp

CONSTANTS u1, u2, u3, public4, private4, toPublic6, toPrivate6, relay4

MCEmbeds == [a \in {toPublic6, toPrivate6} |-> IF a = toPublic6 THEN public4 ELSE private4]
=============================================================================
