----------------------------- MODULE Federation -----------------------------
(***************************************************************************)
(* The federates of the generated federation, each as its preamble sets it *)
(* up:                                                                     *)
(*   id        its index at the RTI;                                       *)
(*   inbound   the physical connections it waits for, and creates a server *)
(*             for if there are any;                                       *)
(*   outbound  the federates it connects to;                               *)
(*   sources   the federates its network actions get their messages from,  *)
(*   actions   and how many there are, one for each network receiver;      *)
(*   viaRti    the federates it says in its neighbor structure that it     *)
(*             exchanges messages with through the RTI.                    *)
(***************************************************************************)
EXTENDS Naturals, FiniteSets

Unconnected(id) ==
  [id |-> id, inbound |-> 0, outbound |-> {}, sources |-> {}, actions |-> 0, viaRti |-> {}]

cbf    == Unconnected(0)
imu    == Unconnected(1)
vvc    == Unconnected(2)
ndt    == Unconnected(3)
gyro   == Unconnected(4)
ekf    == Unconnected(5)
pcm    == Unconnected(6)
l2m    == Unconnected(7)
gs     == Unconnected(8)
lcp    == Unconnected(9)
ec     == Unconnected(10)
pmf    == Unconnected(11)
dbt    == Unconnected(12)
ov     == Unconnected(13)
of     == Unconnected(14)
clf    == Unconnected(15)
mot    == Unconnected(16)
mbp    == Unconnected(17)
ogm    == Unconnected(18)
tlmbd  == Unconnected(19)
tlc    == Unconnected(20)
tla    == Unconnected(21)
tlop   == Unconnected(22)
ctle   == Unconnected(23)
mp     == Unconnected(24)
bpp    == Unconnected(25)
bvp    == Unconnected(26)
ps     == Unconnected(27)
po     == Unconnected(28)
mvp    == Unconnected(29)
soc    == Unconnected(30)
ss     == [Unconnected(31) EXCEPT !.outbound = {32}]
vs     == [Unconnected(32) EXCEPT !.inbound = 1, !.sources = {31}, !.actions = 1]
fp     == Unconnected(33)
cg     == Unconnected(34)
pv     == Unconnected(35)
evls   == Unconnected(36)
tf     == Unconnected(37)
sd     == Unconnected(38)
vcg    == [Unconnected(39) EXCEPT !.outbound = {45}]
omtm   == Unconnected(40)
ldc    == Unconnected(41)
cv     == Unconnected(42)
aeb    == Unconnected(43)
cd     == Unconnected(44)
bridge == [Unconnected(45) EXCEPT !.inbound = 1, !.sources = {39}, !.actions = 4]

AllFederates ==
  {cbf, imu, vvc, ndt, gyro, ekf, pcm, l2m, gs, lcp, ec, pmf, dbt, ov, of,
   clf, mot, mbp, ogm, tlmbd, tlc, tla, tlop, ctle, mp, bpp, bvp, ps, po, mvp,
   soc, ss, vs, fp, cg, pv, evls, tf, sd, vcg, omtm, ldc, cv, aeb, cd, bridge}

\* The IDs are the RTI's indexes, and both ends of each connection know of it:
\* the source opens it, the destination counts it and has actions for it.  No
\* connection goes through the RTI.
ASSUME WiringAssumption ==
  /\ {f.id : f \in AllFederates} = 0..Cardinality(AllFederates) - 1
  /\ \A f \in AllFederates :
       /\ Cardinality(f.sources) = f.inbound
       /\ f.sources = {} <=> f.actions = 0
       /\ f.sources = {g.id : g \in {h \in AllFederates : f.id \in h.outbound}}
       /\ f.outbound \subseteq {g.id : g \in AllFederates}
       /\ f.viaRti = {}
=============================================================================
