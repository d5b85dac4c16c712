\* A facility, a gateway to it without resources of its own, and a gateway to
\* both, so that names have one and two prefixes and one resource is published
\* along two ways; the sweep reads the outer gateway, then the facility.  Resources
\* come and go, and lists are read, for ever: the state space is finite.
CONSTANTS
    Facility = {"top", "mid", "leaf"}
    Reported = {"UP", "DOWN", "DEGRADED", "UNKNOWN"}
    Upstreams <- MCUpstreams
    Systems <- MCSystems
    SiteOf <- MCSiteOf
    Swept <- MCSwept
    Shows <- MCShows
SPECIFICATION FedSpec
INVARIANTS
    RequestReachesOwner
    CopiesHaveSites
    ShownOnce
    SitesAgree
