CONSTANTS
    Host <- Hosts
    Parents <- ParentsOf
    Target <- Direct
    Option <- AllOptions
    Location <- Scheme
    Status <- Redirect
    Unset = Unset
SPECIFICATION Spec
CONSTRAINT HostsOrMethods
INVARIANTS TypeOK CredentialsStay NeverPlain FileIsStore BodyFollowsRedirects
