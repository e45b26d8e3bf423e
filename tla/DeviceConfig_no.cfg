SPECIFICATION Spec
CONSTANTS
    Numerals <- MCNumerals
    Ipv4 <- MCIpv4
    Ipv6 <- MCIpv6
    Ipv6Prefixes <- MCIpv6Prefixes
    HostPrefixes <- MCHostPrefixes
    Letters <- MCLetters
    Vocabularies <- OnlyVlans
    Files <- MCFiles
    Factories <- MCFactories
    MaxEntries = 2
    Silent <- MCSilent
    Unsettled <- MCUnsettled
PROPERTIES
    NoVlanRemovesIt
