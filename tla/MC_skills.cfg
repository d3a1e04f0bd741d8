SPECIFICATION Spec
CONSTANTS
    None = None
    Gone = Gone
    MASTER = MASTER
    Agents = {a1, a2, a3}
    MaxWrites = 3
    MaxAsks = 2
    Attempts = 2
    MaxPolls = 3
    BatchStyles = 2
    MaxBlocks = 4
    Contents <- MCContents
    Rewrites <- MCRewrites
    Queries <- MCQueries
    Recommended <- MCRecommended
    LandingIds = {"hero"}
    Weight <- MCWeight
    Conditions <- MCConditions
    Rules <- MCRules
    Styles <- MCStyles
    Palettes <- MCPalettes
    Dials = {0, 11}
    Projects = {"My App"}
    Pages = {"about", "About"}
    PageSlugOf <- MCPageSlugOf
    PageTypes <- MCPageTypes
    Found <- MCFound
    SlugOf <- MCSlugOf
    Commands <- MCCommands
    Entries <- MCEntries
    Score <- MCScore
SYMMETRY Symmetry
INVARIANTS AnswersAreFaithful NoRetiredStyle DesignIsOneMode StoreReportsHold BatchIsHonest
CHECK_DEADLOCK FALSE
