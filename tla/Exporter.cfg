SPECIFICATION ScrapeFairSpec
CONSTANTS
    Scrapes = {r1, r2, r3}
    Free = Free
    Broken = Broken
INVARIANTS
    ScrapeFailsForAReason
PROPERTY
    ScrapesAreAnswered
